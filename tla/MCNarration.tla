---------------------------- MODULE MCNarration ----------------------------
(* Two rules, of which R1 is critical, with at most one finding each.      *)
EXTENDS Narration

\* "dbadmin" is a login whose name contains "db"; "fin_db" and "payroll" are
\* databases, of which one name does not.
Names == {"sa", "dbadmin", "fin_db", "payroll"}
DbLikeNames == {"dbadmin", "fin_db"}
SameName == {<<x, x>> : x \in Name}

Sa == [principal |-> "sa", databases |-> {"fin_db"}, controls |-> {"ISM-1546"}]
DbAdmin == [principal |-> "dbadmin", databases |-> {"payroll"}, controls |-> {}]
SmallRaised == {fs \in [Rule -> {<<>>, <<Sa>>, <<DbAdmin>>}] :
                   fs["R1"] # <<DbAdmin>> /\ fs["R6"] # <<Sa>>}
SmallKeys == SUBSET (Rule \X {1})
SmallDraft == [cited : {{}}, total : 0..2, quoted : SUBSET Name,
               denied : SUBSET {"sa", "payroll"}, controls : SUBSET Control,
               consistent : {TRUE}]
=============================================================================
