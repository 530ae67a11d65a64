----------------------------- MODULE MCPipeline -----------------------------
(* Small instances of Pipeline for TLC.                                    *)
EXTENDS PipelineRefinement, TLC

CONSTANTS e1, e2

OnlyE1 == {e1}
BothExecs == {e1, e2}
OneRun == {"run_A"}
AllInRunA == [e \in Exec |-> "run_A"]

\* "sa" is a login; "fin_db" a database; "sales (s1)" a database whose name the
\* back-tick pattern does not match.
Names == {"sa", "fin_db", "sales (s1)"}
DbLikeNames == {"fin_db"}
QuotableNames == {"sa", "fin_db"}
SameName == {<<x, x>> : x \in Name}

AdminBody == [principal |-> "sa", databases |-> {"fin_db"}, controls |-> {"ISM-1546"}]
SharedBody == [principal |-> "sa", databases |-> {"sales (s1)"}, controls |-> {"ISM-1545"}]
OneFinding == [r \in Rule |-> IF r = "R6" THEN <<SharedBody>> ELSE <<>>]
TwoFindings == [r \in Rule |-> IF r = "R6" THEN <<AdminBody, SharedBody>> ELSE <<>>]
CriticalFinding == [r \in Rule |-> IF r = "R1" THEN <<AdminBody>> ELSE <<>>]
NoFinding == [r \in Rule |-> <<>>]

Faithful(fs) == [cited |-> Ids(fs), total |-> Count(fs), quoted |-> {"sa"},
                 denied |-> {}, controls |-> {}, consistent |-> TRUE]
OfEmpty == [Faithful(NoFinding) EXCEPT !.quoted = {}]
WrongTotal == [Faithful(CriticalFinding) EXCEPT !.total = 2]
InventedId == [Faithful(CriticalFinding) EXCEPT !.cited = @ \cup {<<"R6", 9>>}]
Ungrounded == [Faithful(CriticalFinding) EXCEPT !.quoted = {"fin_db", "sa"},
                                                !.denied = {"sa"}]

Good == [faithfulness |-> 90, completeness |-> 95, fabrication |-> 5,
         reasoning |-> "assessed"]
Weak == [Good EXCEPT !.completeness = 94]

\* One execution, rich in what the rows, the agent and the judge may give.
SoloSnapshots == {"s1", "s2"}
SoloHash == [s \in Snapshot |-> IF s = "s1" THEN "h1" ELSE "h2"]
SoloEvaluate ==
    [s \in Snapshot |-> IF s = "s1" THEN {CriticalFinding, NoFinding}
                                    ELSE {TwoFindings}]
SoloDrafts == {Faithful(CriticalFinding), Faithful(TwoFindings), OfEmpty,
               WrongTotal, InventedId, Ungrounded}
SoloScores == {Good, Weak}
SoloClaims == {{}, {70}, {30, 71}}

\* Two executions that share a run id: the rows change between their
\* extractions, and the agent writes a narrative faithful to either.
PairSnapshots == {"s1", "s2"}
PairHash == [s \in Snapshot |-> IF s = "s1" THEN "h1" ELSE "h2"]
PairEvaluate == [s \in Snapshot |-> IF s = "s1" THEN {OneFinding} ELSE {NoFinding}]
PairDrafts == {Faithful(OneFinding), OfEmpty}
GoodScore == {Good}
NoClaims == {{}}
SwapExecs == Permutations(Exec)

\* The same with rows that do not change.
CalmSnapshots == {"s1"}
=============================================================================
