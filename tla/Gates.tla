------------------------------- MODULE Gates -------------------------------
(***************************************************************************)
(* The checks a narrative must pass before a run is published as           *)
(* "succeeded": the three deterministic gates (citation, reconciliation,   *)
(* entity grounding) and the thresholds of the LLM judge and of the        *)
(* adversarial probe.                                                      *)
(*                                                                         *)
(* A findings document is a function from each rule to the sequence of     *)
(* findings that rule raised: the handler's finding id F-<run>-<rule>-<n>  *)
(* is the pair <<rule, n>>.  A narrative is reduced to what the checks     *)
(* look at: the ids it cites, the total it states, the names it puts in    *)
(* back-ticks, the names it declares free of findings, the ISM controls    *)
(* it mentions, and the self-consistency flag.                             *)
(***************************************************************************)
EXTENDS Integers, Sequences, FiniteSets

CONSTANTS
    Rule,        \* the rules of rules_engine/rules
    Critical,    \* the rules whose findings have severity CRITICAL
    Name,        \* principal and database names
    DbLike,      \* the names that contain "db" in any case
    Quotable,    \* the names the back-tick pattern matches: no space, no bracket
    Within,      \* <<a, b>>: the text of name a occurs in name b
    Control      \* ISM control ids

ASSUME GatesAssumption ==
    /\ IsFiniteSet(Rule)
    /\ Critical \subseteq Rule
    /\ DbLike \subseteq Name /\ Quotable \subseteq Name
    /\ Within \subseteq Name \X Name
    /\ \A x \in Name : <<x, x>> \in Within

Body == [principal : Name, databases : SUBSET Name, controls : SUBSET Control]
Findings == [Rule -> Seq(Body)]
FindingId == Rule \X (Nat \ {0})
Narrative == [cited : SUBSET FindingId, total : Int, quoted : SUBSET Name,
              denied : SUBSET Name, controls : SUBSET Control,
              consistent : BOOLEAN]

Ids(fs) == UNION {{<<r, i>> : i \in DOMAIN fs[r]} : r \in Rule}
Count(fs) == Cardinality(Ids(fs))
BodyOf(fs, id) == fs[id[1]][id[2]]
Bodies(fs) == {BodyOf(fs, id) : id \in Ids(fs)}
HasCritical(fs) == \E r \in Critical : fs[r] # <<>>

-----------------------------------------------------------------------------
CitationPasses(fs, n) == n.cited \subseteq Ids(fs)

ReconciliationPasses(fs, n) ==
    /\ n.total = Count(fs)
    /\ n.cited = Ids(fs)

\* What extract_entities finds: a back-ticked name is a database when it
\* looks like one, else a principal; dates and numbers are extracted too and
\* then compared with nothing.
QuotedDatabases(n) == n.quoted \cap Quotable \cap DbLike

\* Mutant: every back-ticked name is taken for a principal.
QuotedNames(n) == n.quoted \cap Quotable

QuotedPrincipals(n) == (n.quoted \cap Quotable) \ DbLike

EntitiesGrounded(fs, n) ==
    /\ QuotedPrincipals(n) \subseteq {b.principal : b \in Bodies(fs)}
    /\ QuotedDatabases(n) \subseteq UNION {b.databases : b \in Bodies(fs)}
    /\ n.controls \subseteq UNION {b.controls : b \in Bodies(fs)}

\* Mutant: the databases of the findings are not looked at.
FalselyDeniedPrincipals(fs, n) ==
    {x \in n.denied : \E b \in Bodies(fs) : <<x, b.principal>> \in Within}

\* A name said to have no findings is contradicted by a finding whose
\* principal contains it or whose databases list it.
FalselyDenied(fs, n) ==
    {x \in n.denied : \E b \in Bodies(fs) :
                          <<x, b.principal>> \in Within \/ x \in b.databases}

GroundingPasses(fs, n) ==
    /\ EntitiesGrounded(fs, n)
    /\ FalselyDenied(fs, n) = {}
    /\ n.consistent

Gate == {"citation", "reconciliation", "grounding"}
GatePasses(g, fs, n) ==
    \/ g = "citation" /\ CitationPasses(fs, n)
    \/ g = "reconciliation" /\ ReconciliationPasses(fs, n)
    \/ g = "grounding" /\ GroundingPasses(fs, n)

-----------------------------------------------------------------------------
(* Scores and confidences are percentages.                                 *)
Percent == 0..100
Score == [faithfulness : Percent, completeness : Percent,
          fabrication : Percent, reasoning : {"assessed", "judge not run"}]

JudgePasses(s) ==
    /\ s.faithfulness >= 90
    /\ s.completeness >= 95
    /\ s.fabrication <= 5

\* claims: the confidences of the weak claims the probe reports.
ProbePasses(claims) == \A c \in claims : c <= 70
=============================================================================
