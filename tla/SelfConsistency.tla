--------------------------- MODULE SelfConsistency ---------------------------
(***************************************************************************)
(* The narrator's self-consistency check, run when the rules found         *)
(* something CRITICAL: the agent is run twice more and the ids its reports *)
(* cite are compared with those of the report to be published.  Each extra *)
(* run is a model call that may fail; the first failure ends the check.    *)
(***************************************************************************)
EXTENDS Integers, Sequences

CONSTANTS
    Key,          \* what _narrative_key can give: sets of finding ids
    ExtraRuns,    \* how many further runs: 2
    None

ASSUME SelfConsistencyAssumption == ExtraRuns \in Nat \ {0} /\ \A k \in Key : k # None

VARIABLES
    critical,     \* the summary counts a CRITICAL finding
    stated,       \* the flag the model itself put in the report
    primary,      \* the key of the report, None until the agent has answered
    extraKeys,    \* the keys of the extra runs that answered
    failed,       \* an extra run failed
    flag          \* self_consistency_passed as written to S3, None until then

vars == <<critical, stated, primary, extraKeys, failed, flag>>

Init ==
    /\ critical \in BOOLEAN
    /\ stated = TRUE
    /\ primary = None
    /\ extraKeys = <<>>
    /\ failed = FALSE
    /\ flag = None

\* The first agent run; the structured output may set the flag either way.
PrimaryRun ==
    /\ primary = None
    /\ primary' \in Key
    /\ stated' \in BOOLEAN
    /\ UNCHANGED <<critical, extraKeys, failed, flag>>

Checking == primary # None /\ flag = None /\ critical

\* The comparison is open while runs remain and none has failed.
RunsLeft == Len(extraKeys) < ExtraRuns /\ ~failed

ExtraRun ==
    /\ Checking /\ RunsLeft
    /\ \E k \in Key : extraKeys' = Append(extraKeys, k)
    /\ UNCHANGED <<critical, stated, primary, failed, flag>>

ExtraRunFails ==
    /\ Checking /\ RunsLeft
    /\ failed' = TRUE
    /\ UNCHANGED <<critical, stated, primary, extraKeys, flag>>

\* Mutant: one extra run that agrees is enough.
SomeAgrees == \E i \in DOMAIN extraKeys : extraKeys[i] = primary

AllAgree == \A i \in DOMAIN extraKeys : extraKeys[i] = primary

\* Mutant: a failed extra run counts against the report.
DecideStrictly ==
    /\ Checking /\ ~RunsLeft
    /\ flag' = (~failed /\ AllAgree)
    /\ UNCHANGED <<critical, stated, primary, extraKeys, failed>>

\* Mutant: the decision waits for all extra runs, failed ones included.
DecideWhenComplete ==
    /\ Checking /\ Len(extraKeys) = ExtraRuns
    /\ flag' = AllAgree
    /\ UNCHANGED <<critical, stated, primary, extraKeys, failed>>

Decide ==
    /\ Checking /\ ~RunsLeft
    /\ flag' = (failed \/ AllAgree)
    /\ UNCHANGED <<critical, stated, primary, extraKeys, failed>>

\* Without a CRITICAL finding the report is written as the model gave it.
WriteUnchecked ==
    /\ primary # None /\ flag = None /\ ~critical
    /\ flag' = stated
    /\ UNCHANGED <<critical, stated, primary, extraKeys, failed>>

Next == PrimaryRun \/ ExtraRun \/ ExtraRunFails \/ Decide \/ WriteUnchecked
=============================================================================
