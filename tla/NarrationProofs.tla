-------------------------- MODULE NarrationProofs --------------------------
(***************************************************************************)
(* The safety properties of Narration, for all rules, findings, reports    *)
(* and numbers of extra runs.  The invariant says what the flag of the     *)
(* report stands for and that the narrative and the verdict were computed  *)
(* from it; the properties follow state by state.                          *)
(***************************************************************************)
EXTENDS Narration, TLAPS

\* An id of a document leads to a finding of it (run_rules assigns the ids).
LEMMA BodyOfType ==
    ASSUME NEW fs \in Findings, NEW id \in Ids(fs)
    PROVE  BodyOf(fs, id) \in Body
  <1>1. PICK r \in Rule : id \in {<<r, i>> : i \in DOMAIN fs[r]}
    BY DEF Ids
  <1>2. PICK i \in DOMAIN fs[r] : id = <<r, i>>
    BY <1>1
  <1>3. fs[r] \in Seq(Body)
    BY DEF Findings
  <1>4. fs[r][i] \in Body
    BY <1>3
  <1> QED BY <1>2, <1>4 DEF BodyOf

-----------------------------------------------------------------------------
Types ==
    /\ findings \in Findings
    /\ critical = HasCritical(findings)
    /\ stated \in BOOLEAN
    /\ failed \in BOOLEAN
    /\ primary \in Key \cup {None}
    /\ extraKeys \in Seq(Key)
    /\ Len(extraKeys) <= ExtraRuns
    /\ flag \in BOOLEAN \cup {None}

\* Only a critical report is checked, and its flag says how the check ended.
FlagTellsCheck ==
    /\ failed => critical
    /\ flag # None => primary # None
    /\ flag # None /\ critical =>
          /\ failed \/ Len(extraKeys) = ExtraRuns
          /\ failed => flag = TRUE
          /\ flag = TRUE => failed \/ AllAgree

\* The narrative carries the citations and the flag, the verdict is its own.
WrittenFromCheck ==
    /\ narrative # None =>
          /\ flag # None
          /\ narrative \in Narrative
          /\ narrative.cited = primary
          /\ narrative.consistent = flag
    /\ verdict # None =>
          /\ narrative # None
          /\ verdict = [g \in Gate |-> GatePasses(g, findings, narrative)]

NInv == Types /\ FlagTellsCheck /\ WrittenFromCheck

USE DEF Checking, RunsLeft

LEMMA NInvInit == NarrationInit => NInv
  <1> SUFFICES ASSUME NarrationInit PROVE NInv
    OBVIOUS
  <1> USE NarrationAssumption, SelfConsistencyAssumption
  <1>1. Types
    <2>1. extraKeys \in Seq(Key) /\ Len(extraKeys) = 0
      BY DEF NarrationInit, Init
    <2>2. Len(extraKeys) <= ExtraRuns
      BY <2>1
    <2>3. findings \in Findings /\ critical = HasCritical(findings)
      BY DEF NarrationInit
    <2>4. stated \in BOOLEAN /\ failed \in BOOLEAN /\ primary = None /\ flag = None
      BY DEF NarrationInit, Init
    <2> QED BY <2>1, <2>2, <2>3, <2>4 DEF Types
  <1>2. FlagTellsCheck
    BY DEF NarrationInit, Init, FlagTellsCheck
  <1>3. WrittenFromCheck
    BY DEF NarrationInit, WrittenFromCheck
  <1> QED BY <1>1, <1>2, <1>3 DEF NInv

\* A run of the agent or the decision keeps the invariant.
LEMMA ConsultStep == NInv /\ Consult => NInv'
  <1> SUFFICES ASSUME NInv, Consult PROVE NInv'
    OBVIOUS
  <1> USE NarrationAssumption, SelfConsistencyAssumption DEF NInv
  <1>0. /\ Next
        /\ UNCHANGED <<findings, narrative, verdict>>
        /\ critical' = critical
    BY DEF Consult, Next, PrimaryRun, ExtraRun, ExtraRunFails, Decide, WriteUnchecked
  <1>1. CASE PrimaryRun
    <2>1. Types'
      BY <1>0, <1>1 DEF PrimaryRun, Types
    <2>2. flag = None
      BY <1>1 DEF PrimaryRun, FlagTellsCheck
    <2>3. FlagTellsCheck' /\ WrittenFromCheck'
      BY <1>0, <1>1, <2>2 DEF PrimaryRun, FlagTellsCheck, WrittenFromCheck
    <2> QED BY <2>1, <2>3
  <1>2. CASE ExtraRun
    <2>1. PICK k \in Key : extraKeys' = Append(extraKeys, k)
      BY <1>2 DEF ExtraRun
    <2>2. Types'
      <3>1. extraKeys' \in Seq(Key) /\ Len(extraKeys') = Len(extraKeys) + 1
        BY <2>1 DEF Types
      <3> QED BY <1>0, <1>2, <3>1 DEF ExtraRun, Types
    <2>3. FlagTellsCheck' /\ WrittenFromCheck'
      BY <1>0, <1>2 DEF ExtraRun, FlagTellsCheck, WrittenFromCheck
    <2> QED BY <2>2, <2>3
  <1>3. CASE ExtraRunFails
    <2>1. Types'
      BY <1>0, <1>3 DEF ExtraRunFails, Types
    <2>2. FlagTellsCheck' /\ WrittenFromCheck'
      BY <1>0, <1>3 DEF ExtraRunFails, FlagTellsCheck, WrittenFromCheck
    <2> QED BY <2>1, <2>2
  <1>4. CASE Decide
    <2>1. /\ flag = None /\ primary # None /\ critical
          /\ UNCHANGED <<stated, primary, extraKeys, failed>>
      BY <1>4 DEF Decide
    <2>2. /\ flag' \in BOOLEAN
          /\ flag' <=> (failed \/ AllAgree)
      BY <1>4 DEF Decide
    <2>3. AllAgree' <=> AllAgree
      BY <2>1 DEF AllAgree
    <2>4. failed \/ Len(extraKeys) = ExtraRuns
      BY <1>4 DEF Decide, Types
    <2>5. Types'
      BY <1>0, <2>1, <2>2 DEF Types
    <2>6. FlagTellsCheck'
      BY <1>0, <2>1, <2>2, <2>3, <2>4 DEF FlagTellsCheck
    <2>7. WrittenFromCheck'
      BY <1>0, <2>1 DEF WrittenFromCheck
    <2> QED BY <2>5, <2>6, <2>7
  <1>5. CASE WriteUnchecked
    <2>1. Types'
      BY <1>0, <1>5 DEF WriteUnchecked, Types
    <2>2. FlagTellsCheck' /\ WrittenFromCheck'
      BY <1>0, <1>5 DEF WriteUnchecked, FlagTellsCheck, WrittenFromCheck
    <2> QED BY <2>1, <2>2
  <1> QED BY <1>0, <1>1, <1>2, <1>3, <1>4, <1>5 DEF Next

\* Writing the narrative keeps the invariant.
LEMMA WriteStep == NInv /\ WriteNarrative => NInv'
  <1> SUFFICES ASSUME NInv, WriteNarrative PROVE NInv'
    OBVIOUS
  <1> USE NarrationAssumption, SelfConsistencyAssumption DEF NInv
  <1>1. PICK d \in Draft : narrative' = [d EXCEPT !.cited = primary, !.consistent = flag]
    BY DEF WriteNarrative
  <1>2. /\ flag \in BOOLEAN /\ primary \in SUBSET FindingId
        /\ UNCHANGED <<findings, verdict, critical, stated, primary, extraKeys,
                       failed, flag>>
        /\ flag # None /\ narrative = None
    BY DEF WriteNarrative, vars, Types, FlagTellsCheck
  <1>3. d \in Narrative
    OBVIOUS
  <1>4. /\ narrative' \in Narrative
        /\ narrative'.cited = primary
        /\ narrative'.consistent = flag
    BY <1>1, <1>2, <1>3 DEF Narrative
  <1>5. Types' /\ FlagTellsCheck'
    BY <1>2 DEF Types, FlagTellsCheck, AllAgree
  <1>6. WrittenFromCheck'
    BY <1>2, <1>4 DEF WrittenFromCheck
  <1> QED BY <1>5, <1>6

\* The verdict of the gates keeps the invariant.
LEMMA GatesStep == NInv /\ RunGates => NInv'
  <1> SUFFICES ASSUME NInv, RunGates PROVE NInv'
    OBVIOUS
  <1>1. /\ verdict' = [g \in Gate |-> GatePasses(g, findings, narrative)]
        /\ narrative # None
        /\ UNCHANGED <<findings, narrative, critical, stated, primary, extraKeys,
                       failed, flag>>
    BY DEF RunGates, vars
  <1>2. Types' /\ FlagTellsCheck'
    BY <1>1 DEF NInv, Types, FlagTellsCheck, AllAgree
  <1>3. WrittenFromCheck'
    BY <1>1 DEF NInv, WrittenFromCheck
  <1> QED BY <1>2, <1>3 DEF NInv

\* Every reachable state satisfies the invariant.
THEOREM NarrationInvariant == NarrationSpec => []NInv
  <1>1. ASSUME NInv, UNCHANGED narrationVars PROVE NInv'
    BY <1>1 DEF NInv, narrationVars, vars, Types, FlagTellsCheck, WrittenFromCheck,
                AllAgree
  <1>2. NInv /\ [NarrationNext]_narrationVars => NInv'
    BY <1>1, ConsultStep, WriteStep, GatesStep DEF NarrationNext
  <1> QED BY NInvInit, <1>2, PTL DEF NarrationSpec
-----------------------------------------------------------------------------
\* What the verdict says of the three gates.
LEMMA VerdictOfGates ==
    ASSUME NInv, Judged
    PROVE  /\ verdict["citation"] <=> CitationPasses(findings, narrative)
           /\ verdict["reconciliation"] <=> ReconciliationPasses(findings, narrative)
           /\ verdict["grounding"] <=> GroundingPasses(findings, narrative)
  <1>1. verdict = [g \in Gate |-> GatePasses(g, findings, narrative)]
    BY DEF NInv, WrittenFromCheck, Judged
  <1>2. {"citation", "reconciliation", "grounding"} = Gate
    BY DEF Gate
  <1> QED BY <1>1, <1>2 DEF GatePasses

\* A narrative all gates accept is sound: Narration's AcceptedNarrativeIsSound
\* of gates citation_gate, reconciliation_gate and entity_grounding_gate.
THEOREM AcceptedIsSound == NarrationSpec => []AcceptedNarrativeIsSound
  <1>1. ASSUME NInv PROVE AcceptedNarrativeIsSound
    <2> SUFFICES ASSUME Accepted
                 PROVE  /\ narrative.cited = Ids(findings)
                        /\ narrative.total = Count(findings)
                        /\ \A id \in Ids(findings) :
                              /\ BodyOf(findings, id).principal \notin narrative.denied
                              /\ BodyOf(findings, id).databases \cap narrative.denied = {}
      BY DEF AcceptedNarrativeIsSound
    <2>1. /\ ReconciliationPasses(findings, narrative)
          /\ GroundingPasses(findings, narrative)
      BY <1>1, VerdictOfGates DEF Accepted, Gate
    <2>2. FalselyDenied(findings, narrative) = {}
      BY <2>1 DEF GroundingPasses
    <2>3. ASSUME NEW id \in Ids(findings)
          PROVE  /\ BodyOf(findings, id).principal \notin narrative.denied
                 /\ BodyOf(findings, id).databases \cap narrative.denied = {}
      <3> DEFINE b == BodyOf(findings, id)
      <3>1. b \in Body
        BY <1>1, BodyOfType DEF NInv, Types
      <3>2. <<b.principal, b.principal>> \in Within
        BY <3>1, GatesAssumption DEF Body
      <3>3. b \in Bodies(findings)
        BY DEF Bodies
      <3> HIDE DEF b
      <3>4. b.principal \notin narrative.denied /\ b.databases \cap narrative.denied = {}
        BY <2>2, <3>2, <3>3 DEF FalselyDenied
      <3> QED BY <3>4 DEF b
    <2> QED BY <2>1, <2>3 DEF ReconciliationPasses
  <1> QED BY <1>1, NarrationInvariant, PTL

\* Behind an accepted narrative on critical findings stand ExtraRuns further
\* runs that cited the same findings, unless one failed.
THEOREM AcceptedRunsAgree == NarrationSpec => []AcceptedCriticalRunsAgree
  <1>1. ASSUME NInv PROVE AcceptedCriticalRunsAgree
    <2> SUFFICES ASSUME Accepted, HasCritical(findings), ~failed
                 PROVE  /\ Len(extraKeys) = ExtraRuns
                        /\ \A i \in DOMAIN extraKeys : extraKeys[i] = Ids(findings)
      BY DEF AcceptedCriticalRunsAgree
    <2>1. /\ ReconciliationPasses(findings, narrative)
          /\ GroundingPasses(findings, narrative)
      BY <1>1, VerdictOfGates DEF Accepted, Gate
    <2>2. narrative # None
      BY <1>1 DEF NInv, WrittenFromCheck, Accepted, Judged
    <2>3. /\ primary = Ids(findings)
          /\ flag = narrative.consistent /\ flag # None
          /\ narrative.consistent \in BOOLEAN
      BY <1>1, <2>1, <2>2 DEF NInv, WrittenFromCheck, ReconciliationPasses, Narrative
    <2>4. narrative.consistent
      BY <2>1 DEF GroundingPasses
    <2>5. flag = TRUE
      BY <2>3, <2>4
    <2>6. Len(extraKeys) = ExtraRuns /\ AllAgree
      BY <1>1, <2>3, <2>5 DEF NInv, Types, FlagTellsCheck
    <2> QED BY <2>3, <2>6 DEF AllAgree
  <1> QED BY <1>1, NarrationInvariant, PTL

\* A failed extra run never makes the grounding gate reject a narrative that no
\* run before it contradicted, even if the model doubted it itself.
THEOREM FailuresDoNotQuarantine == NarrationSpec => []BlipsDoNotQuarantine
  <1>1. ASSUME NInv PROVE BlipsDoNotQuarantine
    <2> SUFFICES ASSUME failed, AllAgree, Judged
                 PROVE  verdict["grounding"]
                           <=> /\ EntitiesGrounded(findings, narrative)
                               /\ FalselyDenied(findings, narrative) = {}
      BY DEF BlipsDoNotQuarantine
    <2>1. narrative.consistent = TRUE
      BY <1>1 DEF NInv, FlagTellsCheck, WrittenFromCheck, Judged
    <2> QED BY <1>1, <2>1, VerdictOfGates DEF GroundingPasses
  <1> QED BY <1>1, NarrationInvariant, PTL

\* Entity grounding never fails a narrative that names only what its findings
\* name, when the findings follow the naming the gate relies on.
THEOREM WellNamedIsGrounded == NarrationSpec => []WellNamedContextIsGrounded
  <1>1. WellNamedContextIsGrounded
    <2> SUFFICES ASSUME \A b \in Bodies(findings) :
                           b.principal \notin DbLike /\ b.databases \subseteq DbLike,
                        narrative.quoted \subseteq Context,
                        narrative.controls \subseteq UNION {b.controls : b \in Bodies(findings)}
                 PROVE  EntitiesGrounded(findings, narrative)
      BY DEF WellNamedContextIsGrounded
    <2>1. ASSUME NEW x \in narrative.quoted
          PROVE  \E b \in Bodies(findings) : x = b.principal \/ x \in b.databases
      BY <2>1 DEF Context
    <2>2. ASSUME NEW x \in QuotedPrincipals(narrative)
          PROVE  x \in {b.principal : b \in Bodies(findings)}
      BY <2>1, <2>2 DEF QuotedPrincipals
    <2>3. ASSUME NEW x \in QuotedDatabases(narrative)
          PROVE  x \in UNION {b.databases : b \in Bodies(findings)}
      BY <2>1, <2>3 DEF QuotedDatabases
    <2> QED BY <2>2, <2>3 DEF EntitiesGrounded
  <1> QED BY <1>1, PTL
=============================================================================
