--------------------------- MODULE PipelineProofs ---------------------------
(***************************************************************************)
(* Theorems about Pipeline, for any executions, run ids, rows, findings,   *)
(* narratives, scores and retry bound: type correctness, and what a row    *)
(* that says "succeeded" is worth.  Three invariants carry the proofs.     *)
(* TypeInv and ChecksInv hold whoever shares a run id; ReadsInv needs      *)
(* executions not to share run ids.                                        *)
(***************************************************************************)
EXTENDS Pipeline, FiniteSetTheorems, TLAPS

-----------------------------------------------------------------------------
(* Documents and gates                                                     *)

\* The ids of a findings document are finding ids.
LEMMA IdsType ==
    ASSUME NEW fs \in Findings
    PROVE  Ids(fs) \subseteq FindingId
  <1>1. ASSUME NEW r \in Rule, NEW i \in DOMAIN fs[r]
        PROVE  <<r, i>> \in FindingId
    <2>1. fs[r] \in Seq(Body)
      BY DEF Findings
    <2>2. i \in Nat \ {0}
      BY <2>1
    <2> QED BY <2>2 DEF FindingId
  <1> QED BY <1>1 DEF Ids

\* An id of a document leads to a finding of it (run_rules assigns the ids).
LEMMA BodyOfType ==
    ASSUME NEW fs \in Findings, NEW id \in Ids(fs)
    PROVE  BodyOf(fs, id) \in Body
  <1>1. PICK r \in Rule : id \in {<<r, i>> : i \in DOMAIN fs[r]}
    BY DEF Ids
  <1>2. PICK i \in DOMAIN fs[r] : id = <<r, i>>
    BY <1>1
  <1>3. fs[r] \in Seq(Body)
    BY DEF Findings
  <1>4. fs[r][i] \in Body
    BY <1>3
  <1> QED BY <1>2, <1>4 DEF BodyOf

\* A document has finitely many findings.
LEMMA IdsFinite ==
    ASSUME NEW fs \in Findings
    PROVE  IsFiniteSet(Ids(fs))
  <1> DEFINE Of(r) == {<<r, i>> : i \in DOMAIN fs[r]}
             Family == {Of(r) : r \in Rule}
  <1>1. ASSUME NEW r \in Rule
        PROVE  IsFiniteSet(Of(r))
    <2>1. fs[r] \in Seq(Body)
      BY DEF Findings
    <2>2. DOMAIN fs[r] = 1..Len(fs[r]) /\ Len(fs[r]) \in Nat
      BY <2>1
    <2>3. IsFiniteSet(DOMAIN fs[r])
      BY <2>2, FS_Interval
    <2> DEFINE f == [i \in DOMAIN fs[r] |-> <<r, i>>]
    <2>4. f \in Surjection(DOMAIN fs[r], Of(r))
      BY DEF Surjection
    <2> QED BY <2>3, <2>4, FS_Surjection
  <1>2. IsFiniteSet(Family)
    <2> DEFINE g == [r \in Rule |-> Of(r)]
    <2> HIDE DEF Of
    <2>1. g \in Surjection(Rule, Family)
      BY DEF Surjection
    <2> QED BY <2>1, GatesAssumption, FS_Surjection
  <1>3. \A T \in Family : IsFiniteSet(T)
    <2> HIDE DEF Of
    <2> QED BY <1>1
  <1>4. IsFiniteSet(UNION Family)
    BY <1>2, <1>3, FS_UNION
  <1> QED BY <1>4 DEF Ids

\* findings_count is a natural number.
LEMMA CountType ==
    ASSUME NEW fs \in Findings
    PROVE  Count(fs) \in Nat
  BY IdsFinite, FS_CardinalityType DEF Count

\* The flag of a narrative can be replaced (report.model_copy).
LEMMA NarrativeFlag ==
    ASSUME NEW n \in Narrative, NEW c \in BOOLEAN
    PROVE  [n EXCEPT !.consistent = c] \in Narrative
  BY DEF Narrative

\* The three verdicts add up to 3 exactly when every gate passes: the test of
\* GateChoice is the conjunction of the gates, whatever the verdicts are.
LEMMA SumIsConjunction ==
    ASSUME NEW S \in SUBSET Gate
    PROVE  Cardinality(S) = 3 <=> S = Gate
  <1>1. IsFiniteSet({}) /\ Cardinality({}) = 0
    BY FS_EmptySet
  <1>2. /\ IsFiniteSet({"citation"})
        /\ Cardinality({"citation"}) = 1
    BY FS_Singleton
  <1>3. /\ IsFiniteSet({"citation"} \cup {"reconciliation"})
        /\ Cardinality({"citation"} \cup {"reconciliation"}) = 2
    BY <1>2, FS_AddElement
  <1>4. /\ IsFiniteSet({"citation"} \cup {"reconciliation"} \cup {"grounding"})
        /\ Cardinality({"citation"} \cup {"reconciliation"} \cup {"grounding"}) = 3
    BY <1>3, FS_AddElement
  <1>5. Gate = {"citation"} \cup {"reconciliation"} \cup {"grounding"}
    BY DEF Gate
  <1>6. IsFiniteSet(Gate) /\ Cardinality(Gate) = 3
    BY <1>4, <1>5
  <1> QED BY <1>6, FS_Subset

-----------------------------------------------------------------------------
(* Type correctness.  TypeOK is not inductive: that a handler finds what   *)
(* it reads depends on what the states before it have put.                 *)

WithRows == {"ExtractUar", "ValidateAndHash", "RulesEngine"}
AfterExtract == (Task \ {"ExtractUar"}) \cup {"MarkQuarantined"}
AfterValidate == AfterExtract \ {"ValidateAndHash"}
AfterRules == AfterValidate \ {"RulesEngine"}
AfterNarrator == AfterRules \ {"AgentNarrator"}

\* What is there when execution e is in a given state.
Present(e) ==
    /\ state[e] \in WithRows /\ step[e] # 0 => rows[e] # Nil
    /\ state[e] = "ExtractUar" /\ step[e] = 2 => csvObj[RunOf[e]] # Nil
    /\ state[e] \in AfterExtract =>
          csvObj[RunOf[e]] # Nil /\ manifestObj[RunOf[e]] # Nil
    /\ state[e] = "ValidateAndHash" /\ step[e] = 2 => manifest[e] # Nil
    /\ state[e] \in AfterValidate => manifest[e] # Nil /\ validatedObj[RunOf[e]] # Nil
    /\ state[e] \in AfterRules => ruled[e] # Nil /\ findingsObj[RunOf[e]] # Nil
    /\ state[e] \in AfterNarrator => narrativeObj[RunOf[e]] # Nil
    /\ state[e] \in {"AdversarialProbe", "Publish", "GeneratePdf"} => judge[e] # Nil
    /\ state[e] \in ({"NotStarted"} \cup AfterRules) \ {"Publish"} => step[e] = 0
    /\ state[e] = "Publish" /\ step[e] = 1 => HasRead(e, "publish")

AllPresent == \A e \in Exec : Present(e)
TypeInv == TypeOK /\ AllPresent

LEMMA InitTypeInv == Init => TypeInv
  <1> SUFFICES ASSUME Init PROVE TypeInv
    OBVIOUS
  <1>1. TypeOK
    BY PipelineAssumption DEF Init, TypeOK, StateName, ReadsType, NothingRead
  <1>2. AllPresent
    BY DEF Init, AllPresent, Present, WithRows, AfterExtract, AfterValidate,
           AfterRules, AfterNarrator, Task
  <1> QED BY <1>1, <1>2 DEF TypeInv

\* A step of one execution leaves the others as they are, and no object goes.
Keeps(d) ==
    /\ state'[d] = state[d] /\ step'[d] = step[d]
    /\ rows'[d] = rows[d] /\ reads'[d] = reads[d]
    /\ manifest'[d] = manifest[d] /\ ruled'[d] = ruled[d] /\ judge'[d] = judge[d]

Stays(obj) == \A r \in Run : obj[r] # Nil => obj'[r] # Nil
ObjectsStay ==
    /\ Stays(csvObj) /\ Stays(manifestObj) /\ Stays(validatedObj)
    /\ Stays(findingsObj) /\ Stays(narrativeObj)

\* Every way a task ends leaves its execution in a state, with retries to spare.
LEMMA FinishType ==
    ASSUME TypeOK, NEW e \in Exec, NEW next \in StateName, Finish(e, next)
    PROVE  state' \in [Exec -> StateName] /\ retries' \in [Exec -> 0..MaxAttempts]
  <1> USE PipelineAssumption DEF TypeOK
  <1>1. CASE Goto(e, next)
    BY <1>1 DEF Goto
  <1>2. CASE Repeat(e)
    BY <1>2 DEF Repeat
  <1>3. CASE Fail(e)
    BY <1>3 DEF Fail, Goto, StateName, Ended
  <1> QED BY <1>1, <1>2, <1>3 DEF Finish

LEMMA NotRunType == NotRun \in Score
  BY DEF NotRun, Score, Percent

LEMMA KeptIsPresent ==
    ASSUME NEW d \in Exec, Present(d), Keeps(d), ObjectsStay
    PROVE  Present(d)'
  BY PipelineAssumption DEF Present, Keeps, ObjectsStay, Stays, HasRead

LEMMA OthersPresent ==
    ASSUME AllPresent, NEW e \in Exec, Present(e)', ObjectsStay,
           \A d \in Exec \ {e} : Keeps(d)
    PROVE  AllPresent'
  BY KeptIsPresent DEF AllPresent

\* ExtractUar.
LEMMA ExtractTypeInv ==
    ASSUME TypeInv, NEW e \in Exec,
           ReadServers(e) \/ PutCsv(e) \/ PutManifest(e)
    PROVE  TypeInv' /\ ObjectsStay
  <1> USE PipelineAssumption, NilAssumption
      DEF TypeInv, Goto, Finish, Repeat, Fail, Forget, sfn, local, s3, ddb, StateName,
          Task, Ended, Retried
  <1>a. Present(e)
    BY DEF AllPresent
  <1>1. CASE ReadServers(e)
    <2>1. TypeOK'
      BY <1>1 DEF TypeOK, ReadServers
    <2>2. Present(e)'
      BY <1>1, <1>a DEF TypeOK, ReadServers, Present, HasRead,
             WithRows, AfterExtract, AfterValidate,
             AfterRules, AfterNarrator
    <2>3. ObjectsStay /\ \A other \in Exec \ {e} : Keeps(other)
      BY <1>1 DEF TypeOK, ReadServers, ObjectsStay, Stays, Keeps
    <2> QED BY <2>1, <2>2, <2>3, OthersPresent
  <1>2. CASE PutCsv(e)
    <2>1. rows[e] \in Snapshot
      BY <1>2, <1>a DEF TypeOK, PutCsv, Present, WithRows
    <2>2. TypeOK'
      BY <1>2, <2>1 DEF TypeOK, PutCsv
    <2>3. Present(e)'
      BY <1>2, <2>1, <1>a DEF TypeOK, PutCsv, Present, HasRead,
             WithRows, AfterExtract, AfterValidate,
             AfterRules, AfterNarrator
    <2>4. ObjectsStay /\ \A other \in Exec \ {e} : Keeps(other)
      BY <1>2, <2>1 DEF TypeOK, PutCsv, ObjectsStay, Stays, Keeps
    <2> QED BY <2>2, <2>3, <2>4, OthersPresent
  <1>3. CASE PutManifest(e)
    <2>1. rows[e] \in Snapshot
      BY <1>3, <1>a DEF TypeOK, PutManifest, Present, WithRows
    <2>2. HashOf[rows[e]] \in Hash
      BY <2>1
    <2>3. state' \in [Exec -> StateName] /\ retries' \in [Exec -> 0..MaxAttempts]
      BY <1>3, FinishType DEF PutManifest
    <2>4. TypeOK'
      BY <1>3, <2>1, <2>2, <2>3 DEF TypeOK, PutManifest
    <2>5. Present(e)'
      BY <1>3, <2>1, <2>2, <2>3, <1>a DEF TypeOK, PutManifest, Present, HasRead,
             WithRows, AfterExtract, AfterValidate,
             AfterRules, AfterNarrator
    <2>6. ObjectsStay /\ \A other \in Exec \ {e} : Keeps(other)
      BY <1>3, <2>1, <2>2, <2>3 DEF TypeOK, PutManifest, ObjectsStay, Stays, Keeps
    <2> QED BY <2>4, <2>5, <2>6, OthersPresent
  <1> QED BY <1>1, <1>2, <1>3

\* ValidateAndHash.
LEMMA ValidateTypeInv ==
    ASSUME TypeInv, NEW e \in Exec,
           ReadCsv(e) \/ ReadManifest(e) \/ RejectManifest(e) \/ PutValidated(e)
    PROVE  TypeInv' /\ ObjectsStay
  <1> USE PipelineAssumption, NilAssumption
      DEF TypeInv, Goto, Finish, Repeat, Fail, Forget, sfn, local, s3, ddb, StateName,
          Task, Ended, Retried
  <1>a. Present(e)
    BY DEF AllPresent
  <1>1. CASE ReadCsv(e)
    <2>1. csvObj[RunOf[e]] \in Snapshot
      BY <1>1, <1>a DEF TypeOK, ReadCsv, Present, AfterExtract
    <2>2. TypeOK'
      BY <1>1, <2>1 DEF TypeOK, ReadCsv
    <2>3. Present(e)'
      BY <1>1, <2>1, <1>a DEF TypeOK, ReadCsv, Present, HasRead,
             WithRows, AfterExtract, AfterValidate,
             AfterRules, AfterNarrator
    <2>4. ObjectsStay /\ \A other \in Exec \ {e} : Keeps(other)
      BY <1>1, <2>1 DEF TypeOK, ReadCsv, ObjectsStay, Stays, Keeps
    <2> QED BY <2>2, <2>3, <2>4, OthersPresent
  <1>2. CASE ReadManifest(e)
    <2>1. manifestObj[RunOf[e]] \in Hash
      BY <1>2, <1>a DEF TypeOK, ReadManifest, Present, AfterExtract
    <2>2. TypeOK'
      BY <1>2, <2>1 DEF TypeOK, ReadManifest
    <2>3. Present(e)'
      BY <1>2, <2>1, <1>a DEF TypeOK, ReadManifest, Present, HasRead,
             WithRows, AfterExtract, AfterValidate,
             AfterRules, AfterNarrator
    <2>4. ObjectsStay /\ \A other \in Exec \ {e} : Keeps(other)
      BY <1>2, <2>1 DEF TypeOK, ReadManifest, ObjectsStay, Stays, Keeps
    <2> QED BY <2>2, <2>3, <2>4, OthersPresent
  <1>3. CASE RejectManifest(e)
    <2>1. TypeOK'
      BY <1>3 DEF TypeOK, RejectManifest
    <2>2. Present(e)'
      BY <1>3, <1>a DEF TypeOK, RejectManifest, Present, HasRead,
             WithRows, AfterExtract, AfterValidate,
             AfterRules, AfterNarrator
    <2>3. ObjectsStay /\ \A other \in Exec \ {e} : Keeps(other)
      BY <1>3 DEF TypeOK, RejectManifest, ObjectsStay, Stays, Keeps
    <2> QED BY <2>1, <2>2, <2>3, OthersPresent
  <1>4. CASE PutValidated(e)
    <2>1. rows[e] \in Snapshot
      BY <1>4, <1>a DEF TypeOK, PutValidated, Present, WithRows
    <2>2. state' \in [Exec -> StateName] /\ retries' \in [Exec -> 0..MaxAttempts]
      BY <1>4, FinishType DEF PutValidated
    <2>3. TypeOK'
      BY <1>4, <2>1, <2>2 DEF TypeOK, PutValidated
    <2>4. Present(e)'
      BY <1>4, <2>1, <2>2, <1>a DEF TypeOK, PutValidated, Present, HasRead,
             WithRows, AfterExtract, AfterValidate,
             AfterRules, AfterNarrator
    <2>5. ObjectsStay /\ \A other \in Exec \ {e} : Keeps(other)
      BY <1>4, <2>1, <2>2 DEF TypeOK, PutValidated, ObjectsStay, Stays, Keeps
    <2> QED BY <2>3, <2>4, <2>5, OthersPresent
  <1> QED BY <1>1, <1>2, <1>3, <1>4

\* RulesEngine.
LEMMA RulesTypeInv ==
    ASSUME TypeInv, NEW e \in Exec,
           ReadValidated(e) \/ PutFindings(e)
    PROVE  TypeInv' /\ ObjectsStay
  <1> USE PipelineAssumption, NilAssumption
      DEF TypeInv, Goto, Finish, Repeat, Fail, Forget, sfn, local, s3, ddb, StateName,
          Task, Ended, Retried
  <1>a. Present(e)
    BY DEF AllPresent
  <1>1. CASE ReadValidated(e)
    <2>1. validatedObj[RunOf[e]] \in Snapshot
      BY <1>1, <1>a DEF TypeOK, ReadValidated, Present, AfterExtract,
             AfterValidate
    <2>2. TypeOK'
      BY <1>1, <2>1 DEF TypeOK, ReadValidated
    <2>3. Present(e)'
      BY <1>1, <2>1, <1>a DEF TypeOK, ReadValidated, Present, HasRead,
             WithRows, AfterExtract, AfterValidate,
             AfterRules, AfterNarrator
    <2>4. ObjectsStay /\ \A other \in Exec \ {e} : Keeps(other)
      BY <1>1, <2>1 DEF TypeOK, ReadValidated, ObjectsStay, Stays, Keeps
    <2> QED BY <2>2, <2>3, <2>4, OthersPresent
  <1>2. CASE PutFindings(e)
    <2>1. rows[e] \in Snapshot
      BY <1>2, <1>a DEF TypeOK, PutFindings, Present, WithRows
    <2>2. Evaluate[rows[e]] \subseteq Findings
      BY <2>1
    <2>3. state' \in [Exec -> StateName] /\ retries' \in [Exec -> 0..MaxAttempts]
      BY <1>2, FinishType DEF PutFindings
    <2>4. TypeOK'
      BY <1>2, <2>1, <2>2, <2>3 DEF TypeOK, PutFindings
    <2>5. Present(e)'
      BY <1>2, <2>1, <2>2, <2>3, <1>a DEF TypeOK, PutFindings, Present, HasRead,
             WithRows, AfterExtract, AfterValidate,
             AfterRules, AfterNarrator
    <2>6. ObjectsStay /\ \A other \in Exec \ {e} : Keeps(other)
      BY <1>2, <2>1, <2>2, <2>3 DEF TypeOK, PutFindings, ObjectsStay, Stays, Keeps
    <2> QED BY <2>4, <2>5, <2>6, OthersPresent
  <1> QED BY <1>1, <1>2

\* AgentNarrator.
LEMMA NarratorTypeInv ==
    ASSUME TypeInv, NEW e \in Exec,
           GetFinding(e) \/ PutNarrative(e)
    PROVE  TypeInv' /\ ObjectsStay
  <1> USE PipelineAssumption, NilAssumption
      DEF TypeInv, Goto, Finish, Repeat, Fail, Forget, sfn, local, s3, ddb, StateName,
          Task, Ended, Retried
  <1>a. Present(e)
    BY DEF AllPresent
  <1>1. CASE GetFinding(e)
    <2>1. ruled[e] \in Findings
      BY <1>1, <1>a DEF TypeOK, GetFinding, Present, AfterExtract,
             AfterValidate, AfterRules
    <2>2. \E id \in Ids(ruled[e]) : reply' = [reply EXCEPT ![e] =
            [id |-> id, items |-> {i \in items[RunOf[e]] : i.id = id}]]
      BY <1>1 DEF GetFinding
    <2>3. reply' \in [Exec -> Reply \cup {Nil}]
      BY <2>1, <2>2, IdsType DEF TypeOK, Reply
    <2>4. TypeOK'
      BY <1>1, <2>1, <2>2, <2>3 DEF TypeOK, GetFinding
    <2>5. Present(e)'
      BY <1>1, <2>1, <2>2, <2>3, <1>a DEF TypeOK, GetFinding, Present, HasRead,
             WithRows, AfterExtract, AfterValidate,
             AfterRules, AfterNarrator
    <2>6. ObjectsStay /\ \A other \in Exec \ {e} : Keeps(other)
      BY <1>1, <2>1, <2>2, <2>3 DEF TypeOK, GetFinding, ObjectsStay, Stays, Keeps
    <2> QED BY <2>4, <2>5, <2>6, OthersPresent
  <1>2. CASE PutNarrative(e)
    <2>1. PICK d \in Draft, consistent \in BOOLEAN : narrativeObj' =
            [narrativeObj EXCEPT ![RunOf[e]] =
              IF HasCritical(ruled[e]) THEN [d EXCEPT !.consistent = consistent]
                                       ELSE d]
      BY <1>2 DEF PutNarrative
    <2>2. narrativeObj'[RunOf[e]] \in Narrative
      BY <2>1, NarrativeFlag DEF TypeOK
    <2>3. narrativeObj' \in [Run -> Narrative \cup {Nil}]
      BY <2>1, <2>2 DEF TypeOK
    <2>4. Stays(narrativeObj)
      BY <2>1, <2>2 DEF TypeOK, Stays
    <2>5. state' \in [Exec -> StateName] /\ retries' \in [Exec -> 0..MaxAttempts]
      BY <1>2, FinishType DEF PutNarrative
    <2>6. TypeOK'
      BY <1>2, <2>1, <2>2, <2>3, <2>4, <2>5 DEF TypeOK, PutNarrative
    <2>a. /\ state[e] = "AgentNarrator"
          /\ state'[e] \in {"AgentNarrator", "GatesParallel", "FAILED"}
      BY <1>2, <2>5 DEF TypeOK, PutNarrative
    <2>b. step'[e] = 0
      BY <1>2 DEF TypeOK, PutNarrative
    <2>c. /\ csvObj[RunOf[e]] # Nil /\ manifestObj[RunOf[e]] # Nil
          /\ manifest[e] # Nil /\ validatedObj[RunOf[e]] # Nil
          /\ ruled[e] # Nil /\ findingsObj[RunOf[e]] # Nil
      BY <1>a, <2>a DEF Present, AfterExtract, AfterValidate, AfterRules
    <2>d. UNCHANGED <<sfn, csvObj, manifestObj, validatedObj, findingsObj>>
      BY <1>2 DEF PutNarrative
    <2>e. narrativeObj'[RunOf[e]] # Nil
      BY <2>2
    <2>7. Present(e)'
      BY <2>a, <2>b, <2>c, <2>d, <2>e DEF Present, HasRead, WithRows, AfterExtract,
             AfterValidate, AfterRules, AfterNarrator
    <2>8. ObjectsStay /\ \A other \in Exec \ {e} : Keeps(other)
      BY <1>2, <2>1, <2>2, <2>3, <2>4, <2>5 DEF TypeOK, PutNarrative, ObjectsStay, Stays, Keeps
    <2> QED BY <2>6, <2>7, <2>8, OthersPresent
  <1> QED BY <1>1, <1>2

\* MergeGates, Judge, AdversarialProbe, MarkQuarantined.
LEMMA VerdictTypeInv ==
    ASSUME TypeInv, NEW e \in Exec,
           MergeGates(e) \/ JudgeNarrative(e) \/ ProbeNarrative(e) \/ MarkQuarantined(e)
    PROVE  TypeInv' /\ ObjectsStay
  <1> USE PipelineAssumption, NilAssumption
      DEF TypeInv, Goto, Finish, Repeat, Fail, Forget, sfn, local, s3, ddb, StateName,
          Task, Ended, Retried
  <1>a. Present(e)
    BY DEF AllPresent
  <1>1. CASE MergeGates(e)
    <2>1. TypeOK'
      BY <1>1 DEF TypeOK, MergeGates
    <2>2. Present(e)'
      BY <1>1, <1>a DEF TypeOK, MergeGates, Present, HasRead,
             WithRows, AfterExtract, AfterValidate,
             AfterRules, AfterNarrator
    <2>3. ObjectsStay /\ \A other \in Exec \ {e} : Keeps(other)
      BY <1>1 DEF TypeOK, MergeGates, ObjectsStay, Stays, Keeps
    <2> QED BY <2>1, <2>2, <2>3, OthersPresent
  <1>2. CASE JudgeNarrative(e)
    <2>1. TypeOK'
      BY <1>2 DEF TypeOK, JudgeNarrative
    <2>2. Present(e)'
      BY <1>2, <1>a DEF TypeOK, JudgeNarrative, Present, HasRead,
             WithRows, AfterExtract, AfterValidate,
             AfterRules, AfterNarrator
    <2>3. ObjectsStay /\ \A other \in Exec \ {e} : Keeps(other)
      BY <1>2 DEF TypeOK, JudgeNarrative, ObjectsStay, Stays, Keeps
    <2> QED BY <2>1, <2>2, <2>3, OthersPresent
  <1>3. CASE ProbeNarrative(e)
    <2>1. TypeOK'
      BY <1>3 DEF TypeOK, ProbeNarrative
    <2>2. Present(e)'
      BY <1>3, <1>a DEF TypeOK, ProbeNarrative, Present, HasRead,
             WithRows, AfterExtract, AfterValidate,
             AfterRules, AfterNarrator
    <2>3. ObjectsStay /\ \A other \in Exec \ {e} : Keeps(other)
      BY <1>3 DEF TypeOK, ProbeNarrative, ObjectsStay, Stays, Keeps
    <2> QED BY <2>1, <2>2, <2>3, OthersPresent
  <1>4. CASE MarkQuarantined(e)
    <2>1. TypeOK'
      BY <1>4, NotRunType DEF TypeOK, MarkQuarantined
    <2>2. Present(e)'
      BY <1>4, NotRunType, <1>a DEF TypeOK, MarkQuarantined, Present, HasRead,
             WithRows, AfterExtract, AfterValidate,
             AfterRules, AfterNarrator
    <2>3. ObjectsStay /\ \A other \in Exec \ {e} : Keeps(other)
      BY <1>4 DEF TypeOK, MarkQuarantined, ObjectsStay, Stays, Keeps
    <2> QED BY <2>1, <2>2, <2>3, OthersPresent
  <1> QED BY <1>1, <1>2, <1>3, <1>4

\* The two reads of the later handlers.
LEMMA ReadTypeInv ==
    ASSUME TypeInv, NEW e \in Exec, NEW k \in Reader,
           ReadFindings(e, k) \/ ReadNarrative(e, k)
    PROVE  TypeInv' /\ ObjectsStay
  <1> USE PipelineAssumption, NilAssumption DEF TypeInv, local, s3, ddb
  <1>a. reads \in [Exec -> [Reader -> ReadsType]]
    BY DEF TypeOK
  <1>b. PICK read \in ReadsType :
           reads' = [reads EXCEPT ![e] = [reads[e] EXCEPT ![k] = read]]
    <2> DEFINE fs == [reads[e][k] EXCEPT !.findings = findingsObj[RunOf[e]]]
               n == [reads[e][k] EXCEPT !.narrative = narrativeObj[RunOf[e]]]
    <2>1. fs \in ReadsType /\ n \in ReadsType
      <3>1. /\ findingsObj[RunOf[e]] \in Findings \cup {Nil}
            /\ narrativeObj[RunOf[e]] \in Narrative \cup {Nil}
        BY DEF TypeOK
      <3> QED BY <1>a, <3>1 DEF ReadsType
    <2>2. CASE ReadFindings(e, k)
      <3>1. reads' = [reads EXCEPT ![e] = [reads[e] EXCEPT ![k] = fs]]
        BY <2>2, <1>a DEF ReadFindings
      <3> QED BY <2>1, <3>1
    <2>3. CASE ReadNarrative(e, k)
      <3>1. reads' = [reads EXCEPT ![e] = [reads[e] EXCEPT ![k] = n]]
        BY <2>3, <1>a DEF ReadNarrative
      <3> QED BY <2>1, <3>1
    <2> QED BY <2>2, <2>3
  <1>1. reads' \in [Exec -> [Reader -> ReadsType]]
    <2>1. [reads[e] EXCEPT ![k] = read] \in [Reader -> ReadsType]
      BY <1>a, <1>b
    <2> QED BY <1>a, <1>b, <2>1
  <1>2. UNCHANGED <<state, retries, sfn, step, rows, reply, put, s3, ddb>>
    BY DEF ReadFindings, ReadNarrative
  <1>3. TypeOK'
    BY <1>1, <1>2 DEF TypeOK, sfn
  <1>4. ASSUME HasRead(e, "publish")
        PROVE  reads'[e]["publish"] = reads[e]["publish"]
    <2>1. k # "publish"
      BY <1>4 DEF ReadFindings, ReadNarrative, HasRead
    <2>2. "publish" \in Reader
      BY DEF Reader
    <2> QED BY <2>1, <2>2, <1>a, <1>b
  <1>5. Present(e)'
    BY <1>2, <1>4 DEF AllPresent, Present, HasRead, sfn
  <1>6. ObjectsStay /\ \A other \in Exec \ {e} : Keeps(other)
    <2>1. \A d \in Exec \ {e} : reads'[d] = reads[d]
      BY DEF ReadFindings, ReadNarrative, TypeOK
    <2> QED BY <1>2, <2>1 DEF ObjectsStay, Stays, Keeps, sfn
  <1> QED BY <1>3, <1>5, <1>6, OthersPresent

\* The verdicts of the gates are truth values.
LEMMA VerdictType ==
    ASSUME NEW g, NEW fs, NEW n
    PROVE  GatePasses(g, fs, n) \in BOOLEAN
  BY DEF GatePasses

\* Publish and GeneratePdf.
LEMMA PublishTypeInv ==
    ASSUME TypeInv, NEW e \in Exec,
           PutRun(e) \/ PutSomeItem(e) \/ EndPublish(e) \/ PutReport(e)
    PROVE  TypeInv' /\ ObjectsStay
  <1> USE PipelineAssumption, NilAssumption
      DEF TypeInv, Goto, Finish, Repeat, Fail, Forget, sfn, local, s3, ddb, StateName,
          Task, Ended, Retried
  <1>a. Present(e)
    BY DEF AllPresent
  <1>1. CASE PutRun(e)
    <2>1. /\ manifest[e] \in Hash
          /\ judge[e] \in Score
          /\ reads[e]["publish"].findings \in Findings
      BY <1>1, <1>a DEF TypeOK, ReadsType, Reader, PutRun, Present, HasRead,
             AfterExtract, AfterValidate
    <2>2. Count(reads[e]["publish"].findings) \in Nat
      BY <2>1, CountType
    <2>3. \A g \in Gate : GateVerdict(e, g) \in BOOLEAN
      BY VerdictType DEF GateVerdict
    <2>4. runRow' \in [Run -> RunRow \cup {Nil}]
      BY <1>1, <2>1, <2>2, <2>3 DEF TypeOK, PutRun, RunRow
    <2>5. TypeOK'
      BY <1>1, <2>1, <2>2, <2>3, <2>4 DEF TypeOK, PutRun
    <2>6. Present(e)'
      BY <1>1, <2>1, <2>2, <2>3, <2>4, <1>a DEF TypeOK, PutRun, Present, HasRead,
             WithRows, AfterExtract, AfterValidate,
             AfterRules, AfterNarrator
    <2>7. ObjectsStay /\ \A other \in Exec \ {e} : Keeps(other)
      BY <1>1, <2>1, <2>2, <2>3, <2>4 DEF TypeOK, PutRun, ObjectsStay, Stays, Keeps
    <2> QED BY <2>5, <2>6, <2>7, OthersPresent
  <1>2. CASE PutSomeItem(e)
    <2>1. PICK id \in Ids(reads[e]["publish"].findings) : PutItem(e, id)
      BY <1>2 DEF PutSomeItem
    <2>2. /\ reads[e]["publish"].findings \in Findings
          /\ reads[e]["publish"].narrative \in Narrative
      BY <1>2, <1>a DEF TypeOK, ReadsType, Reader, PutSomeItem, Present, HasRead
    <2>3. id \in FindingId /\ BodyOf(reads[e]["publish"].findings, id) \in Body
      BY <2>2, IdsType, BodyOfType
    <2>4. NewItem(e, id) \in Item
      BY <2>3 DEF NewItem, Item
    <2>5. items' \in [Run -> SUBSET Item] /\ put' \in [Exec -> SUBSET FindingId]
      BY <2>1, <2>3, <2>4 DEF TypeOK, PutItem
    <2>6. TypeOK'
      BY <1>2, <2>1, <2>2, <2>3, <2>4, <2>5 DEF TypeOK, PutSomeItem, PutItem
    <2>7. Present(e)'
      BY <1>2, <2>1, <2>2, <2>3, <2>4, <2>5, <1>a DEF TypeOK, PutSomeItem, PutItem, Present, HasRead,
             WithRows, AfterExtract, AfterValidate,
             AfterRules, AfterNarrator
    <2>8. ObjectsStay /\ \A other \in Exec \ {e} : Keeps(other)
      BY <1>2, <2>1, <2>2, <2>3, <2>4, <2>5 DEF TypeOK, PutSomeItem, PutItem, ObjectsStay, Stays, Keeps
    <2> QED BY <2>6, <2>7, <2>8, OthersPresent
  <1>3. CASE EndPublish(e)
    <2>0. /\ state' \in [Exec -> StateName]
          /\ retries' \in [Exec -> 0..MaxAttempts]
      <3> DEFINE next == IF RunOf[e] \in Monthly THEN "GeneratePdf" ELSE "Succeed"
      <3>1. next \in StateName /\ Finish(e, next)
        BY <1>3 DEF EndPublish
      <3> HIDE DEF next
      <3> QED BY <3>1, FinishType
    <2>1. TypeOK'
      BY <1>3, <2>0 DEF TypeOK, EndPublish
    <2>2. Present(e)'
      BY <1>3, <1>a DEF TypeOK, EndPublish, Present, HasRead,
             WithRows, AfterExtract, AfterValidate,
             AfterRules, AfterNarrator
    <2>3. ObjectsStay /\ \A other \in Exec \ {e} : Keeps(other)
      BY <1>3 DEF TypeOK, EndPublish, ObjectsStay, Stays, Keeps
    <2> QED BY <2>1, <2>2, <2>3, OthersPresent
  <1>4. CASE PutReport(e)
    <2>1. /\ manifest[e] \in Hash
          /\ reads[e]["pdf"].findings \in Findings
          /\ reads[e]["pdf"].narrative \in Narrative
      BY <1>4, <1>a DEF TypeOK, ReadsType, Reader, PutReport, Present, HasRead,
             AfterExtract, AfterValidate
    <2>2. reportObj' \in [Run -> Report \cup {Nil}]
      BY <1>4, <2>1 DEF TypeOK, PutReport, Report
    <2>3. TypeOK'
      <3>1. /\ state' \in [Exec -> StateName]
            /\ retries' \in [Exec -> 0..MaxAttempts]
        BY <1>4, FinishType DEF PutReport
      <3> QED BY <1>4, <2>1, <2>2, <3>1 DEF TypeOK, PutReport
    <2>4. Present(e)'
      BY <1>4, <2>1, <2>2, <1>a DEF TypeOK, PutReport, Present, HasRead,
             WithRows, AfterExtract, AfterValidate,
             AfterRules, AfterNarrator
    <2>5. ObjectsStay /\ \A other \in Exec \ {e} : Keeps(other)
      BY <1>4, <2>1, <2>2 DEF TypeOK, PutReport, ObjectsStay, Stays, Keeps
    <2> QED BY <2>3, <2>4, <2>5, OthersPresent
  <1> QED BY <1>1, <1>2, <1>3, <1>4

\* An execution starts; a handler is interrupted.
LEMMA StartTypeInv ==
    ASSUME TypeInv, NEW e \in Exec,
           Start(e) \/ Interrupt(e)
    PROVE  TypeInv' /\ ObjectsStay
  <1> USE PipelineAssumption, NilAssumption
      DEF TypeInv, Goto, Finish, Repeat, Fail, Forget, sfn, local, s3, ddb, StateName,
          Task, Ended, Retried
  <1>a. Present(e)
    BY DEF AllPresent
  <1>1. CASE Start(e)
    <2>1. TypeOK'
      BY <1>1 DEF TypeOK, Start
    <2>2. Present(e)'
      BY <1>1, <1>a DEF TypeOK, Start, Present, HasRead,
             WithRows, AfterExtract, AfterValidate,
             AfterRules, AfterNarrator
    <2>3. ObjectsStay /\ \A other \in Exec \ {e} : Keeps(other)
      BY <1>1 DEF TypeOK, Start, ObjectsStay, Stays, Keeps
    <2> QED BY <2>1, <2>2, <2>3, OthersPresent
  <1>2. CASE Interrupt(e)
    <2>1. reads' \in [Exec -> [Reader -> ReadsType]]
      BY <1>2 DEF TypeOK, Interrupt, NothingRead, ReadsType
    <2>2. TypeOK'
      <3>1. /\ state' \in [Exec -> StateName]
            /\ retries' \in [Exec -> 0..MaxAttempts]
        BY <1>2, FinishType DEF Interrupt
      <3>2. /\ step' \in [Exec -> 0..2]
            /\ rows' \in [Exec -> Snapshot \cup {Nil}]
            /\ reply' \in [Exec -> Reply \cup {Nil}]
            /\ put' \in [Exec -> SUBSET FindingId]
        <4>1. \/ /\ step' = [step EXCEPT ![e] = 0]
                 /\ rows' = [rows EXCEPT ![e] = Nil]
                 /\ reply' = [reply EXCEPT ![e] = Nil]
                 /\ put' = [put EXCEPT ![e] = {}]
              \/ UNCHANGED local
          BY <1>2 DEF Interrupt
        <4>2. /\ step \in [Exec -> 0..2]
              /\ rows \in [Exec -> Snapshot \cup {Nil}]
              /\ reply \in [Exec -> Reply \cup {Nil}]
              /\ put \in [Exec -> SUBSET FindingId]
          BY DEF TypeOK
        <4> QED BY <4>1, <4>2
      <3>3. UNCHANGED <<sfn, s3, ddb>>
        BY <1>2 DEF Interrupt
      <3> QED BY <2>1, <3>1, <3>2, <3>3 DEF TypeOK
    <2>3. Present(e)'
      BY <1>2, <2>1, <1>a DEF TypeOK, Interrupt, Present, HasRead,
             WithRows, AfterExtract, AfterValidate,
             AfterRules, AfterNarrator
    <2>4. ObjectsStay /\ \A other \in Exec \ {e} : Keeps(other)
      BY <1>2, <2>1 DEF TypeOK, Interrupt, ObjectsStay, Stays, Keeps
    <2> QED BY <2>2, <2>3, <2>4, OthersPresent
  <1> QED BY <1>1, <1>2

LEMMA ReviewTypeInv ==
    ASSUME TypeInv, NEW r \in Run, Review(r)
    PROVE  TypeInv' /\ ObjectsStay
  <1> USE DEF TypeInv, Review, sfn, local, s3
  <1>1. PICK i \in items[r], d \in Decision :
           items' = [items EXCEPT ![r] = (@ \ {i}) \cup {[i EXCEPT !.decision = d]}]
    OBVIOUS
  <1>2. items \in [Run -> SUBSET Item] /\ [i EXCEPT !.decision = d] \in Item
    <2>1. items \in [Run -> SUBSET Item]
      BY DEF TypeOK
    <2>2. i \in Item
      BY <2>1, <1>1
    <2> QED BY <2>1, <2>2 DEF Item
  <1>3. TypeOK'
    BY <1>1, <1>2 DEF TypeOK
  <1>4. AllPresent' /\ ObjectsStay
    BY DEF AllPresent, Present, HasRead, ObjectsStay, Stays
  <1> QED BY <1>3, <1>4

LEMMA NextTypeInv == TypeInv /\ [Next]_vars => (TypeInv' /\ ObjectsStay)
  <1> SUFFICES ASSUME TypeInv, [Next]_vars PROVE (TypeInv' /\ ObjectsStay)
    OBVIOUS
  <1>1. ASSUME NEW e \in Exec, Step(e) PROVE (TypeInv' /\ ObjectsStay)
    <2>1. ASSUME NEW k \in Reader, ReadFindings(e, k) \/ ReadNarrative(e, k)
          PROVE  (TypeInv' /\ ObjectsStay)
      BY <2>1, ReadTypeInv
    <2> QED BY <1>1, <2>1, StartTypeInv, ExtractTypeInv, ValidateTypeInv,
               RulesTypeInv, NarratorTypeInv, VerdictTypeInv, PublishTypeInv
            DEF Step, Progress
  <1>2. ASSUME NEW r \in Run, Review(r) PROVE (TypeInv' /\ ObjectsStay)
    BY <1>2, ReviewTypeInv
  <1>3. CASE UNCHANGED vars
    BY <1>3 DEF vars, sfn, local, s3, ddb, TypeInv, TypeOK, AllPresent, Present,
                HasRead, ObjectsStay, Stays
  <1> QED BY <1>1, <1>2, <1>3 DEF Next

\* Every variable always has its type, however executions share run ids, fail
\* and are repeated: no handler works on an object that is not there.
THEOREM TypeCorrect == Spec => []TypeOK
  <1>1. TypeInv => TypeOK
    BY DEF TypeInv
  <1> QED BY <1>1, InitTypeInv, NextTypeInv, PTL DEF Spec

-----------------------------------------------------------------------------
(* What a run is worth.  ChecksInv follows one execution: what it has seen *)
(* pass by the state it is in.  ReadsInv says that what an execution has   *)
(* read is still what S3 holds.                                            *)

GatesPassed(e) == \A g \in Gate : HasRead(e, g) /\ GateVerdict(e, g)
JudgePassed(e) == HasRead(e, "judge") /\ JudgePasses(judge[e])
ProbePassed(e) == HasRead(e, "probe") /\ ProbePasses(probe[e])
AllPassed(e) == GatesPassed(e) /\ JudgePassed(e) /\ ProbePassed(e)

\* What execution e has seen pass.  In Publish the score tells: a quarantined
\* execution has the one of MarkQuarantined.
Seen(e) ==
    /\ state[e] \in {"Judge", "AdversarialProbe"} => GatesPassed(e)
    /\ state[e] = "AdversarialProbe" => JudgePassed(e)
    /\ state[e] = "Publish" /\ JudgePasses(judge[e]) => AllPassed(e)
    /\ state[e] = "Publish" /\ step[e] = 1 => runRow[RunOf[e]] # Nil

\* An execution that has put its row is done with its checks.
Published(e) ==
    \/ state[e] = "Publish" /\ step[e] = 1
    \/ state[e] \in {"GeneratePdf", "Succeed", "FAILED"}

\* What is known of the row of run r, and of the execution that put it.
Row(r) ==
    /\ items[r] # {} => runRow[r] # Nil
    /\ runRow[r] # Nil =>
          /\ findingsObj[r] # Nil /\ narrativeObj[r] # Nil
          /\ RunOf[runRow[r].by] = r
          /\ Published(runRow[r].by)
          /\ runRow[r].judge = judge[runRow[r].by]
          /\ HasRead(runRow[r].by, "publish")
    /\ Succeeded(r) => AllPassed(runRow[r].by)

ChecksInv == (\A e \in Exec : Seen(e)) /\ (\A r \in Run : Row(r))

\* What execution e has read is what S3 holds under its run id.
BeforeGates == {"NotStarted", "ExtractUar", "ValidateAndHash", "RulesEngine",
                "AgentNarrator"}
ReadsCurrent(e) ==
    \A k \in Reader :
        /\ reads[e][k].findings \in {Nil, findingsObj[RunOf[e]]}
        /\ reads[e][k].narrative \in {Nil, narrativeObj[RunOf[e]]}
        /\ state[e] \in BeforeGates => reads[e][k] = NothingRead

ReadsInv == \A e \in Exec : ReadsCurrent(e)

-----------------------------------------------------------------------------
(* ChecksInv is inductive                                                  *)

Same(d) ==
    /\ state'[d] = state[d] /\ step'[d] = step[d] /\ reads'[d] = reads[d]
    /\ judge'[d] = judge[d] /\ probe'[d] = probe[d]

\* The reads that a step may change are those of the handlers now running.
KeepsReads(e, K) == \A k \in Reader \ K : reads'[e][k] = reads[e][k]

\* A step of e that puts no row, and that takes nothing back from a row of e.
Frame(e) ==
    /\ \A d \in Exec \ {e} : Same(d)
    /\ runRow' = runRow
    /\ \A r \in Run : items'[r] # {} => items[r] # {} \/ runRow[r] # Nil
    /\ Published(e) => /\ Published(e)'
                       /\ judge'[e] = judge[e] /\ probe'[e] = probe[e]
                       /\ KeepsReads(e, {"pdf"})

LEMMA PassedKept ==
    ASSUME NEW d \in Exec, AllPassed(d), HasRead(d, "publish"),
           judge'[d] = judge[d], probe'[d] = probe[d],
           \A k \in Reader \ {"pdf"} : reads'[d][k] = reads[d][k]
    PROVE  AllPassed(d)'
  <1>1. \A k \in Gate \cup {"judge", "probe"} : reads'[d][k] = reads[d][k]
    BY DEF Reader, Gate
  <1> QED BY <1>1 DEF AllPassed, GatesPassed, JudgePassed, ProbePassed, HasRead,
                      GateVerdict

LEMMA FrameKeeps ==
    ASSUME TypeInv, ChecksInv, ObjectsStay, NEW e \in Exec, Frame(e)
    PROVE  (\A d \in Exec \ {e} : Seen(d)') /\ (\A r \in Run : Row(r)')
  <1>1. ASSUME NEW d \in Exec \ {e}
        PROVE  Seen(d)'
    BY <1>1 DEF ChecksInv, Frame, Same, Seen, AllPassed, GatesPassed, JudgePassed,
                ProbePassed, HasRead, GateVerdict
  <1>2. ASSUME NEW r \in Run
        PROVE  Row(r)'
    <2>1. Row(r)
      BY DEF ChecksInv
    <2>2. CASE runRow[r] = Nil
      BY <2>1, <2>2 DEF Row, Frame, Succeeded
    <2>3. CASE runRow[r] # Nil
      <3> DEFINE a == runRow[r].by
      <3>1. a \in Exec
        BY <2>3 DEF TypeInv, TypeOK, RunRow
      <3>2. runRow'[r] = runRow[r] /\ RunOf[a] = r /\ Published(a)
            /\ runRow[r].judge = judge[a] /\ HasRead(a, "publish")
        BY <2>1, <2>3 DEF Row, Frame
      <3>3. /\ Published(a)' /\ judge'[a] = judge[a] /\ probe'[a] = probe[a]
            /\ KeepsReads(a, {"pdf"})
        BY <3>1, <3>2 DEF Frame, Same, Published, KeepsReads
      <3>4. HasRead(a, "publish")'
        BY <3>2, <3>3 DEF KeepsReads, HasRead, Reader
      <3>5. Succeeded(r) => AllPassed(a)'
        BY <2>1, <3>1, <3>2, <3>3, PassedKept DEF Row, KeepsReads
      <3>6. findingsObj'[r] # Nil /\ narrativeObj'[r] # Nil
        BY <2>1, <2>3 DEF Row, ObjectsStay, Stays
      <3> QED BY <2>1, <2>3, <3>2, <3>3, <3>4, <3>5, <3>6 DEF Row, Succeeded
    <2> QED BY <2>2, <2>3
  <1> QED BY <1>1, <1>2

\* The execution stays in its state, and at most its running handlers' reads
\* change.
LEMMA SeenKept ==
    ASSUME NEW e \in Exec, Seen(e), state'[e] = state[e], judge'[e] = judge[e],
           probe'[e] = probe[e], KeepsReads(e, ReadersAt(state[e])),
           state[e] = "Publish" => step'[e] = step[e], Stays(runRow), RunOf[e] \in Run
    PROVE  Seen(e)'
  <1> USE DEF KeepsReads, ReadersAt, Reader, Gate, Seen, AllPassed, GatesPassed,
              JudgePassed, ProbePassed, HasRead, GateVerdict, Stays
  <1>1. CASE state[e] = "Judge"
    BY <1>1
  <1>2. CASE state[e] = "AdversarialProbe"
    BY <1>2
  <1>3. CASE state[e] = "Publish"
    BY <1>3
  <1> QED BY <1>1, <1>2, <1>3

\* The handlers before the gates touch nothing that ChecksInv is about.
Early(e) ==
    \/ Start(e) \/ ReadServers(e) \/ PutCsv(e) \/ PutManifest(e)
    \/ ReadCsv(e) \/ ReadManifest(e) \/ RejectManifest(e) \/ PutValidated(e)
    \/ ReadValidated(e) \/ PutFindings(e) \/ GetFinding(e) \/ PutNarrative(e)

LEMMA EarlyStep ==
    ASSUME TypeInv, NEW e \in Exec, Early(e)
    PROVE  /\ state[e] \in BeforeGates
           /\ UNCHANGED <<reads, judge, probe, runRow, items>>
           /\ \A d \in Exec \ {e} : state'[d] = state[d] /\ step'[d] = step[d]
           /\ state'[e] \in BeforeGates \cup {"GatesParallel", "FAILED"}
  <1>t. /\ state \in [Exec -> StateName] /\ step \in [Exec -> 0..2]
    BY DEF TypeInv, TypeOK
  <1>1. state[e] \in BeforeGates /\ UNCHANGED <<reads, judge, probe, runRow, items>>
    BY DEF Early, BeforeGates, sfn, local, s3, ddb, Forget,
           Start, ReadServers, PutCsv, PutManifest, ReadCsv, ReadManifest,
           RejectManifest, PutValidated, ReadValidated, PutFindings, GetFinding,
           PutNarrative
  <1>2. /\ \A d \in Exec \ {e} : state'[d] = state[d] /\ step'[d] = step[d]
        /\ state'[e] \in BeforeGates \cup {"GatesParallel", "FAILED"}
    <2> USE <1>t DEF Goto, Repeat, Fail, Finish, Forget, sfn, local, s3, ddb, BeforeGates
    <2>1. CASE Start(e)
      BY <2>1 DEF Start
    <2>2. CASE ReadServers(e)
      BY <2>2 DEF ReadServers
    <2>3. CASE PutCsv(e)
      BY <2>3 DEF PutCsv
    <2>4. CASE PutManifest(e)
      BY <2>4 DEF PutManifest
    <2>5. CASE ReadCsv(e)
      BY <2>5 DEF ReadCsv
    <2>6. CASE ReadManifest(e)
      BY <2>6 DEF ReadManifest
    <2>7. CASE RejectManifest(e)
      BY <2>7 DEF RejectManifest
    <2>8. CASE PutValidated(e)
      BY <2>8 DEF PutValidated
    <2>9. CASE ReadValidated(e)
      BY <2>9 DEF ReadValidated
    <2>10. CASE PutFindings(e)
      BY <2>10 DEF PutFindings
    <2>11. CASE GetFinding(e)
      BY <2>11 DEF GetFinding
    <2>12. CASE PutNarrative(e)
      BY <2>12 DEF PutNarrative
    <2> QED BY <2>1, <2>2, <2>3, <2>4, <2>5, <2>6, <2>7, <2>8, <2>9, <2>10, <2>11, <2>12 DEF Early
  <1> QED BY <1>1, <1>2

LEMMA EarlyChecks ==
    ASSUME TypeInv, ChecksInv, ObjectsStay, NEW e \in Exec, Early(e)
    PROVE  ChecksInv'
  <1>1. Frame(e)
    BY EarlyStep DEF Frame, Same, Published, BeforeGates
  <1>2. Seen(e)'
    BY EarlyStep DEF Seen, BeforeGates
  <1> QED BY <1>1, <1>2, FrameKeeps DEF ChecksInv

LEMMA ReadStep ==
    ASSUME TypeInv, NEW e \in Exec, NEW k \in Reader,
           ReadFindings(e, k) \/ ReadNarrative(e, k)
    PROVE  /\ k \in ReadersAt(state[e]) /\ ~HasRead(e, k)
           /\ KeepsReads(e, {k})
           /\ reads'[e][k].findings \in {reads[e][k].findings, findingsObj[RunOf[e]]}
           /\ reads'[e][k].narrative \in {reads[e][k].narrative, narrativeObj[RunOf[e]]}
           /\ \A d \in Exec \ {e} : reads'[d] = reads[d]
           /\ UNCHANGED <<state, step, judge, probe, runRow, items>>
  <1>1. reads \in [Exec -> [Reader -> ReadsType]]
    BY DEF TypeInv, TypeOK
  <1>2. CASE ReadFindings(e, k)
    BY <1>1, <1>2 DEF ReadFindings, HasRead, KeepsReads, ReadsType, sfn, ddb
  <1>3. CASE ReadNarrative(e, k)
    BY <1>1, <1>3 DEF ReadNarrative, HasRead, KeepsReads, ReadsType, sfn, ddb
  <1> QED BY <1>2, <1>3

LEMMA ReadChecks ==
    ASSUME TypeInv, ChecksInv, ObjectsStay, NEW e \in Exec, NEW k \in Reader,
           ReadFindings(e, k) \/ ReadNarrative(e, k)
    PROVE  ChecksInv'
  <1>1. Seen(e)'
    BY ReadStep, SeenKept, PipelineAssumption DEF ChecksInv, KeepsReads, Stays
  <1>2. Published(e) => k = "pdf"
    <2>1. ~(state[e] = "Publish" /\ step[e] = 1 /\ k = "publish")
      BY ReadStep DEF TypeInv, AllPresent, Present
    <2> QED BY <2>1, ReadStep DEF Published, ReadersAt
  <1>3. Frame(e)
    BY <1>2, ReadStep DEF Frame, Same, Published
  <1> QED BY <1>1, <1>3, FrameKeeps DEF ChecksInv

\* The deciding steps between the gates and Publish.
LEMMA VerdictChecks ==
    ASSUME TypeInv, ChecksInv, ObjectsStay, NEW e \in Exec,
           MergeGates(e) \/ JudgeNarrative(e) \/ ProbeNarrative(e) \/ MarkQuarantined(e)
    PROVE  ChecksInv'
  <1>t. /\ state \in [Exec -> StateName] /\ judge \in [Exec -> Score \cup {Nil}]
        /\ probe \in [Exec -> WeakClaims \cup {Nil}]
    BY DEF TypeInv, TypeOK
  <1>s. Seen(e) /\ step[e] = 0
    BY DEF ChecksInv, TypeInv, AllPresent, Present, AfterRules, AfterValidate,
           AfterExtract, Task, MergeGates, JudgeNarrative, ProbeNarrative,
           MarkQuarantined
  <1> USE <1>t DEF Goto, sfn, local, s3, ddb
  <1>1. Frame(e)
    BY DEF Frame, Same, Published, MergeGates, JudgeNarrative, ProbeNarrative,
           MarkQuarantined
  <1>2. Seen(e)'
    <2>1. CASE MergeGates(e)
      <3>1. PassedSum(e) = 3 => \A g \in Gate : GateVerdict(e, g)
        <4> DEFINE S == {g \in Gate : GateVerdict(e, g)}
        <4>1. Cardinality(S) = 3 => S = Gate
          BY SumIsConjunction
        <4> QED BY <4>1 DEF PassedSum
      <3>2. /\ state'[e] = IF PassedSum(e) = 3 THEN "Judge" ELSE "MarkQuarantined"
            /\ reads' = reads /\ \A g \in Gate : HasRead(e, g)
        BY <2>1 DEF MergeGates
      <3> QED BY <3>1, <3>2 DEF Seen, GatesPassed, HasRead, GateVerdict
    <2>2. CASE JudgeNarrative(e)
      <3>1. /\ reads' = reads /\ state[e] = "Judge" /\ HasRead(e, "judge")
            /\ \/ state'[e] = "AdversarialProbe" /\ JudgePasses(judge'[e])
               \/ state'[e] = "MarkQuarantined"
        BY <2>2 DEF JudgeNarrative
      <3> QED BY <3>1, <1>s DEF Seen, GatesPassed, JudgePassed, HasRead, GateVerdict
    <2>3. CASE ProbeNarrative(e)
      <3>1. /\ reads' = reads /\ judge' = judge /\ step' = step
            /\ state[e] = "AdversarialProbe" /\ HasRead(e, "probe")
            /\ \/ state'[e] = "Publish" /\ ProbePasses(probe'[e])
               \/ state'[e] = "MarkQuarantined"
        BY <2>3 DEF ProbeNarrative
      <3> QED BY <3>1, <1>s DEF Seen, AllPassed, GatesPassed, JudgePassed,
                                ProbePassed, HasRead, GateVerdict
    <2>4. CASE MarkQuarantined(e)
      <3>1. judge'[e] = NotRun /\ state'[e] = "Publish" /\ step' = step
        BY <2>4 DEF MarkQuarantined
      <3>2. ~JudgePasses(NotRun)
        BY DEF JudgePasses, NotRun
      <3> QED BY <3>1, <3>2, <1>s DEF Seen
    <2> QED BY <2>1, <2>2, <2>3, <2>4
  <1> QED BY <1>1, <1>2, FrameKeeps DEF ChecksInv

LEMMA PutRunChecks ==
    ASSUME TypeInv, ChecksInv, ObjectsStay, NEW e \in Exec, PutRun(e)
    PROVE  ChecksInv'
  <1> DEFINE row == [by |-> e,
               status |-> IF AllGatesPassed(e) THEN "succeeded" ELSE "quarantined",
               hash |-> manifest[e],
               count |-> Count(reads[e]["publish"].findings),
               judge |-> judge[e],
               gates |-> [g \in Gate |-> GateVerdict(e, g)]]
  <1>1. /\ runRow' = [runRow EXCEPT ![RunOf[e]] = row]
        /\ UNCHANGED <<state, reads, judge, probe, s3, items>>
        /\ state[e] = "Publish" /\ HasRead(e, "publish")
        /\ step' = [step EXCEPT ![e] = 1]
    BY DEF PutRun, sfn
  <1>2. runRow'[RunOf[e]] = row /\ RunOf[e] \in Run
    BY <1>1, PipelineAssumption DEF TypeInv, TypeOK
  <1>3. runRow'[RunOf[e]] # Nil
    <2>1. row \in RunRow
      <3>1. /\ manifest[e] \in Hash /\ judge[e] \in Score
            /\ reads[e]["publish"].findings \in Findings
        <4>1. manifest[e] # Nil /\ judge[e] # Nil
          BY <1>1 DEF TypeInv, AllPresent, Present, AfterExtract, AfterValidate, Task
        <4>2. reads[e]["publish"] \in ReadsType
          BY DEF TypeInv, TypeOK, Reader
        <4> QED BY <1>1, <4>1, <4>2 DEF TypeInv, TypeOK, ReadsType, HasRead
      <3>2. Count(reads[e]["publish"].findings) \in Nat
        BY <3>1, CountType
      <3>3. \A g \in Gate : GateVerdict(e, g) \in BOOLEAN
        BY VerdictType DEF GateVerdict
      <3> QED BY <3>1, <3>2, <3>3 DEF RunRow
    <2> QED BY <1>2, <2>1, RowAssumption
  <1>4. step'[e] = 1 /\ \A d \in Exec \ {e} : step'[d] = step[d]
    BY <1>1 DEF TypeInv, TypeOK
  <1>5. Seen(e)
    BY DEF ChecksInv
  <1>6. ASSUME NEW d \in Exec
        PROVE  Seen(d)'
    <2>1. runRow[RunOf[d]] # Nil => runRow'[RunOf[d]] # Nil
      BY <1>1, <1>3 DEF TypeInv, TypeOK
    <2>2. CASE d = e
      BY <1>1, <1>3, <1>5, <2>2 DEF Seen, AllPassed, GatesPassed, JudgePassed,
                                    ProbePassed, HasRead, GateVerdict
    <2>3. CASE d # e
      BY <1>1, <1>4, <2>1, <2>3 DEF ChecksInv, Seen, AllPassed, GatesPassed,
                    JudgePassed, ProbePassed, HasRead, GateVerdict
    <2> QED BY <2>2, <2>3
  <1>7. ASSUME NEW r \in Run, r # RunOf[e]
        PROVE  Row(r)'
    <2>1. runRow'[r] = runRow[r]
      BY <1>1, <1>7 DEF TypeInv, TypeOK
    <2>2. Row(r)
      BY DEF ChecksInv
    <2>3. CASE runRow[r] = Nil
      BY <1>1, <2>1, <2>2, <2>3 DEF Row, Succeeded, s3
    <2>4. CASE runRow[r] # Nil
      <3> DEFINE a == runRow[r].by
      <3>1. a # e /\ a \in Exec
        BY <1>7, <2>2, <2>4 DEF Row, TypeInv, TypeOK, RunRow
      <3>2. step'[a] = step[a]
        BY <1>4, <3>1
      <3> QED BY <1>1, <2>1, <2>2, <2>4, <3>2 DEF Row, Succeeded, Published, AllPassed,
                    GatesPassed, JudgePassed, ProbePassed, HasRead, GateVerdict, s3
    <2> QED BY <2>3, <2>4
  <1>8. Row(RunOf[e])'
    <2>1. findingsObj'[RunOf[e]] # Nil /\ narrativeObj'[RunOf[e]] # Nil
      BY <1>1 DEF TypeInv, AllPresent, Present, AfterExtract, AfterValidate,
                  AfterRules, AfterNarrator, Task, s3
    <2>2. (row.status = "succeeded") => AllPassed(e)
      BY <1>1, <1>5 DEF AllGatesPassed, Seen
    <2>3. Succeeded(RunOf[e])' => AllPassed(e)'
      BY <1>1, <1>2, <2>2 DEF Succeeded, AllPassed, GatesPassed, JudgePassed,
                              ProbePassed, HasRead, GateVerdict
    <2>4. Published(e)' /\ HasRead(e, "publish")'
      BY <1>1, <1>4 DEF Published, HasRead
    <2> QED BY <1>1, <1>2, <1>3, <2>1, <2>3, <2>4 DEF Row
  <1> QED BY <1>6, <1>7, <1>8 DEF ChecksInv

\* What follows the row: the findings, the end of Publish, the report.
LEMMA PublishChecks ==
    ASSUME TypeInv, ChecksInv, ObjectsStay, NEW e \in Exec,
           PutSomeItem(e) \/ EndPublish(e) \/ PutReport(e)
    PROVE  ChecksInv'
  <1>t. /\ state \in [Exec -> StateName] /\ step \in [Exec -> 0..2]
        /\ items \in [Run -> SUBSET Item]
    BY DEF TypeInv, TypeOK
  <1>s. Seen(e)
    BY DEF ChecksInv
  <1> USE <1>t DEF Goto, Fail, Forget, sfn, local, s3, ddb
  <1>1. CASE PutSomeItem(e)
    <2>1. Frame(e)
      BY <1>1, <1>s DEF PutSomeItem, PutItem, Frame, Same, Published, KeepsReads, Seen
    <2>2. Seen(e)'
      BY <1>1, <1>s DEF PutSomeItem, PutItem, Seen, AllPassed, GatesPassed, JudgePassed,
                        ProbePassed, HasRead, GateVerdict
    <2> QED BY <2>1, <2>2, FrameKeeps DEF ChecksInv
  <1>2. CASE EndPublish(e)
    <2>1. Frame(e)
      BY <1>2 DEF EndPublish, Frame, Same, Published, KeepsReads
    <2>2. Seen(e)'
      BY <1>2 DEF EndPublish, Seen
    <2> QED BY <2>1, <2>2, FrameKeeps DEF ChecksInv
  <1>3. CASE PutReport(e)
    <2>1. Frame(e)
      BY <1>3 DEF PutReport, Frame, Same, Published, KeepsReads
    <2>2. Seen(e)'
      BY <1>3 DEF PutReport, Seen
    <2> QED BY <2>1, <2>2, FrameKeeps DEF ChecksInv
  <1> QED BY <1>1, <1>2, <1>3

LEMMA InterruptChecks ==
    ASSUME TypeInv, ChecksInv, ObjectsStay, NEW e \in Exec, Interrupt(e)
    PROVE  ChecksInv'
  <1>t. /\ state \in [Exec -> StateName] /\ step \in [Exec -> 0..2]
        /\ reads \in [Exec -> [Reader -> ReadsType]]
    BY DEF TypeInv, TypeOK
  <1>s. Seen(e)
    BY DEF ChecksInv
  <1>1. UNCHANGED <<judge, probe, runRow, items>>
    BY DEF Interrupt, sfn, ddb
  <1>2. CASE Fail(e) /\ UNCHANGED local
    <2>1. Frame(e)
      BY <1>1, <1>2, <1>t DEF Fail, Goto, Frame, Same, Published, KeepsReads, local
    <2>2. Seen(e)'
      BY <1>2, <1>t DEF Fail, Goto, Seen
    <2> QED BY <2>1, <2>2, FrameKeeps DEF ChecksInv
  <1>3. CASE /\ Repeat(e)
             /\ step' = [step EXCEPT ![e] = 0]
             /\ reads' = [reads EXCEPT ![e] = [k \in Reader |->
                              IF k \in ReadersAt(state[e]) THEN NothingRead ELSE @[k]]]
    <2>1. state' = state /\ state[e] \in Retried
      BY <1>3 DEF Repeat
    <2>2. ~Published(e) /\ state[e] # "Publish"
      BY <2>1 DEF Published, Retried
    <2>3. KeepsReads(e, ReadersAt(state[e])) /\ \A d \in Exec \ {e} : reads'[d] = reads[d]
      BY <1>3, <1>t DEF KeepsReads
    <2>4. Frame(e)
      BY <1>1, <1>3, <1>t, <2>1, <2>2, <2>3 DEF Frame, Same
    <2>5. Seen(e)'
      BY <1>1, <1>s, <2>1, <2>2, <2>3, SeenKept, PipelineAssumption DEF Stays
    <2> QED BY <2>4, <2>5, FrameKeeps DEF ChecksInv
  <1> QED BY <1>2, <1>3 DEF Interrupt

LEMMA ReviewChecks ==
    ASSUME TypeInv, ChecksInv, NEW r \in Run, Review(r)
    PROVE  ChecksInv'
  <1>1. UNCHANGED <<state, step, reads, judge, probe, runRow, s3>>
    BY DEF Review, sfn, local
  <1>2. \A q \in Run : items'[q] # {} => items[q] # {}
    BY DEF Review, TypeInv, TypeOK
  <1>3. \A d \in Exec : Seen(d)'
    BY <1>1 DEF ChecksInv, Seen, AllPassed, GatesPassed, JudgePassed, ProbePassed,
                HasRead, GateVerdict
  <1>4. \A q \in Run : Row(q)'
    BY <1>1, <1>2 DEF ChecksInv, Row, Succeeded, Published, AllPassed, GatesPassed,
                      JudgePassed, ProbePassed, HasRead, GateVerdict, s3
  <1> QED BY <1>3, <1>4 DEF ChecksInv

LEMMA InitChecks == Init => ChecksInv
  BY PipelineAssumption DEF Init, ChecksInv, Seen, Row, Succeeded

LEMMA NextChecks == TypeInv /\ ChecksInv /\ [Next]_vars => ChecksInv'
  <1> SUFFICES ASSUME TypeInv, ChecksInv, [Next]_vars PROVE ChecksInv'
    OBVIOUS
  <1>o. ObjectsStay
    BY NextTypeInv
  <1>1. ASSUME NEW e \in Exec, Step(e) PROVE ChecksInv'
    <2>1. ASSUME NEW k \in Reader, ReadFindings(e, k) \/ ReadNarrative(e, k)
          PROVE  ChecksInv'
      BY <1>o, <2>1, ReadChecks
    <2> QED BY <1>o, <1>1, <2>1, EarlyChecks, VerdictChecks, PutRunChecks,
               PublishChecks, InterruptChecks DEF Step, Progress, Early
  <1>2. ASSUME NEW r \in Run, Review(r) PROVE ChecksInv'
    BY <1>2, ReviewChecks
  <1>3. CASE UNCHANGED vars
    BY <1>3 DEF vars, sfn, local, s3, ddb, ChecksInv, Seen, Row, Succeeded, Published,
                AllPassed, GatesPassed, JudgePassed, ProbePassed, HasRead, GateVerdict
  <1> QED BY <1>1, <1>2, <1>3 DEF Next

\* Whoever shares the run id: a row says succeeded only when the execution that
\* put it saw its gates, judge and probe pass on what each of them had read.
THEOREM OwnChecks == Spec => []OwnChecksPassed
  <1>1. TypeInv /\ ChecksInv => OwnChecksPassed
    BY DEF ChecksInv, Row, Succeeded, OwnChecksPassed, AllPassed, GatesPassed,
           JudgePassed, ProbePassed
  <1> QED BY <1>1, InitTypeInv, NextTypeInv, InitChecks, NextChecks, PTL DEF Spec

\* Whoever shares the run id: no finding is listed before its run has a row,
\* and no row is put before the objects it refers to.
THEOREM RowFirst == Spec => []RowBeforeFindings
  <1>1. TypeInv /\ ChecksInv => RowBeforeFindings
    BY DEF ChecksInv, Row, RowBeforeFindings
  <1> QED BY <1>1, InitTypeInv, NextTypeInv, InitChecks, NextChecks, PTL DEF Spec

-----------------------------------------------------------------------------
(* Executions that do not share run ids                                    *)

\* What a step of e can do to what ReadsInv and the rows are about.
Touches(e) ==
    /\ \A d \in Exec \ {e} : state'[d] = state[d] /\ reads'[d] = reads[d]
    /\ \A r \in Run \ {RunOf[e]} :
          /\ findingsObj'[r] = findingsObj[r] /\ narrativeObj'[r] = narrativeObj[r]
          /\ runRow'[r] = runRow[r]
    /\ state[e] \notin BeforeGates => UNCHANGED <<findingsObj, narrativeObj>>
    /\ ~(state[e] = "Publish" /\ step[e] = 0) => UNCHANGED runRow
    /\ state'[e] \in BeforeGates => state[e] \in BeforeGates
    /\ state[e] \in BeforeGates => KeepsReads(e, {})
    /\ \A k \in Reader :
          /\ reads'[e][k].findings \in
                {Nil, reads[e][k].findings, findingsObj'[RunOf[e]]}
          /\ reads'[e][k].narrative \in
                {Nil, reads[e][k].narrative, narrativeObj'[RunOf[e]]}

LEMMA EarlyTouches ==
    ASSUME TypeInv, NEW e \in Exec, Early(e)
    PROVE  Touches(e)
  <1>1. /\ state[e] \in BeforeGates /\ UNCHANGED <<reads, runRow>>
        /\ \A d \in Exec \ {e} : state'[d] = state[d]
    BY EarlyStep
  <1>2. \A r \in Run \ {RunOf[e]} :
           findingsObj'[r] = findingsObj[r] /\ narrativeObj'[r] = narrativeObj[r]
    BY DEF Early, TypeInv, TypeOK, sfn, local, s3, ddb,
           Start, ReadServers, PutCsv, PutManifest, ReadCsv, ReadManifest,
           RejectManifest, PutValidated, ReadValidated, PutFindings, GetFinding,
           PutNarrative
  <1> QED BY <1>1, <1>2 DEF Touches, KeepsReads

LEMMA LateTouches ==
    ASSUME TypeInv, NEW e \in Exec,
           \/ MergeGates(e) \/ JudgeNarrative(e) \/ ProbeNarrative(e)
           \/ MarkQuarantined(e) \/ PutRun(e) \/ PutSomeItem(e) \/ EndPublish(e)
           \/ PutReport(e)
    PROVE  Touches(e)
  <1>t. /\ state \in [Exec -> StateName] /\ runRow \in [Run -> RunRow \cup {Nil}]
    BY DEF TypeInv, TypeOK
  <1>1. UNCHANGED <<reads, findingsObj, narrativeObj>>
    BY DEF MergeGates, JudgeNarrative, ProbeNarrative, MarkQuarantined, PutRun,
           PutSomeItem, PutItem, EndPublish, PutReport, Forget, local, s3
  <1>2. /\ state[e] \notin BeforeGates /\ state'[e] \notin BeforeGates
        /\ \A d \in Exec \ {e} : state'[d] = state[d]
    BY <1>t DEF MergeGates, JudgeNarrative, ProbeNarrative, MarkQuarantined, PutRun,
           PutSomeItem, PutItem, EndPublish, PutReport, Goto, Fail, BeforeGates
  <1>3. /\ \A r \in Run \ {RunOf[e]} : runRow'[r] = runRow[r]
        /\ ~(state[e] = "Publish" /\ step[e] = 0) => UNCHANGED runRow
    BY <1>t DEF MergeGates, JudgeNarrative, ProbeNarrative, MarkQuarantined, PutRun,
           PutSomeItem, PutItem, EndPublish, PutReport, ddb
  <1> QED BY <1>1, <1>2, <1>3 DEF Touches, KeepsReads

LEMMA ReadTouches ==
    ASSUME TypeInv, NEW e \in Exec, NEW k \in Reader,
           ReadFindings(e, k) \/ ReadNarrative(e, k)
    PROVE  Touches(e)
  <1>1. UNCHANGED <<findingsObj, narrativeObj>>
    BY DEF ReadFindings, ReadNarrative, s3
  <1>2. state[e] \notin BeforeGates
    BY ReadStep DEF ReadersAt, BeforeGates
  <1> QED BY <1>1, <1>2, ReadStep DEF Touches, KeepsReads

LEMMA InterruptTouches ==
    ASSUME TypeInv, NEW e \in Exec, Interrupt(e)
    PROVE  Touches(e)
  <1>t. /\ state \in [Exec -> StateName] /\ reads \in [Exec -> [Reader -> ReadsType]]
    BY DEF TypeInv, TypeOK
  <1>1. UNCHANGED <<findingsObj, narrativeObj, runRow>>
    BY DEF Interrupt, s3, ddb
  <1>2. CASE Fail(e) /\ UNCHANGED local
    BY <1>1, <1>2, <1>t DEF Fail, Goto, local, Touches, KeepsReads, BeforeGates
  <1>3. CASE /\ Repeat(e)
             /\ reads' = [reads EXCEPT ![e] = [k \in Reader |->
                              IF k \in ReadersAt(state[e]) THEN NothingRead ELSE @[k]]]
    <2>1. state' = state
      BY <1>3 DEF Repeat
    <2>2. /\ \A d \in Exec \ {e} : reads'[d] = reads[d]
          /\ \A k \in Reader : reads'[e][k] =
                IF k \in ReadersAt(state[e]) THEN NothingRead ELSE reads[e][k]
      BY <1>3, <1>t
    <2>3. state[e] \in BeforeGates => ReadersAt(state[e]) = {}
      BY DEF BeforeGates, ReadersAt
    <2> QED BY <1>1, <2>1, <2>2, <2>3 DEF Touches, KeepsReads, NothingRead
  <1> QED BY <1>2, <1>3 DEF Interrupt

LEMMA StepTouches ==
    ASSUME TypeInv, NEW e \in Exec, Step(e)
    PROVE  Touches(e)
  <1>1. ASSUME NEW k \in Reader, ReadFindings(e, k) \/ ReadNarrative(e, k)
        PROVE  Touches(e)
    BY <1>1, ReadTouches
  <1> QED BY <1>1, EarlyTouches, LateTouches, InterruptTouches
          DEF Step, Progress, Early

LEMMA InitReads == Init => ReadsInv
  BY PipelineAssumption DEF Init, ReadsInv, ReadsCurrent, NothingRead

LEMMA NextReads ==
    ASSUME Isolated
    PROVE  TypeInv /\ ReadsInv /\ [Next]_vars => ReadsInv'
  <1> SUFFICES ASSUME TypeInv, ReadsInv, [Next]_vars PROVE ReadsInv'
    OBVIOUS
  <1>1. ASSUME NEW e \in Exec, Step(e), NEW d \in Exec
        PROVE  ReadsCurrent(d)'
    <2>1. Touches(e)
      BY <1>1, StepTouches
    <2>2. ReadsCurrent(d)
      BY DEF ReadsInv
    <2>3. CASE d # e
      <3>1. RunOf[d] \in Run \ {RunOf[e]}
        BY <2>3, PipelineAssumption DEF Isolated
      <3> QED BY <2>1, <2>2, <2>3, <3>1 DEF Touches, ReadsCurrent
    <2>4. CASE d = e /\ state[e] \in BeforeGates
      BY <2>1, <2>2, <2>4 DEF Touches, ReadsCurrent, KeepsReads, NothingRead
    <2>5. CASE d = e /\ state[e] \notin BeforeGates
      BY <2>1, <2>2, <2>5 DEF Touches, ReadsCurrent
    <2> QED BY <2>3, <2>4, <2>5
  <1>2. ASSUME NEW r \in Run, Review(r) PROVE ReadsInv'
    BY <1>2 DEF Review, local, s3, ReadsInv, ReadsCurrent
  <1>3. CASE UNCHANGED vars
    BY <1>3 DEF vars, local, s3, ReadsInv, ReadsCurrent
  <1> QED BY <1>1, <1>2, <1>3 DEF Next, ReadsInv

\* All three invariants together tell what a row that says succeeded stands for.
LEMMA RowIsVerified == TypeInv /\ ChecksInv /\ ReadsInv => SucceededWasVerified
  <1> SUFFICES ASSUME TypeInv, ChecksInv, ReadsInv, NEW r \in Run, Succeeded(r)
               PROVE  /\ \A g \in Gate :
                            GatePasses(g, findingsObj[r], narrativeObj[r])
                      /\ JudgePasses(runRow[r].judge)
                      /\ ProbePasses(probe[runRow[r].by])
                      /\ \A k \in {"judge", "probe", "publish"} :
                            reads[runRow[r].by][k] = Evidence(r)
    BY DEF SucceededWasVerified
  <1> DEFINE e == runRow[r].by
  <1>1. e \in Exec /\ RunOf[e] = r /\ AllPassed(e) /\ HasRead(e, "publish")
        /\ runRow[r].judge = judge[e]
    BY DEF ChecksInv, Row, Succeeded, TypeInv, TypeOK, RunRow
  <1> HIDE DEF e
  <1>2. ASSUME NEW k \in Reader, HasRead(e, k)
        PROVE  reads[e][k] = Evidence(r)
    <2>1. /\ reads[e][k].findings = findingsObj[r]
          /\ reads[e][k].narrative = narrativeObj[r]
      BY <1>1, <1>2 DEF ReadsInv, ReadsCurrent, HasRead
    <2>2. reads[e][k] \in ReadsType
      BY <1>1 DEF TypeInv, TypeOK
    <2> QED BY <2>1, <2>2 DEF Evidence, ReadsType
  <1>3. \A g \in Gate : GatePasses(g, findingsObj[r], narrativeObj[r])
    BY <1>1, <1>2 DEF AllPassed, GatesPassed, GateVerdict, Evidence, Reader
  <1>4. \A k \in {"judge", "probe", "publish"} : reads[e][k] = Evidence(r)
    BY <1>1, <1>2 DEF AllPassed, JudgePassed, ProbePassed, Reader
  <1> QED BY <1>1, <1>3, <1>4 DEF e, AllPassed, JudgePassed, ProbePassed

\* Where executions do not share run ids, a run the runs table calls succeeded
\* has in S3 the findings and the narrative that all checks accepted and that
\* Publish copied.
THEOREM Verified ==
    ASSUME Isolated
    PROVE  Spec => []SucceededWasVerified
  BY RowIsVerified, InitTypeInv, NextTypeInv, InitChecks, NextChecks, InitReads,
     NextReads, PTL DEF Spec

\* Where executions do not share run ids, no step changes the row of a run, nor
\* the findings and the narrative it stands for.
THEOREM RecordKept ==
    ASSUME Isolated
    PROVE  Spec => RecordIsFinal
  <1>1. TypeInv /\ ChecksInv /\ [Next]_vars =>
           [\A r \in Run : runRow[r] # Nil =>
               runRow'[r] = runRow[r] /\ Evidence(r)' = Evidence(r)]_vars
    <2> SUFFICES ASSUME TypeInv, ChecksInv, [Next]_vars, NEW r \in Run, runRow[r] # Nil
                 PROVE  runRow'[r] = runRow[r] /\ Evidence(r)' = Evidence(r)
      OBVIOUS
    <2>1. /\ runRow[r].by \in Exec /\ RunOf[runRow[r].by] = r
          /\ Published(runRow[r].by)
      BY DEF ChecksInv, Row, TypeInv, TypeOK, RunRow
    <2>2. ASSUME NEW e \in Exec, Step(e)
          PROVE  runRow'[r] = runRow[r] /\ Evidence(r)' = Evidence(r)
      <3>1. Touches(e)
        BY <2>2, StepTouches
      <3>2. CASE RunOf[e] = r
        <4>1. e = runRow[r].by
          BY <2>1, <3>2 DEF Isolated
        <4>2. state[e] \notin BeforeGates /\ ~(state[e] = "Publish" /\ step[e] = 0)
          BY <2>1, <4>1 DEF Published, BeforeGates
        <4> QED BY <3>1, <4>2 DEF Touches, Evidence
      <3>3. CASE RunOf[e] # r
        BY <3>1, <3>3 DEF Touches, Evidence
      <3> QED BY <3>2, <3>3
    <2>3. ASSUME NEW q \in Run, Review(q)
          PROVE  runRow'[r] = runRow[r] /\ Evidence(r)' = Evidence(r)
      BY <2>3 DEF Review, s3, Evidence
    <2>4. CASE UNCHANGED vars
      BY <2>4 DEF vars, s3, ddb, Evidence
    <2> QED BY <2>2, <2>3, <2>4 DEF Next
  <1> QED BY <1>1, InitTypeInv, NextTypeInv, InitChecks, NextChecks, PTL
          DEF Spec, RecordIsFinal
=============================================================================
