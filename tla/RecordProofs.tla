---------------------------- MODULE RecordProofs ----------------------------
(***************************************************************************)
(* What the record of a run is worth where executions do not share run     *)
(* ids: the hash in its row covers its findings, the findings table lists  *)
(* them all and no others, its report attests them, and no decision of a   *)
(* reviewer is lost.  RecordInv carries the proofs; it rests on TypeInv,   *)
(* ChecksInv and ReadsInv.                                                 *)
(***************************************************************************)
EXTENDS PipelineProofs, PipelineRefinement

-----------------------------------------------------------------------------
\* The rows execution e has validated have the manifest's hash, its findings
\* are findings on those rows, its narrative is one the agent may write.
Chain(e) ==
    /\ state[e] = "ValidateAndHash" /\ step[e] = 2 => HashOf[rows[e]] = manifest[e]
    /\ state[e] \in AfterValidate => HashOf[validatedObj[RunOf[e]]] = manifest[e]
    /\ state[e] = "RulesEngine" /\ step[e] = 1 => rows[e] = validatedObj[RunOf[e]]
    /\ state[e] \in AfterRules =>
          findingsObj[RunOf[e]] \in Evaluate[validatedObj[RunOf[e]]]
    /\ state[e] \in AfterNarrator => narrativeObj[RunOf[e]] \in AllTexts

ListedIds(r) == {i.id : i \in items[r]}

\* How far e has come with publishing its run: nothing, the findings put so
\* far, all of them, and the report of a monthly run.
Publishing(e) ==
    LET r == RunOf[e]
    IN  /\ ~Published(e) => put[e] = {} /\ runRow[r] = Nil
        /\ state[e] \in {"GeneratePdf", "Succeed"} =>
              runRow[r] # Nil /\ ListedIds(r) = Ids(findingsObj[r])
        /\ state[e] = "Publish" /\ step[e] = 1 => put[e] = ListedIds(r)
        /\ state[e] = "Succeed" /\ r \in Monthly => reportObj[r] # Nil

\* The row, the items and the report of run r say what its objects say.
RowAgrees(r) ==
    runRow[r] # Nil =>
        /\ runRow[r].hash = manifest[runRow[r].by]
        /\ validatedObj[r] # Nil /\ runRow[r].hash = HashOf[validatedObj[r]]
        /\ findingsObj[r] \in Evaluate[validatedObj[r]]
        /\ narrativeObj[r] \in AllTexts
        /\ runRow[r].count = Count(findingsObj[r])

ItemsAgree(r) ==
    /\ \A i \in items[r] :
          /\ i.id \in Ids(findingsObj[r])
          /\ i.body = BodyOf(findingsObj[r], i.id)
          /\ Succeeded(r) => i.narrated
    /\ \A i, j \in items[r] : i.id = j.id => i = j

ReportAgrees(r) ==
    reportObj[r] # Nil =>
        /\ runRow[r] # Nil /\ reportObj[r].hash = runRow[r].hash
        /\ reportObj[r].findings = findingsObj[r]
        /\ reportObj[r].narrative = narrativeObj[r]

Recorded(r) == RowAgrees(r) /\ ItemsAgree(r) /\ ReportAgrees(r)

RecordInv == /\ \A e \in Exec : Chain(e) /\ Publishing(e)
             /\ \A r \in Run : Recorded(r)

-----------------------------------------------------------------------------
(* A step of e changes nothing of other executions and of other runs.      *)

Aside(e) ==
    /\ \A d \in Exec \ {e} :
          /\ state'[d] = state[d] /\ step'[d] = step[d] /\ rows'[d] = rows[d]
          /\ manifest'[d] = manifest[d] /\ put'[d] = put[d]
    /\ \A r \in Run \ {RunOf[e]} :
          /\ validatedObj'[r] = validatedObj[r] /\ findingsObj'[r] = findingsObj[r]
          /\ narrativeObj'[r] = narrativeObj[r] /\ reportObj'[r] = reportObj[r]
          /\ runRow'[r] = runRow[r] /\ items'[r] = items[r]

LEMMA StepAside ==
    ASSUME TypeInv, NEW e \in Exec, Step(e)
    PROVE  Aside(e)
  <1> USE DEF sfn, local, s3, ddb, Goto, Repeat, Fail, Finish, Forget
  <1>t. TypeOK
    BY DEF TypeInv
  <1>1. CASE Start(e) \/ Interrupt(e) \/ GetFinding(e)
    BY <1>t, <1>1 DEF TypeOK, Aside, Start, Interrupt, GetFinding
  <1>2. CASE ReadServers(e) \/ PutCsv(e) \/ PutManifest(e)
    BY <1>t, <1>2 DEF TypeOK, Aside, ReadServers, PutCsv, PutManifest
  <1>3. CASE ReadCsv(e) \/ ReadManifest(e) \/ RejectManifest(e) \/ PutValidated(e)
    BY <1>t, <1>3 DEF TypeOK, Aside, ReadCsv, ReadManifest, RejectManifest, PutValidated
  <1>4. CASE ReadValidated(e) \/ PutFindings(e)
    BY <1>t, <1>4 DEF TypeOK, Aside, ReadValidated, PutFindings
  <1>8. CASE PutNarrative(e)
    BY <1>t, <1>8 DEF TypeOK, Aside, PutNarrative
  <1>5. ASSUME NEW k \in Reader, ReadFindings(e, k) \/ ReadNarrative(e, k)
        PROVE  Aside(e)
    BY <1>5 DEF Aside, ReadFindings, ReadNarrative
  <1>6. CASE MergeGates(e) \/ JudgeNarrative(e) \/ ProbeNarrative(e) \/ MarkQuarantined(e)
    BY <1>t, <1>6 DEF TypeOK, Aside, MergeGates, JudgeNarrative, ProbeNarrative,
                      MarkQuarantined
  <1>7. CASE PutRun(e) \/ PutSomeItem(e) \/ EndPublish(e) \/ PutReport(e)
    BY <1>t, <1>7 DEF TypeOK, Aside, PutRun, PutSomeItem, PutItem, EndPublish, PutReport
  <1> QED BY <1>1, <1>2, <1>3, <1>4, <1>5, <1>6, <1>7, <1>8 DEF Step, Progress

\* So its facts are all that must be shown again.
LEMMA OthersRecorded ==
    ASSUME Isolated, TypeInv, ChecksInv, RecordInv, NEW e \in Exec, Step(e),
           Chain(e)', Publishing(e)', Recorded(RunOf[e])'
    PROVE  RecordInv'
  <1>1. Aside(e)
    BY StepAside
  <1>2. ASSUME NEW d \in Exec, d # e
        PROVE  Chain(d)' /\ Publishing(d)'
    <2>1. RunOf[d] \in Run \ {RunOf[e]}
      BY <1>2, PipelineAssumption DEF Isolated
    <2>2. Chain(d) /\ Publishing(d)
      BY DEF RecordInv
    <2>3. Chain(d)'
      BY <1>1, <1>2, <2>1, <2>2 DEF Aside, Chain
    <2>4. Publishing(d)'
      BY <1>1, <1>2, <2>1, <2>2 DEF Aside, Publishing, Published, ListedIds
    <2> QED BY <2>3, <2>4
  <1>3. ASSUME NEW r \in Run, r # RunOf[e]
        PROVE  Recorded(r)'
    <2>1. Recorded(r)
      BY DEF RecordInv
    <2>2. runRow[r] # Nil => runRow[r].by \in Exec \ {e}
      BY <1>3 DEF ChecksInv, Row, TypeInv, TypeOK, RunRow
    <2>3. RowAgrees(r)'
      BY <1>1, <1>3, <2>1, <2>2 DEF Aside, Recorded, RowAgrees
    <2>4. ItemsAgree(r)' /\ ReportAgrees(r)'
      BY <1>1, <1>3, <2>1 DEF Aside, Recorded, ItemsAgree, ReportAgrees, Succeeded
    <2> QED BY <2>3, <2>4 DEF Recorded
  <1> QED BY <1>2, <1>3 DEF RecordInv

-----------------------------------------------------------------------------
(* Before the row is put.                                                  *)

\* A step of an execution that has put nothing yet, and puts nothing now.
LEMMA Unpublished ==
    ASSUME RecordInv, ChecksInv, NEW e \in Exec, ~Published(e), RunOf[e] \in Run,
           UNCHANGED <<runRow, items, reportObj>>, put'[e] \in {put[e], {}},
           state'[e] \notin {"GeneratePdf", "Succeed"},
           state'[e] = "Publish" => step'[e] # 1
    PROVE  Publishing(e)' /\ Recorded(RunOf[e])'
  <1>1. put[e] = {} /\ runRow[RunOf[e]] = Nil
    BY DEF RecordInv, Publishing
  <1>2. items[RunOf[e]] = {} /\ reportObj[RunOf[e]] = Nil
    BY <1>1 DEF RecordInv, Recorded, ReportAgrees, ChecksInv, Row
  <1>3. Publishing(e)'
    BY <1>1 DEF Publishing, Published
  <1>4. Recorded(RunOf[e])'
    BY <1>1, <1>2 DEF Recorded, RowAgrees, ItemsAgree, ReportAgrees
  <1> QED BY <1>3, <1>4

\* Whatever the agent writes, with or without a check of its consistency.
LEMMA WrittenText ==
    ASSUME NEW d \in Draft, NEW c \in BOOLEAN
    PROVE  [d EXCEPT !.consistent = c] \in AllTexts /\ d \in AllTexts
  <1>1. \A b \in BOOLEAN : [d EXCEPT !.consistent = b] \in AllTexts
    BY DEF AllTexts
  <1>2. d \in Narrative
    BY PipelineAssumption
  <1>3. d.consistent \in BOOLEAN /\ d = [d EXCEPT !.consistent = d.consistent]
    BY <1>2 DEF Narrative
  <1> QED BY <1>1, <1>3

\* The chain from the servers' rows to the narrative.
LEMMA EarlyChain ==
    ASSUME TypeInv, RecordInv, NEW e \in Exec, Early(e)
    PROVE  Chain(e)'
  <1> USE PipelineAssumption
      DEF Goto, Finish, Repeat, Fail, Forget, sfn, local, s3, ddb, AfterExtract,
          AfterValidate, AfterRules, AfterNarrator, Task, Retried
  <1>t. TypeOK
    BY DEF TypeInv
  <1>p. Present(e)
    BY DEF TypeInv, AllPresent
  <1>c. Chain(e)
    BY DEF RecordInv
  <1>1. CASE Start(e) \/ ReadServers(e) \/ PutCsv(e) \/ PutManifest(e) \/ ReadCsv(e)
             \/ RejectManifest(e)
    BY <1>t, <1>1 DEF TypeOK, Chain, Start, ReadServers, PutCsv, PutManifest, ReadCsv,
                      RejectManifest
  <1>2. CASE ReadManifest(e)
    BY <1>t, <1>2 DEF TypeOK, Chain, ReadManifest, HashMatches
  <1>3. CASE PutValidated(e)
    BY <1>t, <1>c, <1>3 DEF TypeOK, Chain, PutValidated
  <1>4. CASE ReadValidated(e)
    BY <1>t, <1>c, <1>4 DEF TypeOK, Chain, ReadValidated
  <1>5. CASE PutFindings(e)
    BY <1>t, <1>c, <1>5 DEF TypeOK, Chain, PutFindings
  <1>6. CASE GetFinding(e)
    BY <1>t, <1>c, <1>6 DEF TypeOK, Chain, GetFinding
  <1>7. CASE PutNarrative(e)
    <2>1. narrativeObj'[RunOf[e]] \in AllTexts
      BY <1>t, <1>7, WrittenText DEF PutNarrative, TypeOK
    <2>2. /\ state[e] = "AgentNarrator" /\ state'[e] \in {"AgentNarrator", "GatesParallel", "FAILED"}
          /\ UNCHANGED <<manifest, validatedObj, findingsObj>>
      BY <1>t, <1>7 DEF PutNarrative, TypeOK
    <2> QED BY <1>c, <2>1, <2>2 DEF Chain
  <1> QED BY <1>1, <1>2, <1>3, <1>4, <1>5, <1>6, <1>7 DEF Early

\* The later steps change neither the objects nor the hash of the chain.
LEMMA LateChain ==
    ASSUME RecordInv, NEW e \in Exec, state[e] \in AfterNarrator,
           state'[e] \in AfterNarrator \cup Ended,
           UNCHANGED <<manifest, validatedObj, findingsObj, narrativeObj>>
    PROVE  Chain(e)'
  BY DEF RecordInv, Chain, AfterNarrator, AfterRules, AfterValidate, AfterExtract,
         Task, Ended

\* The handlers up to the narrator, and the deciding states after the gates.
LEMMA EarlyRecord ==
    ASSUME TypeInv, ChecksInv, RecordInv, NEW e \in Exec, Early(e)
    PROVE  Chain(e)' /\ Publishing(e)' /\ Recorded(RunOf[e])'
  <1>1. UNCHANGED <<put, reportObj>>
    BY DEF Early, local, s3, Forget, Start, ReadServers, PutCsv, PutManifest, ReadCsv,
           ReadManifest, RejectManifest, PutValidated, ReadValidated, PutFindings,
           GetFinding, PutNarrative
  <1>2. ~Published(e)
    BY EarlyStep DEF Published, BeforeGates
  <1>3. state'[e] \notin {"Publish", "GeneratePdf", "Succeed"}
    BY EarlyStep DEF BeforeGates
  <1>4. UNCHANGED <<runRow, items>>
    BY EarlyStep
  <1> QED BY <1>1, <1>2, <1>3, <1>4, EarlyChain, Unpublished, PipelineAssumption

LEMMA VerdictRecord ==
    ASSUME TypeInv, ChecksInv, RecordInv, NEW e \in Exec,
           MergeGates(e) \/ JudgeNarrative(e) \/ ProbeNarrative(e) \/ MarkQuarantined(e)
    PROVE  Chain(e)' /\ Publishing(e)' /\ Recorded(RunOf[e])'
  <1>1. /\ UNCHANGED <<manifest, local, s3, ddb>>
        /\ state[e] \in AfterNarrator \ {"Publish", "GeneratePdf"}
        /\ state'[e] \in {"Judge", "AdversarialProbe", "Publish", "MarkQuarantined"}
    BY DEF TypeInv, TypeOK, MergeGates, JudgeNarrative, ProbeNarrative, MarkQuarantined,
           Goto, sfn, AfterNarrator, AfterRules, AfterValidate, AfterExtract, Task
  <1>2. step'[e] = 0
    BY <1>1 DEF TypeInv, AllPresent, Present, AfterNarrator, local
  <1>3. ~Published(e)
    BY <1>1 DEF Published, AfterNarrator, AfterRules, AfterValidate, AfterExtract, Task
  <1>4. Chain(e)'
    BY <1>1, LateChain DEF s3, AfterNarrator, AfterRules, AfterValidate, AfterExtract, Task
  <1> QED BY <1>1, <1>2, <1>3, <1>4, Unpublished, PipelineAssumption DEF local, s3, ddb

LEMMA InterruptRecord ==
    ASSUME TypeInv, ChecksInv, RecordInv, NEW e \in Exec, Interrupt(e)
    PROVE  Chain(e)' /\ Publishing(e)' /\ Recorded(RunOf[e])'
  <1>t. /\ state \in [Exec -> StateName] /\ step \in [Exec -> 0..2]
        /\ put \in [Exec -> SUBSET FindingId]
    BY DEF TypeInv, TypeOK
  <1>1. UNCHANGED <<manifest, s3, ddb>>
    BY DEF Interrupt, sfn
  <1>2. CASE Fail(e)
    <2>1. state'[e] = "FAILED"
      BY <1>2, <1>t DEF Fail, Goto
    <2>2. Chain(e)' /\ Publishing(e)'
      BY <2>1 DEF Chain, Publishing, Published, AfterNarrator, AfterRules,
                  AfterValidate, AfterExtract, Task
    <2>3. runRow[RunOf[e]] # Nil => manifest'[runRow[RunOf[e]].by] = manifest[runRow[RunOf[e]].by]
      BY <1>1
    <2>4. Recorded(RunOf[e])
      BY PipelineAssumption DEF RecordInv
    <2>5. Recorded(RunOf[e])'
      BY <1>1, <2>3, <2>4 DEF Recorded, RowAgrees, ItemsAgree, ReportAgrees, Succeeded,
                              s3, ddb
    <2> QED BY <2>2, <2>5
  <1>3. CASE /\ Repeat(e)
             /\ step' = [step EXCEPT ![e] = 0]
             /\ put' = [put EXCEPT ![e] = {}]
    <2>1. state' = state /\ state[e] \in Retried /\ step'[e] = 0 /\ put'[e] = {}
      BY <1>3, <1>t DEF Repeat
    <2>2. ~Published(e) /\ state[e] \notin {"Publish", "GeneratePdf", "Succeed"}
      BY <2>1 DEF Published, Retried
    <2>3. Chain(e)'
      BY <1>1, <2>1 DEF RecordInv, Chain, s3
    <2> QED BY <1>1, <2>1, <2>2, <2>3, Unpublished, PipelineAssumption DEF s3, ddb
  <1> QED BY <1>2, <1>3 DEF Interrupt

\* Reads and reviews, and no step at all, leave the record's inputs alone.
LEMMA SameRecord ==
    ASSUME RecordInv,
           UNCHANGED <<state, step, rows, manifest, put, validatedObj, findingsObj,
                       narrativeObj, reportObj, runRow, items>>
    PROVE  RecordInv'
  <1>1. ASSUME NEW e \in Exec PROVE Chain(e)' /\ Publishing(e)'
    BY DEF RecordInv, Chain, Publishing, Published, ListedIds
  <1>2. ASSUME NEW r \in Run PROVE Recorded(r)'
    BY DEF RecordInv, Recorded, RowAgrees, ItemsAgree, ReportAgrees, Succeeded
  <1> QED BY <1>1, <1>2 DEF RecordInv

-----------------------------------------------------------------------------
(* The row, the findings and the report.                                   *)

\* What Publish holds once it has read both objects.
LEMMA PublishHolds ==
    ASSUME TypeInv, ReadsInv, NEW e \in Exec, HasRead(e, "publish")
    PROVE  /\ reads[e]["publish"].findings = findingsObj[RunOf[e]]
           /\ reads[e]["publish"].narrative = narrativeObj[RunOf[e]]
           /\ findingsObj[RunOf[e]] \in Findings
  <1>1. /\ reads[e]["publish"].findings = findingsObj[RunOf[e]]
        /\ reads[e]["publish"].narrative = narrativeObj[RunOf[e]]
    BY DEF ReadsInv, ReadsCurrent, HasRead, Reader
  <1>2. findingsObj[RunOf[e]] \in Findings \cup {Nil}
    BY PipelineAssumption DEF TypeInv, TypeOK
  <1> QED BY <1>1, <1>2 DEF HasRead

LEMMA PutRunRecord ==
    ASSUME TypeInv, ChecksInv, ReadsInv, RecordInv, NEW e \in Exec, PutRun(e)
    PROVE  Chain(e)' /\ Publishing(e)' /\ Recorded(RunOf[e])'
  <1> DEFINE r == RunOf[e]
  <1>1. /\ state[e] = "Publish" /\ step[e] = 0 /\ HasRead(e, "publish")
        /\ UNCHANGED <<state, manifest, put, s3, items>>
    BY DEF PutRun, sfn
  <1>2. r \in Run /\ step'[e] = 1
    BY PipelineAssumption DEF PutRun, TypeInv, TypeOK
  <1>3. /\ runRow'[r].by = e /\ runRow'[r].hash = manifest[e]
        /\ runRow'[r].count = Count(findingsObj[r])
    BY <1>1, <1>2, PublishHolds DEF PutRun, TypeInv, TypeOK
  <1>4. Chain(e) /\ put[e] = {} /\ runRow[r] = Nil
    BY <1>1 DEF RecordInv, Publishing, Published
  <1>5. items[r] = {} /\ reportObj[r] = Nil
    BY <1>2, <1>4 DEF RecordInv, Recorded, ReportAgrees, ChecksInv, Row
  <1>6. Chain(e)'
    BY <1>1, LateChain DEF s3, AfterNarrator, AfterRules, AfterValidate, AfterExtract, Task
  <1>7. Publishing(e)'
    BY <1>1, <1>2, <1>4, <1>5 DEF Publishing, Published, ListedIds
  <1>8. /\ HashOf[validatedObj[r]] = manifest[e]
        /\ findingsObj[r] \in Evaluate[validatedObj[r]]
        /\ narrativeObj[r] \in AllTexts
    BY <1>1, <1>4 DEF Chain, AfterNarrator, AfterRules, AfterValidate, AfterExtract, Task
  <1>v. validatedObj[r] # Nil
    BY <1>1 DEF TypeInv, AllPresent, Present, AfterValidate, AfterExtract, Task
  <1>9. RowAgrees(r)'
    BY <1>1, <1>3, <1>8, <1>v DEF RowAgrees, s3
  <1>10. ItemsAgree(r)' /\ ReportAgrees(r)'
    BY <1>1, <1>5 DEF ItemsAgree, ReportAgrees, s3
  <1> QED BY <1>6, <1>7, <1>9, <1>10 DEF Recorded

\* In a succeeded run the narrative has a text for every finding: that is what
\* the reconciliation gate requires.
LEMMA AllNarrated ==
    ASSUME TypeInv, ChecksInv, ReadsInv, NEW r \in Run, Succeeded(r)
    PROVE  narrativeObj[r].cited = Ids(findingsObj[r])
  <1>1. GatePasses("reconciliation", findingsObj[r], narrativeObj[r])
    BY RowIsVerified DEF SucceededWasVerified, Gate
  <1> QED BY <1>1 DEF GatePasses, ReconciliationPasses

LEMMA PutItemRecord ==
    ASSUME TypeInv, ChecksInv, ReadsInv, RecordInv, NEW e \in Exec, PutSomeItem(e)
    PROVE  Chain(e)' /\ Publishing(e)' /\ Recorded(RunOf[e])'
  <1> DEFINE r == RunOf[e]
  <1>1. PICK id \in Ids(reads[e]["publish"].findings) \ put[e] : PutItem(e, id)
    BY DEF PutSomeItem
  <1>2. /\ state[e] = "Publish" /\ step[e] = 1
        /\ UNCHANGED <<state, step, manifest, s3, runRow>>
    BY <1>1 DEF PutSomeItem, PutItem, sfn
  <1>r. r \in Run
    BY PipelineAssumption
  <1>3. HasRead(e, "publish")
    BY <1>2 DEF TypeInv, AllPresent, Present
  <1>4. /\ id \in Ids(findingsObj[r]) /\ NewItem(e, id).id = id
        /\ NewItem(e, id).body = BodyOf(findingsObj[r], id)
        /\ NewItem(e, id).narrated = (id \in narrativeObj[r].cited)
    BY <1>1, <1>3, PublishHolds DEF NewItem
  <1>5. Chain(e) /\ Publishing(e) /\ Recorded(r)
    BY <1>r DEF RecordInv
  <1>6. put[e] = ListedIds(r)
    BY <1>2, <1>5 DEF Publishing
  <1>7. \A i \in items[r] : i.id # id
    BY <1>1, <1>6 DEF ListedIds
  <1>8. items'[r] = items[r] \cup {NewItem(e, id)}
    BY <1>1, <1>r, <1>7 DEF PutItem, TypeInv, TypeOK
  <1>9. put'[e] = put[e] \cup {id}
    BY <1>1 DEF PutItem, TypeInv, TypeOK
  <1>10. Chain(e)'
    BY <1>2, LateChain DEF s3, AfterNarrator, AfterRules, AfterValidate, AfterExtract, Task
  <1>11. Publishing(e)'
    <2>1. ListedIds(r)' = ListedIds(r) \cup {id}
      BY <1>4, <1>8 DEF ListedIds
    <2> QED BY <1>2, <1>6, <1>9, <2>1 DEF Publishing, Published
  <1>12. RowAgrees(r)' /\ ReportAgrees(r)'
    BY <1>2, <1>5 DEF Recorded, RowAgrees, ReportAgrees, s3
  <1>13. ItemsAgree(r)'
    <2>1. Succeeded(r) => NewItem(e, id).narrated
      BY <1>4, <1>r, AllNarrated
    <2> HIDE DEF r
    <2> QED BY <1>2, <1>4, <1>5, <1>7, <1>8, <2>1 DEF Recorded, ItemsAgree, Succeeded, s3
  <1> QED BY <1>10, <1>11, <1>12, <1>13 DEF Recorded

LEMMA EndPublishRecord ==
    ASSUME TypeInv, ChecksInv, ReadsInv, RecordInv, NEW e \in Exec, EndPublish(e)
    PROVE  Chain(e)' /\ Publishing(e)' /\ Recorded(RunOf[e])'
  <1> DEFINE r == RunOf[e]
  <1>1. /\ state[e] = "Publish" /\ step[e] = 1
        /\ Ids(reads[e]["publish"].findings) \subseteq put[e]
        /\ UNCHANGED <<manifest, put, s3, runRow, items>>
    BY DEF EndPublish, sfn, ddb, Forget
  <1>2. \/ state'[e] = "GeneratePdf"
        \/ state'[e] = "Succeed" /\ r \notin Monthly
        \/ state'[e] = "FAILED"
    BY DEF EndPublish, Goto, Fail, TypeInv, TypeOK
  <1>r. r \in Run
    BY PipelineAssumption
  <1>3. HasRead(e, "publish")
    BY <1>1 DEF TypeInv, AllPresent, Present
  <1>4. Recorded(r) /\ put[e] = ListedIds(r) /\ runRow[r] # Nil
    BY <1>1, <1>r DEF RecordInv, Publishing, ChecksInv, Seen
  <1>5. ListedIds(r) = Ids(findingsObj[r])
    BY <1>1, <1>3, <1>4, PublishHolds DEF ListedIds, Recorded, ItemsAgree
  <1>6. Chain(e)'
    BY <1>1, <1>2, LateChain DEF s3, AfterNarrator, AfterRules, AfterValidate,
                                 AfterExtract, Task, Ended
  <1>7. Publishing(e)'
    BY <1>1, <1>2, <1>4, <1>5 DEF Publishing, Published, ListedIds, s3
  <1>8. Recorded(r)'
    BY <1>1, <1>4 DEF Recorded, RowAgrees, ItemsAgree, ReportAgrees, Succeeded, s3
  <1> QED BY <1>6, <1>7, <1>8

LEMMA PutReportRecord ==
    ASSUME Isolated, TypeInv, ChecksInv, ReadsInv, RecordInv, NEW e \in Exec,
           PutReport(e)
    PROVE  Chain(e)' /\ Publishing(e)' /\ Recorded(RunOf[e])'
  <1> DEFINE r == RunOf[e]
  <1>1. /\ state[e] = "GeneratePdf" /\ HasRead(e, "pdf")
        /\ UNCHANGED <<manifest, put, step, validatedObj, findingsObj, narrativeObj,
                       runRow, items>>
    BY DEF PutReport, sfn, local, ddb
  <1>2. state'[e] \in {"Succeed", "FAILED"}
    BY DEF PutReport, Goto, Fail, TypeInv, TypeOK
  <1>r. r \in Run
    BY PipelineAssumption
  <1>3. /\ reportObj'[r].hash = manifest[e]
        /\ reportObj'[r].findings = findingsObj[r]
        /\ reportObj'[r].narrative = narrativeObj[r]
    BY <1>1, <1>r DEF PutReport, TypeInv, TypeOK, ReadsInv, ReadsCurrent, HasRead, Reader
  <1>4. reportObj'[r] # Nil
    <2> DEFINE report == [by |-> e, hash |-> manifest[e],
                          findings |-> reads[e]["pdf"].findings,
                          narrative |-> reads[e]["pdf"].narrative]
    <2>1. manifest[e] \in Hash
      BY <1>1 DEF TypeInv, TypeOK, AllPresent, Present, AfterValidate, AfterExtract, Task
    <2>2. reads[e]["pdf"] \in ReadsType
      BY DEF TypeInv, TypeOK, Reader
    <2>3. report \in Report
      BY <1>1, <2>1, <2>2 DEF Report, ReadsType, HasRead
    <2>4. reportObj'[r] = report
      BY <1>r DEF PutReport, TypeInv, TypeOK
    <2> QED BY <2>3, <2>4, RowAssumption
  <1>5. Recorded(r) /\ runRow[r] # Nil /\ ListedIds(r) = Ids(findingsObj[r])
    BY <1>1, <1>r DEF RecordInv, Publishing
  <1>6. runRow[r].hash = manifest[e]
    <2>1. runRow[r].by \in Exec /\ RunOf[runRow[r].by] = r
      BY <1>5, <1>r DEF ChecksInv, Row, TypeInv, TypeOK, RunRow
    <2>2. runRow[r].by = e
      BY <2>1 DEF Isolated
    <2> QED BY <1>5, <2>2 DEF Recorded, RowAgrees
  <1>7. Chain(e)'
    BY <1>1, <1>2, LateChain DEF AfterNarrator, AfterRules, AfterValidate, AfterExtract,
                                 Task, Ended
  <1>8. Publishing(e)'
    BY <1>1, <1>2, <1>4, <1>5 DEF Publishing, Published, ListedIds
  <1>9. Recorded(r)'
    BY <1>1, <1>3, <1>5, <1>6 DEF Recorded, RowAgrees, ItemsAgree, ReportAgrees, Succeeded
  <1> QED BY <1>7, <1>8, <1>9

-----------------------------------------------------------------------------
(* A reviewer's step.                                                      *)

\* One item is replaced by the same item with a decision.
Signed(i, d) == [i EXCEPT !.decision = d]
Reviewed(r, i, d) ==
    /\ i \in items[r] /\ d \in Decision
    /\ items' = [items EXCEPT ![r] = (@ \ {i}) \cup {Signed(i, d)}]

LEMMA ReviewedItem ==
    ASSUME TypeInv, NEW r \in Run, NEW i, NEW d, Reviewed(r, i, d)
    PROVE  /\ items'[r] = (items[r] \ {i}) \cup {Signed(i, d)}
           /\ \A q \in Run \ {r} : items'[q] = items[q]
           /\ Signed(i, d).id = i.id /\ Signed(i, d).body = i.body
           /\ Signed(i, d).narrated = i.narrated /\ Signed(i, d).decision = d
  <1>1. items \in [Run -> SUBSET Item]
    BY DEF TypeInv, TypeOK
  <1>2. i \in Item
    BY <1>1 DEF Reviewed
  <1> QED BY <1>1, <1>2 DEF Reviewed, Signed, Item

LEMMA ReviewRecord ==
    ASSUME TypeInv, RecordInv, NEW r \in Run, Review(r)
    PROVE  RecordInv'
  <1>1. PICK i, d : Reviewed(r, i, d)
    BY DEF Review, Reviewed, Signed
  <1> DEFINE j == Signed(i, d)
  <1>2. /\ items'[r] = (items[r] \ {i}) \cup {j}
        /\ \A q \in Run \ {r} : items'[q] = items[q]
        /\ j.id = i.id /\ j.body = i.body /\ j.narrated = i.narrated
    BY <1>1, ReviewedItem
  <1>i. i \in items[r]
    BY <1>1 DEF Reviewed
  <1> HIDE DEF j
  <1>3. UNCHANGED <<state, step, rows, manifest, put, s3, runRow>>
    BY DEF Review, sfn, local
  <1>4. \A q \in Run : ListedIds(q)' = ListedIds(q)
    <2>1. ListedIds(r)' = ListedIds(r)
      BY <1>2, <1>i DEF ListedIds
    <2> QED BY <1>2, <2>1 DEF ListedIds
  <1>5. ASSUME NEW e \in Exec PROVE Chain(e)' /\ Publishing(e)'
    <2>1. RunOf[e] \in Run
      BY PipelineAssumption
    <2>2. Chain(e) /\ Publishing(e)
      BY DEF RecordInv
    <2> QED BY <1>3, <1>4, <2>1, <2>2 DEF Chain, Publishing, Published, s3
  <1>6. ASSUME NEW q \in Run PROVE Recorded(q)'
    <2>1. Recorded(q)
      BY DEF RecordInv
    <2>2. RowAgrees(q)' /\ ReportAgrees(q)'
      BY <1>3, <2>1 DEF Recorded, RowAgrees, ReportAgrees, s3
    <2>3. CASE q # r
      BY <1>2, <1>3, <2>1, <2>2, <2>3 DEF Recorded, ItemsAgree, Succeeded, s3
    <2>4. CASE q = r
      BY <1>2, <1>i, <1>3, <2>1, <2>2, <2>4 DEF Recorded, ItemsAgree, Succeeded, s3
    <2> QED BY <2>3, <2>4
  <1> QED BY <1>5, <1>6 DEF RecordInv

-----------------------------------------------------------------------------
LEMMA InitRecord == Init => RecordInv
  <1> SUFFICES ASSUME Init PROVE RecordInv
    OBVIOUS
  <1> USE PipelineAssumption DEF Init
  <1>1. ASSUME NEW e \in Exec PROVE Chain(e) /\ Publishing(e)
    BY DEF Chain, Publishing, AfterNarrator, AfterRules, AfterValidate, AfterExtract,
           Task
  <1>2. ASSUME NEW r \in Run PROVE Recorded(r)
    BY DEF Recorded, RowAgrees, ItemsAgree, ReportAgrees
  <1> QED BY <1>1, <1>2 DEF RecordInv

LEMMA NextRecord ==
    ASSUME Isolated
    PROVE  TypeInv /\ ChecksInv /\ ReadsInv /\ RecordInv /\ [Next]_vars => RecordInv'
  <1> SUFFICES ASSUME TypeInv, ChecksInv, ReadsInv, RecordInv, [Next]_vars
               PROVE  RecordInv'
    OBVIOUS
  <1>1. ASSUME NEW e \in Exec, Step(e) PROVE RecordInv'
    <2>1. CASE \E k \in Reader : ReadFindings(e, k) \/ ReadNarrative(e, k)
      <3>1. UNCHANGED <<state, step, rows, manifest, put, s3, runRow, items>>
        BY <2>1 DEF ReadFindings, ReadNarrative, sfn, ddb
      <3> QED BY <3>1, SameRecord DEF s3
    <2>2. CASE ~\E k \in Reader : ReadFindings(e, k) \/ ReadNarrative(e, k)
      <3>1. Chain(e)' /\ Publishing(e)' /\ Recorded(RunOf[e])'
        BY <1>1, <2>2, EarlyRecord, VerdictRecord, InterruptRecord, PutRunRecord,
           PutItemRecord, EndPublishRecord, PutReportRecord DEF Step, Progress, Early
      <3> QED BY <1>1, <3>1, OthersRecorded
    <2> QED BY <2>1, <2>2
  <1>2. ASSUME NEW r \in Run, Review(r) PROVE RecordInv'
    BY <1>2, ReviewRecord
  <1>3. CASE UNCHANGED vars
    BY <1>3, SameRecord DEF vars, sfn, local, s3, ddb
  <1> QED BY <1>1, <1>2, <1>3 DEF Next

-----------------------------------------------------------------------------
(* The theorems.                                                           *)

AllInv == TypeInv /\ ChecksInv /\ ReadsInv /\ RecordInv

LEMMA AlwaysAllInv ==
    ASSUME Isolated
    PROVE  Spec => []AllInv
  <1> USE DEF AllInv
  <1> QED BY InitTypeInv, NextTypeInv, InitChecks, NextChecks, InitReads, NextReads,
             InitRecord, NextRecord, PTL DEF Spec

\* Where executions do not share run ids, the hash in a run's row is the hash of
\* rows on which the rules raise the very findings that S3 has for the run.
THEOREM HashCovers ==
    ASSUME Isolated
    PROVE  Spec => []HashCoversFindings
  <1>1. AllInv => HashCoversFindings
    <2> SUFFICES ASSUME AllInv, NEW r \in Run, runRow[r] # Nil
                 PROVE  \E s \in Snapshot : /\ HashOf[s] = runRow[r].hash
                                            /\ findingsObj[r] \in Evaluate[s]
      BY DEF HashCoversFindings
    <2>1. /\ runRow[r].hash = HashOf[validatedObj[r]]
          /\ findingsObj[r] \in Evaluate[validatedObj[r]]
      BY DEF AllInv, RecordInv, Recorded, RowAgrees
    <2>2. validatedObj[r] \in Snapshot
      BY DEF AllInv, TypeInv, TypeOK, RecordInv, Recorded, RowAgrees
    <2> QED BY <2>1, <2>2
  <1> QED BY <1>1, AlwaysAllInv, PTL

\* The items of a run are as many as their ids, for no two share one.
LEMMA ItemsAreIds ==
    ASSUME TypeInv, RecordInv, NEW r \in Run, findingsObj[r] \in Findings,
           ListedIds(r) = Ids(findingsObj[r])
    PROVE  /\ {[id |-> i.id, body |-> i.body] : i \in items[r]} =
                 {[id |-> id, body |-> BodyOf(findingsObj[r], id)] :
                     id \in Ids(findingsObj[r])}
           /\ Cardinality(items[r]) = Count(findingsObj[r])
  <1>1. ItemsAgree(r)
    BY DEF RecordInv, Recorded
  <1>2. {[id |-> i.id, body |-> i.body] : i \in items[r]} =
           {[id |-> id, body |-> BodyOf(findingsObj[r], id)] :
               id \in Ids(findingsObj[r])}
    BY <1>1 DEF ItemsAgree, ListedIds
  <1>3. Cardinality(items[r]) = Cardinality(Ids(findingsObj[r]))
    <2> DEFINE f == [i \in items[r] |-> i.id]
    <2>1. f \in Injection(items[r], Ids(findingsObj[r]))
      BY <1>1 DEF ItemsAgree, Injection, IsInjective
    <2>2. f \in Surjection(items[r], Ids(findingsObj[r]))
      BY <1>1 DEF ItemsAgree, ListedIds, Surjection
    <2>3. IsFiniteSet(Ids(findingsObj[r]))
      BY IdsFinite
    <2> QED BY <2>1, <2>2, <2>3, FS_Injection
  <1> QED BY <1>2, <1>3 DEF Count

\* Where executions do not share run ids: once Publish has answered, the
\* findings table lists the findings of the run and no others, findings_count
\* of them, and in a succeeded run each with the narrative's text for it.
THEOREM PublishIsComplete ==
    ASSUME Isolated
    PROVE  Spec => []CompleteWhenPublished
  <1>1. AllInv => CompleteWhenPublished
    <2> SUFFICES ASSUME AllInv, NEW e \in Exec, state[e] \in {"GeneratePdf", "Succeed"}
                 PROVE  LET r == RunOf[e]
                        IN  /\ {[id |-> i.id, body |-> i.body] : i \in items[r]} =
                                  {[id |-> id, body |-> BodyOf(findingsObj[r], id)] :
                                      id \in Ids(findingsObj[r])}
                            /\ runRow[r].count = Cardinality(items[r])
                            /\ Succeeded(r) => \A i \in items[r] : i.narrated
      BY DEF CompleteWhenPublished
    <2> DEFINE r == RunOf[e]
    <2>1. r \in Run
      BY PipelineAssumption
    <2>2. runRow[r] # Nil /\ ListedIds(r) = Ids(findingsObj[r])
      BY DEF AllInv, RecordInv, Publishing
    <2>3. findingsObj[r] \in Findings
      BY <2>1, <2>2 DEF AllInv, ChecksInv, Row, TypeInv, TypeOK
    <2>4. runRow[r].count = Count(findingsObj[r])
      BY <2>1, <2>2 DEF AllInv, RecordInv, Recorded, RowAgrees
    <2>5. Succeeded(r) => \A i \in items[r] : i.narrated
      BY <2>1 DEF AllInv, RecordInv, Recorded, ItemsAgree
    <2> HIDE DEF r
    <2>6. /\ {[id |-> i.id, body |-> i.body] : i \in items[r]} =
                {[id |-> id, body |-> BodyOf(findingsObj[r], id)] :
                    id \in Ids(findingsObj[r])}
          /\ Cardinality(items[r]) = Count(findingsObj[r])
      BY <2>1, <2>2, <2>3, ItemsAreIds DEF AllInv
    <2> QED BY <2>4, <2>5, <2>6 DEF r
  <1> QED BY <1>1, AlwaysAllInv, PTL

\* Where executions do not share run ids, a finished monthly execution has its
\* report, and a report attests what was published: the row's hash, the
\* findings and the narrative.
THEOREM ReportAttests ==
    ASSUME Isolated
    PROVE  Spec => []ReportAttestsRun
  <1>1. AllInv => ReportAttestsRun
    BY DEF AllInv, RecordInv, Publishing, Recorded, ReportAgrees, ReportAttestsRun
  <1> QED BY <1>1, AlwaysAllInv, PTL

\* Where executions do not share run ids, no step drops a reviewer's decision:
\* Publish puts an item only while its finding is not listed yet.
THEOREM DecisionsKept ==
    ASSUME Isolated
    PROVE  Spec => DecisionsSurvive
  <1> DEFINE Survives(r, i) == \E j \in items'[r] :
                j.id = i.id /\ j.body = i.body /\ j.decision # Nil
             Kept == \A r \in Run : \A i \in items[r] : i.decision # Nil => Survives(r, i)
  <1>1. AllInv /\ [Next]_vars => Kept
    <2> SUFFICES ASSUME AllInv, [Next]_vars, NEW r \in Run, NEW i \in items[r],
                        i.decision # Nil
                 PROVE  Survives(r, i)
      OBVIOUS
    <2>1. CASE i \in items'[r]
      BY <2>1
    <2>2. ASSUME NEW e \in Exec, Step(e) PROVE i \in items'[r]
      <3>1. CASE PutSomeItem(e)
        <4>1. PICK id \in Ids(reads[e]["publish"].findings) \ put[e] : PutItem(e, id)
          BY <3>1 DEF PutSomeItem
        <4>2. put[e] = ListedIds(RunOf[e])
          BY <3>1 DEF PutSomeItem, AllInv, RecordInv, Publishing
        <4>3. RunOf[e] = r => i.id # id
          BY <4>1, <4>2 DEF ListedIds
        <4> QED BY <4>1, <4>3 DEF PutItem, AllInv, TypeInv, TypeOK
      <3>2. CASE ~PutSomeItem(e)
        <4>1. items' = items
          BY <2>2, <3>2 DEF Step, Progress, sfn, local, s3, ddb, Start, Interrupt,
             ReadServers, PutCsv, PutManifest, ReadCsv, ReadManifest, RejectManifest,
             PutValidated, ReadValidated, PutFindings, GetFinding, PutNarrative,
             ReadFindings, ReadNarrative, MergeGates, JudgeNarrative, ProbeNarrative,
             MarkQuarantined, PutRun, EndPublish, PutReport
        <4> QED BY <4>1
      <3> QED BY <3>1, <3>2
    <2>3. ASSUME NEW q \in Run, Review(q) PROVE Survives(r, i)
      <3>1. PICK k, d : Reviewed(q, k, d)
        BY <2>3 DEF Review, Reviewed, Signed
      <3>2. /\ items'[q] = (items[q] \ {k}) \cup {Signed(k, d)}
            /\ \A p \in Run \ {q} : items'[p] = items[p]
            /\ Signed(k, d).id = k.id /\ Signed(k, d).body = k.body
            /\ Signed(k, d).decision = d
        BY <3>1, ReviewedItem DEF AllInv
      <3>3. d # Nil
        BY <3>1, NilAssumption DEF Reviewed
      <3>4. CASE q # r \/ k # i
        BY <3>2, <3>4
      <3>5. CASE q = r /\ k = i
        BY <3>2, <3>3, <3>5
      <3> QED BY <3>4, <3>5
    <2>4. CASE UNCHANGED vars
      BY <2>4 DEF vars, ddb
    <2> QED BY <2>1, <2>2, <2>3, <2>4 DEF Next
  <1>2. AllInv /\ [Next]_vars => [Kept]_vars
    BY <1>1
  <1> QED BY <1>2, AlwaysAllInv, PTL DEF Spec, DecisionsSurvive

-----------------------------------------------------------------------------
(* The refinement: under the mapping of PipelineRefinement every step of   *)
(* the pipeline is a step of AuditRun or changes nothing AuditRun sees.    *)

\* AuditRun reads a document and judges a narrative as Pipeline does.
LEMMA SameIds ==
    ASSUME NEW fs
    PROVE  Audit!Ids(fs) = Ids(fs)
  BY DEF Audit!Ids, Ids

LEMMA SameGates ==
    ASSUME NEW fs, NEW n, \A g \in Gate : GatePasses(g, fs, n)
    PROVE  Audit!Accepted(fs, n)
  <1>c. Audit!Cardinality(Ids(fs)) = Cardinality(Ids(fs))
    BY Zenon DEF Audit!Cardinality, Cardinality
  <1>1. Audit!Ids(fs) = Ids(fs) /\ Audit!Count(fs) = Count(fs)
    BY <1>c, SameIds DEF Audit!Count, Count
  <1>2. Audit!Bodies(fs) = Bodies(fs)
    BY <1>1 DEF Audit!Bodies, Bodies, Audit!BodyOf, BodyOf
  <1>3. Audit!CitationPasses(fs, n) <=> CitationPasses(fs, n)
    BY <1>1 DEF Audit!CitationPasses, CitationPasses
  <1>4. Audit!ReconciliationPasses(fs, n) <=> ReconciliationPasses(fs, n)
    BY <1>1 DEF Audit!ReconciliationPasses, ReconciliationPasses
  <1>5. Audit!EntitiesGrounded(fs, n) <=> EntitiesGrounded(fs, n)
    BY <1>2 DEF Audit!EntitiesGrounded, EntitiesGrounded, Audit!QuotedPrincipals,
                QuotedPrincipals, Audit!QuotedDatabases, QuotedDatabases
  <1>6. Audit!FalselyDenied(fs, n) = FalselyDenied(fs, n)
    BY <1>2 DEF Audit!FalselyDenied, FalselyDenied
  <1>7. Audit!GroundingPasses(fs, n) <=> GroundingPasses(fs, n)
    BY <1>5, <1>6 DEF Audit!GroundingPasses, GroundingPasses
  <1> QED BY <1>3, <1>4, <1>7 DEF Audit!Accepted, Audit!Gate, Gate, Audit!GatePasses,
                                  GatePasses

\* What a step of e does to AuditRun's variables follows from e and its run.
LEMMA PhaseMoves ==
    ASSUME NEW e \in Exec, Aside(e), NEW from, NEW to, PhaseOf(e) \in from,
           PhaseOf(e)' = to
    PROVE  Audit!Move(e, from, to)
  <1>1. \A d \in Exec \ {e} : PhaseOf(d)' = PhaseOf(d)
    BY DEF Aside, PhaseOf
  <1> QED BY <1>1 DEF Audit!Move

LEMMA PhaseStays ==
    ASSUME NEW e \in Exec, Aside(e), PhaseOf(e)' = PhaseOf(e)
    PROVE  [d \in Exec |-> PhaseOf(d)]' = [d \in Exec |-> PhaseOf(d)]
  <1>1. \A d \in Exec \ {e} : PhaseOf(d)' = PhaseOf(d)
    BY DEF Aside, PhaseOf
  <1> QED BY <1>1

LEMMA LedgerStays ==
    ASSUME NEW e \in Exec, Aside(e), EntryOf(RunOf[e])' = EntryOf(RunOf[e])
    PROVE  [r \in Run |-> EntryOf(r)]' = [r \in Run |-> EntryOf(r)]
  <1>1. \A r \in Run \ {RunOf[e]} : EntryOf(r)' = EntryOf(r)
    BY DEF Aside, EntryOf
  <1> QED BY <1>1

LEMMA ListedStays ==
    ASSUME NEW e \in Exec, Aside(e), ListedIds(RunOf[e])' = ListedIds(RunOf[e])
    PROVE  [r \in Run |-> {i.id : i \in items[r]}]' = [r \in Run |-> {i.id : i \in items[r]}]
  <1>1. \A r \in Run \ {RunOf[e]} : ListedIds(r)' = ListedIds(r)
    BY DEF Aside, ListedIds
  <1> QED BY <1>1 DEF ListedIds

\* A step of e that neither records nor lists anything.
LEMMA QuietStep ==
    ASSUME NEW e \in Exec, Aside(e), EntryOf(RunOf[e])' = EntryOf(RunOf[e]),
           ListedIds(RunOf[e])' = ListedIds(RunOf[e]),
           \/ PhaseOf(e)' = PhaseOf(e)
           \/ PhaseOf(e) = "idle" /\ PhaseOf(e)' = "working"
           \/ PhaseOf(e) = "closed" /\ PhaseOf(e)' = "done"
           \/ PhaseOf(e) \in {"working", "recorded", "closed"} /\ PhaseOf(e)' = "failed"
    PROVE  [Audit!Next]_(Audit!auditVars)
  <1>1. UNCHANGED <<[r \in Run |-> EntryOf(r)], [r \in Run |-> {i.id : i \in items[r]}]>>
    BY LedgerStays, ListedStays
  <1>2. CASE PhaseOf(e)' = PhaseOf(e)
    BY <1>1, <1>2, PhaseStays DEF Audit!auditVars
  <1>3. CASE PhaseOf(e) = "idle" /\ PhaseOf(e)' = "working"
    <2>1. Audit!Move(e, {"idle"}, "working")
      BY <1>3, PhaseMoves
    <2> QED BY <1>1, <2>1 DEF Audit!Begin, Audit!Next
  <1>4. CASE PhaseOf(e) = "closed" /\ PhaseOf(e)' = "done"
    <2>1. Audit!Move(e, {"closed"}, "done")
      BY <1>4, PhaseMoves
    <2> QED BY <1>1, <2>1 DEF Audit!Attest, Audit!Next
  <1>5. CASE PhaseOf(e) \in {"working", "recorded", "closed"} /\ PhaseOf(e)' = "failed"
    <2>1. Audit!Move(e, {"working", "recorded", "closed"}, "failed")
      BY <1>5, PhaseMoves
    <2> QED BY <1>1, <2>1 DEF Audit!GiveUp, Audit!Next
  <1> QED BY <1>2, <1>3, <1>4, <1>5

LEMMA EarlySim ==
    ASSUME AllInv, NEW e \in Exec, Early(e), Aside(e)
    PROVE  [Audit!Next]_(Audit!auditVars)
  <1>1. /\ state[e] \in BeforeGates /\ UNCHANGED <<runRow, items>>
        /\ state'[e] \in BeforeGates \cup {"GatesParallel", "FAILED"}
    BY EarlyStep DEF AllInv
  <1>2. runRow[RunOf[e]] = Nil
    BY <1>1 DEF AllInv, RecordInv, Publishing, Published, BeforeGates
  <1>3. EntryOf(RunOf[e])' = EntryOf(RunOf[e]) /\ ListedIds(RunOf[e])' = ListedIds(RunOf[e])
    BY <1>1, <1>2 DEF EntryOf, ListedIds
  <1>4. state[e] = "NotStarted" => state'[e] = "ExtractUar"
    BY DEF Early, AllInv, TypeInv, TypeOK, Goto, Start, ReadServers, PutCsv,
           PutManifest, ReadCsv, ReadManifest, RejectManifest, PutValidated,
           ReadValidated, PutFindings, GetFinding, PutNarrative
  <1>5. state[e] # "NotStarted" => state'[e] # "NotStarted"
    BY DEF Early, AllInv, TypeInv, TypeOK, Goto, Repeat, Fail, Finish, sfn, Start,
           ReadServers, PutCsv, PutManifest, ReadCsv, ReadManifest, RejectManifest,
           PutValidated, ReadValidated, PutFindings, GetFinding, PutNarrative
  <1>6. /\ PhaseOf(e) = (IF state[e] = "NotStarted" THEN "idle" ELSE "working")
        /\ PhaseOf(e)' = (IF state'[e] = "FAILED" THEN "failed" ELSE
                          IF state'[e] = "NotStarted" THEN "idle" ELSE "working")
    BY <1>1 DEF PhaseOf, BeforeGates
  <1> QED BY <1>3, <1>4, <1>5, <1>6, QuietStep

LEMMA VerdictSim ==
    ASSUME AllInv, NEW e \in Exec, Aside(e),
           MergeGates(e) \/ JudgeNarrative(e) \/ ProbeNarrative(e) \/ MarkQuarantined(e)
    PROVE  [Audit!Next]_(Audit!auditVars)
  <1>1. /\ UNCHANGED <<step, s3, ddb>>
        /\ state[e] \in {"GatesParallel", "Judge", "AdversarialProbe", "MarkQuarantined"}
        /\ state'[e] \in {"Judge", "AdversarialProbe", "Publish", "MarkQuarantined"}
    BY DEF AllInv, TypeInv, TypeOK, MergeGates, JudgeNarrative, ProbeNarrative,
           MarkQuarantined, Goto, local
  <1>2. step[e] = 0
    BY <1>1 DEF AllInv, TypeInv, AllPresent, Present, AfterRules, AfterValidate,
                AfterExtract, Task
  <1>3. PhaseOf(e) = "working" /\ PhaseOf(e)' = "working"
    BY <1>1, <1>2 DEF PhaseOf
  <1>4. EntryOf(RunOf[e])' = EntryOf(RunOf[e]) /\ ListedIds(RunOf[e])' = ListedIds(RunOf[e])
    BY <1>1 DEF EntryOf, ListedIds, s3, ddb
  <1> QED BY <1>3, <1>4, QuietStep

LEMMA InterruptSim ==
    ASSUME AllInv, NEW e \in Exec, Aside(e), Interrupt(e)
    PROVE  [Audit!Next]_(Audit!auditVars)
  <1>1. UNCHANGED <<s3, ddb>> /\ state[e] \in Task
    BY DEF Interrupt
  <1>2. EntryOf(RunOf[e])' = EntryOf(RunOf[e]) /\ ListedIds(RunOf[e])' = ListedIds(RunOf[e])
    BY <1>1 DEF EntryOf, ListedIds, s3, ddb
  <1>3. CASE Fail(e)
    <2>1. PhaseOf(e) \in {"working", "recorded", "closed"}
      BY <1>1 DEF PhaseOf, Task
    <2>2. state'[e] = "FAILED"
      BY <1>3 DEF Fail, Goto, AllInv, TypeInv, TypeOK
    <2>3. PhaseOf(e)' = "failed"
      BY <2>2 DEF PhaseOf
    <2> QED BY <1>2, <2>1, <2>3, QuietStep
  <1>4. CASE Repeat(e)
    <2>1. state' = state /\ state[e] \in Retried
      BY <1>4 DEF Repeat
    <2>2. PhaseOf(e) = "working" /\ PhaseOf(e)' = "working"
      BY <2>1 DEF PhaseOf, Retried
    <2> QED BY <1>2, <2>2, QuietStep
  <1> QED BY <1>3, <1>4 DEF Interrupt

\* Putting the row is AuditRun's Record: the run had none, its documents are
\* ones the rules and the agent may write, and "succeeded" is said truthfully.
LEMMA PutRunSim ==
    ASSUME AllInv, AllInv', NEW e \in Exec, Aside(e), PutRun(e)
    PROVE  [Audit!Next]_(Audit!auditVars)
  <1> DEFINE r == RunOf[e]
             entry == EntryOf(r)'
  <1>1. /\ state[e] = "Publish" /\ step[e] = 0
        /\ UNCHANGED <<state, s3, items>>
    BY DEF PutRun
  <1>2. r \in Run /\ step'[e] = 1
    BY PipelineAssumption DEF PutRun, AllInv, TypeInv, TypeOK
  <1>3. runRow[r] = Nil
    BY <1>1 DEF AllInv, RecordInv, Publishing, Published
  <1>4. runRow'[r] # Nil
    BY <1>1, <1>2 DEF AllInv, ChecksInv, Seen
  <1>5. Audit!Move(e, {"working"}, "recorded")
    <2>1. PhaseOf(e) = "working" /\ PhaseOf(e)' = "recorded"
      BY <1>1, <1>2 DEF PhaseOf
    <2> QED BY <2>1, PhaseMoves
  <1>6. [q \in Run |-> EntryOf(q)][r] = Nil
    BY <1>2, <1>3 DEF EntryOf
  <1>7. entry = [findings |-> findingsObj'[r], narrative |-> narrativeObj'[r],
                 status |-> runRow'[r].status]
    BY <1>4 DEF EntryOf
  <1>8. entry \in Audit!Entry
    <2>1. RowAgrees(r)' /\ runRow'[r] \in RunRow /\ validatedObj'[r] \in Snapshot \cup {Nil}
      BY <1>2, <1>4 DEF AllInv, RecordInv, Recorded, TypeInv, TypeOK
    <2>2. findingsObj'[r] \in AllDocuments /\ narrativeObj'[r] \in AllTexts
      BY <1>4, <2>1 DEF RowAgrees, AllDocuments
    <2>3. runRow'[r].status \in {"succeeded", "quarantined"}
      BY <2>1 DEF RunRow
    <2> QED BY <1>7, <2>2, <2>3 DEF Audit!Entry
  <1>9. entry.status = "succeeded" => Audit!Accepted(entry.findings, entry.narrative)
    <2> SUFFICES ASSUME entry.status = "succeeded"
                 PROVE  Audit!Accepted(entry.findings, entry.narrative)
      OBVIOUS
    <2>1. Succeeded(r)'
      BY <1>4, <1>7 DEF Succeeded
    <2>2. SucceededWasVerified'
      BY RowIsVerified, PTL DEF AllInv
    <2>3. \A g \in Gate : GatePasses(g, findingsObj'[r], narrativeObj'[r])
      BY <1>2, <2>1, <2>2 DEF SucceededWasVerified
    <2> QED BY <1>7, <2>3, SameGates
  <1>10. [q \in Run |-> EntryOf(q)]' =
            [[q \in Run |-> EntryOf(q)] EXCEPT ![r] = entry]
    <2>1. \A q \in Run \ {r} : EntryOf(q)' = EntryOf(q)
      BY DEF Aside, EntryOf
    <2> QED BY <2>1
  <1>11. [q \in Run |-> {i.id : i \in items[q]}]' = [q \in Run |-> {i.id : i \in items[q]}]
    BY <1>1
  <1>12. Audit!Record(e)
    BY <1>5, <1>6, <1>8, <1>9, <1>10, <1>11 DEF Audit!Record
  <1> QED BY <1>12 DEF Audit!Next

LEMMA PutItemSim ==
    ASSUME AllInv, AllInv', NEW e \in Exec, Aside(e), PutSomeItem(e)
    PROVE  [Audit!Next]_(Audit!auditVars)
  <1> DEFINE r == RunOf[e]
  <1>1. PICK id \in Ids(reads[e]["publish"].findings) \ put[e] : PutItem(e, id)
    BY DEF PutSomeItem
  <1>2. /\ state[e] = "Publish" /\ step[e] = 1
        /\ UNCHANGED <<state, step, s3, runRow>>
    BY <1>1 DEF PutSomeItem, PutItem
  <1>r. r \in Run
    BY PipelineAssumption
  <1>3. reads[e]["publish"].findings = findingsObj[r]
    BY <1>2, PublishHolds DEF AllInv, TypeInv, AllPresent, Present
  <1>4. put[e] = ListedIds(r) /\ runRow[r] # Nil
    BY <1>2 DEF AllInv, RecordInv, Publishing, ChecksInv, Seen
  <1>5. EntryOf(r).findings = findingsObj[r]
    BY <1>4 DEF EntryOf
  <1>6. ListedIds(r)' = ListedIds(r) \cup {id}
    <2>1. put'[e] = put[e] \cup {id}
      BY <1>1 DEF PutItem, AllInv, TypeInv, TypeOK
    <2>2. put'[e] = ListedIds(r)'
      BY <1>2 DEF AllInv, RecordInv, Publishing
    <2> QED BY <1>4, <2>1, <2>2
  <1>7. PhaseOf(e) = "recorded" /\ PhaseOf(e)' = PhaseOf(e)
    BY <1>2 DEF PhaseOf
  <1>8. [d \in Exec |-> PhaseOf(d)]' = [d \in Exec |-> PhaseOf(d)]
    BY <1>7, PhaseStays
  <1>9. [q \in Run |-> EntryOf(q)]' = [q \in Run |-> EntryOf(q)]
    <2>1. EntryOf(r)' = EntryOf(r)
      BY <1>2 DEF EntryOf, s3
    <2> QED BY <2>1, LedgerStays
  <1>10. [q \in Run |-> {i.id : i \in items[q]}]' =
           [[q \in Run |-> {i.id : i \in items[q]}] EXCEPT
               ![r] = {i.id : i \in items[r]} \cup {id}]
    <2>1. \A q \in Run \ {r} : ListedIds(q)' = ListedIds(q)
      BY DEF Aside, ListedIds
    <2> QED BY <1>r, <1>6, <2>1 DEF ListedIds
  <1>11. id \in Audit!Ids([q \in Run |-> EntryOf(q)][r].findings)
                  \ [q \in Run |-> {i.id : i \in items[q]}][r]
    BY <1>r, <1>1, <1>3, <1>4, <1>5, SameIds DEF ListedIds
  <1>12. Audit!List(e)
    BY <1>r, <1>7, <1>8, <1>9, <1>10, <1>11 DEF Audit!List
  <1> QED BY <1>12 DEF Audit!Next

LEMMA EndPublishSim ==
    ASSUME AllInv, AllInv', NEW e \in Exec, Aside(e), EndPublish(e)
    PROVE  [Audit!Next]_(Audit!auditVars)
  <1> DEFINE r == RunOf[e]
  <1>1. /\ state[e] = "Publish" /\ step[e] = 1
        /\ UNCHANGED <<s3, ddb>>
    BY DEF EndPublish
  <1>2. state'[e] \in {"GeneratePdf", "Succeed", "FAILED"}
    BY DEF EndPublish, Goto, Fail, AllInv, TypeInv, TypeOK
  <1>r. r \in Run
    BY PipelineAssumption
  <1>3. EntryOf(r)' = EntryOf(r) /\ ListedIds(r)' = ListedIds(r)
    BY <1>1 DEF EntryOf, ListedIds, s3, ddb
  <1>4. PhaseOf(e) = "recorded"
    BY <1>1 DEF PhaseOf
  <1>5. CASE state'[e] = "FAILED"
    <2>1. PhaseOf(e)' = "failed"
      BY <1>5 DEF PhaseOf
    <2> QED BY <1>3, <1>4, <2>1, QuietStep
  <1>6. CASE state'[e] \in {"GeneratePdf", "Succeed"}
    <2>1. \/ Audit!Move(e, {"recorded"}, "closed")
          \/ Audit!Move(e, {"recorded"}, "done")
      <3>1. PhaseOf(e)' = "closed" \/ PhaseOf(e)' = "done"
        BY <1>6 DEF PhaseOf
      <3> QED BY <1>4, <3>1, PhaseMoves
    <2>2. runRow'[r] # Nil /\ ListedIds(r)' = Ids(findingsObj'[r])
      BY <1>6 DEF AllInv, RecordInv, Publishing
    <2>3. runRow[r] # Nil /\ ListedIds(r) = Ids(findingsObj[r])
      BY <1>1, <1>3, <2>2 DEF s3, ddb
    <2>4. EntryOf(r).findings = findingsObj[r]
      BY <2>3 DEF EntryOf
    <2>5. [q \in Run |-> {i.id : i \in items[q]}][r] =
             Audit!Ids([q \in Run |-> EntryOf(q)][r].findings)
      BY <1>r, <2>3, <2>4, SameIds DEF ListedIds
    <2>6. Audit!Close(e)
      BY <1>3, <2>1, <2>5, LedgerStays, ListedStays DEF Audit!Close
    <2> QED BY <2>6 DEF Audit!Next
  <1> QED BY <1>2, <1>5, <1>6

LEMMA PutReportSim ==
    ASSUME AllInv, NEW e \in Exec, Aside(e), PutReport(e)
    PROVE  [Audit!Next]_(Audit!auditVars)
  <1>1. /\ state[e] = "GeneratePdf" /\ state'[e] \in {"Succeed", "FAILED"}
        /\ UNCHANGED <<findingsObj, narrativeObj, ddb>>
    BY DEF PutReport, Goto, Fail, AllInv, TypeInv, TypeOK
  <1>2. PhaseOf(e) = "closed" /\ PhaseOf(e)' \in {"done", "failed"}
    BY <1>1 DEF PhaseOf
  <1>3. EntryOf(RunOf[e])' = EntryOf(RunOf[e]) /\ ListedIds(RunOf[e])' = ListedIds(RunOf[e])
    BY <1>1 DEF EntryOf, ListedIds, ddb
  <1> QED BY <1>2, <1>3, QuietStep

LEMMA ReadSim ==
    ASSUME NEW e \in Exec, Aside(e), NEW k \in Reader,
           ReadFindings(e, k) \/ ReadNarrative(e, k)
    PROVE  [Audit!Next]_(Audit!auditVars)
  <1>1. UNCHANGED <<state, step, s3, ddb>>
    BY DEF ReadFindings, ReadNarrative
  <1>2. PhaseOf(e)' = PhaseOf(e)
    BY <1>1 DEF PhaseOf
  <1>3. EntryOf(RunOf[e])' = EntryOf(RunOf[e]) /\ ListedIds(RunOf[e])' = ListedIds(RunOf[e])
    BY <1>1 DEF EntryOf, ListedIds, s3, ddb
  <1> QED BY <1>2, <1>3, QuietStep

LEMMA ReviewSim ==
    ASSUME AllInv, NEW r \in Run, Review(r)
    PROVE  UNCHANGED Audit!auditVars
  <1>1. PICK i, d : Reviewed(r, i, d)
    BY DEF Review, Reviewed, Signed
  <1>2. /\ items'[r] = (items[r] \ {i}) \cup {Signed(i, d)}
        /\ \A q \in Run \ {r} : items'[q] = items[q]
        /\ Signed(i, d).id = i.id
    BY <1>1, ReviewedItem DEF AllInv
  <1>3. i \in items[r]
    BY <1>1 DEF Reviewed
  <1>4. UNCHANGED <<state, step, findingsObj, narrativeObj, runRow>>
    BY DEF Review, local, s3
  <1>5. \A q \in Run : ListedIds(q)' = ListedIds(q)
    <2>1. ListedIds(r)' = ListedIds(r)
      BY <1>2, <1>3 DEF ListedIds
    <2> QED BY <1>2, <2>1 DEF ListedIds
  <1>6. [q \in Run |-> {j.id : j \in items[q]}]' = [q \in Run |-> {j.id : j \in items[q]}]
    BY <1>5 DEF ListedIds
  <1>7. \A d1 \in Exec : PhaseOf(d1)' = PhaseOf(d1)
    BY <1>4 DEF PhaseOf
  <1>8. \A q \in Run : EntryOf(q)' = EntryOf(q)
    BY <1>4 DEF EntryOf
  <1> QED BY <1>6, <1>7, <1>8 DEF Audit!auditVars

LEMMA InitSim == Init => Audit!Init
  BY DEF Init, Audit!Init, PhaseOf, EntryOf

LEMMA NextSim == AllInv /\ AllInv' /\ [Next]_vars => [Audit!Next]_(Audit!auditVars)
  <1> SUFFICES ASSUME AllInv, AllInv', [Next]_vars
               PROVE  [Audit!Next]_(Audit!auditVars)
    OBVIOUS
  <1>1. ASSUME NEW e \in Exec, Step(e) PROVE [Audit!Next]_(Audit!auditVars)
    <2>1. Aside(e)
      BY <1>1, StepAside DEF AllInv
    <2>2. CASE \E k \in Reader : ReadFindings(e, k) \/ ReadNarrative(e, k)
      BY <2>1, <2>2, ReadSim
    <2>3. CASE ~\E k \in Reader : ReadFindings(e, k) \/ ReadNarrative(e, k)
      BY <1>1, <2>1, <2>3, EarlySim, VerdictSim, InterruptSim, PutRunSim, PutItemSim,
         EndPublishSim, PutReportSim DEF Step, Progress, Early
    <2> QED BY <2>2, <2>3
  <1>2. ASSUME NEW r \in Run, Review(r) PROVE [Audit!Next]_(Audit!auditVars)
    BY <1>2, ReviewSim
  <1>3. CASE UNCHANGED vars
    <2>1. \A d \in Exec : PhaseOf(d)' = PhaseOf(d)
      BY <1>3 DEF vars, local, PhaseOf
    <2>2. \A q \in Run : EntryOf(q)' = EntryOf(q)
      BY <1>3 DEF vars, s3, ddb, EntryOf
    <2> QED BY <1>3, <2>1, <2>2 DEF vars, ddb, Audit!auditVars
  <1> QED BY <1>1, <1>2, <1>3 DEF Next

\* Where executions do not share run ids, the pipeline is an AuditRun as far as
\* safety goes: each run is entered in the ledger once, truthfully and for good,
\* and exactly its findings are listed for the reviewers.
THEOREM Simulates ==
    ASSUME Isolated
    PROVE  Spec => Audit!Safety
  BY AlwaysAllInv, InitSim, NextSim, PTL DEF Spec, Audit!Safety

\* And where its executions end, as the fairness of Lambda and Step Functions
\* has them end on the instances TLC checks, it is all of an AuditRun.
THEOREM Implements ==
    ASSUME Isolated
    PROVE  Spec /\ EveryRunEnds => ImplementsAuditRun
  <1> DEFINE A(a) == state[a] # "NotStarted" ~> state[a] \in Ended
             B(a) == [e \in Exec |-> PhaseOf(e)][a] = "working" ~>
                     [e \in Exec |-> PhaseOf(e)][a] \in {"done", "failed"}
  <1>1. ASSUME NEW a \in Exec
        PROVE  A(a) => B(a)
    <2>1. [e \in Exec |-> PhaseOf(e)][a] = "working" => state[a] # "NotStarted"
      BY DEF PhaseOf
    <2>2. state[a] \in Ended => [e \in Exec |-> PhaseOf(e)][a] \in {"done", "failed"}
      BY DEF PhaseOf, Ended
    <2> QED BY <2>1, <2>2, PTL
  <1>2. EveryRunEnds => \A e \in Exec : A(e)
    BY PTL DEF EveryRunEnds
  <1>3. (\A e \in Exec : B(e)) => Audit!Ends
    BY PTL DEF Audit!Ends
  <1> HIDE DEF A, B
  <1>4. (\A e \in Exec : A(e)) => (\A e \in Exec : B(e))
    BY <1>1
  <1> QED BY <1>2, <1>3, <1>4, Simulates, PTL DEF ImplementsAuditRun, Audit!Spec
=============================================================================
