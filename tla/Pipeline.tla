------------------------------ MODULE Pipeline ------------------------------
(***************************************************************************)
(* The audit pipeline: executions of the Step Functions state machine      *)
(* pipeline.asl.json and the Lambda handlers its tasks invoke, over the    *)
(* S3 objects and the two DynamoDB tables they share.                      *)
(*                                                                         *)
(* Every access of a handler to S3 or DynamoDB is a step of its own, so    *)
(* executions interleave between any two of them.  The id of a run is its  *)
(* date and cadence: two executions started for the same date and cadence  *)
(* (a schedule delivered twice, a manual re-run) have the same run id and  *)
(* so the same object keys and table rows.  A handler may fail at any      *)
(* access, and its last effect may stand although its response is lost;    *)
(* Step Functions then repeats the task when the state has a Retry list,   *)
(* and otherwise ends the execution, for no state has a Catch.             *)
(***************************************************************************)
EXTENDS Gates

CONSTANTS
    Exec,         \* executions of the state machine
    Run,          \* run ids
    RunOf,        \* the run id an execution's date and cadence give
    Monthly,      \* the runs of monthly cadence
    Snapshot,     \* what an extraction can read from the SQL servers
    Hash,         \* manifest hashes
    HashOf,       \* the hash of a snapshot's sorted login||database keys
    Evaluate,     \* the findings the rules may raise on a snapshot (R2 reads a clock)
    Draft,        \* the narratives the agent may write
    Scores,       \* the scores the judge may give
    WeakClaims,   \* the confidence sets the probe may report
    Decision,     \* reviewer decisions
    MaxAttempts,  \* MaxAttempts of every Retry list: repeats after the first try
    Nil           \* no value

ASSUME PipelineAssumption ==
    /\ RunOf \in [Exec -> Run]
    /\ Monthly \subseteq Run
    /\ HashOf \in [Snapshot -> Hash]
    /\ Evaluate \in [Snapshot -> SUBSET Findings]
    /\ Draft \subseteq Narrative
    /\ Scores \subseteq Score
    /\ \A s \in Scores : s.reasoning = "assessed"
    /\ \A c \in WeakClaims : c \subseteq Percent
    /\ MaxAttempts \in Nat

ASSUME NilAssumption ==
    /\ Nil \notin Snapshot /\ Nil \notin Hash
    /\ Nil \notin Decision /\ Nil \notin WeakClaims
    /\ Nil \notin Findings /\ Nil \notin Narrative /\ Nil \notin Score

VARIABLES
    \* Step Functions, one value per execution
    state,      \* the state of the execution
    retries,    \* the repeats of the current task so far
    manifest,   \* $.validated.manifest: its hash
    ruled,      \* $.rules: the summary and ids of these findings
    judge,      \* $.judge
    probe,      \* $.adversarial
    \* the running Lambda invocation, one value per execution
    step,       \* accesses made, where the handler makes them in a row
    rows,       \* the rows it holds
    reads,      \* for each reader, the findings and narrative it has read
    reply,      \* the last answer of the narrator's get_finding tool
    put,        \* the finding ids Publish has written
    \* the S3 objects, one per run id
    csvObj, manifestObj, validatedObj, findingsObj, narrativeObj, reportObj,
    \* the DynamoDB tables, one value per run id
    runRow,     \* the item of the runs table
    items       \* the items of the findings table

sfn == <<manifest, ruled, judge, probe>>
local == <<step, rows, reads, reply, put>>
s3 == <<csvObj, manifestObj, validatedObj, findingsObj, narrativeObj, reportObj>>
ddb == <<runRow, items>>
vars == <<state, retries, sfn, local, s3, ddb>>

-----------------------------------------------------------------------------
Reader == Gate \cup {"judge", "probe", "publish", "pdf"}
NothingRead == [findings |-> Nil, narrative |-> Nil]

Task == {"ExtractUar", "ValidateAndHash", "RulesEngine", "AgentNarrator",
         "GatesParallel", "Judge", "AdversarialProbe", "Publish", "GeneratePdf"}
\* Mutant: Publish has a Retry list too.
RetriedWithPublish == {"ExtractUar", "ValidateAndHash", "RulesEngine",
                       "AgentNarrator", "Judge", "AdversarialProbe", "Publish"}

Retried == {"ExtractUar", "ValidateAndHash", "RulesEngine", "AgentNarrator",
            "Judge", "AdversarialProbe"}
Ended == {"Succeed", "FAILED"}
StateName == Task \cup {"NotStarted", "MarkQuarantined"} \cup Ended

\* The readers that run in a state.
ReadersAt(s) ==
    CASE s = "GatesParallel" -> Gate
      [] s = "Judge" -> {"judge"}
      [] s = "AdversarialProbe" -> {"probe"}
      [] s = "Publish" -> {"publish"}
      [] s = "GeneratePdf" -> {"pdf"}
      [] OTHER -> {}

HasRead(e, k) == reads[e][k].findings # Nil /\ reads[e][k].narrative # Nil
GateVerdict(e, g) == GatePasses(g, reads[e][g].findings, reads[e][g].narrative)

\* The score MarkQuarantined puts in place of $.judge.
NotRun == [faithfulness |-> 0, completeness |-> 0, fabrication |-> 100,
           reasoning |-> "judge not run"]

RunRow == [by : Exec, status : {"succeeded", "quarantined"}, hash : Hash,
           count : Nat, judge : Score, gates : [Gate -> BOOLEAN]]
Report == [by : Exec, hash : Hash, findings : Findings, narrative : Narrative]
ASSUME RowAssumption == Nil \notin RunRow /\ Nil \notin Report

Item == [id : FindingId, body : Body, narrated : BOOLEAN,
         decision : Decision \cup {Nil}]
Reply == [id : FindingId, items : SUBSET Item]

Init ==
    /\ state = [e \in Exec |-> "NotStarted"]
    /\ retries = [e \in Exec |-> 0]
    /\ manifest = [e \in Exec |-> Nil]
    /\ ruled = [e \in Exec |-> Nil]
    /\ judge = [e \in Exec |-> Nil]
    /\ probe = [e \in Exec |-> Nil]
    /\ step = [e \in Exec |-> 0]
    /\ rows = [e \in Exec |-> Nil]
    /\ reads = [e \in Exec |-> [k \in Reader |-> NothingRead]]
    /\ reply = [e \in Exec |-> Nil]
    /\ put = [e \in Exec |-> {}]
    /\ csvObj = [r \in Run |-> Nil]
    /\ manifestObj = [r \in Run |-> Nil]
    /\ validatedObj = [r \in Run |-> Nil]
    /\ findingsObj = [r \in Run |-> Nil]
    /\ narrativeObj = [r \in Run |-> Nil]
    /\ reportObj = [r \in Run |-> Nil]
    /\ runRow = [r \in Run |-> Nil]
    /\ items = [r \in Run |-> {}]

-----------------------------------------------------------------------------
(* How a task ends.                                                        *)

Goto(e, s) ==
    /\ state' = [state EXCEPT ![e] = s]
    /\ retries' = [retries EXCEPT ![e] = 0]

\* Mutant: one repeat more than MaxAttempts.
RepeatOnceMore(e) ==
    /\ state[e] \in Retried
    /\ retries[e] <= MaxAttempts
    /\ retries' = [retries EXCEPT ![e] = @ + 1]
    /\ UNCHANGED state

\* Mutant: the repeats are not counted.
RepeatForever(e) == state[e] \in Retried /\ UNCHANGED <<state, retries>>

\* The task's Retry list repeats it.
Repeat(e) ==
    /\ state[e] \in Retried
    /\ retries[e] < MaxAttempts
    /\ retries' = [retries EXCEPT ![e] = @ + 1]
    /\ UNCHANGED state

Fail(e) == Goto(e, "FAILED")

\* A task whose last effect stands: its response arrives, or is lost.
Finish(e, next) == Goto(e, next) \/ Repeat(e) \/ Fail(e)

\* The memory of an invocation of one of the first four handlers ends with it.
Forget(e) ==
    /\ step' = [step EXCEPT ![e] = 0]
    /\ rows' = [rows EXCEPT ![e] = Nil]
    /\ reply' = [reply EXCEPT ![e] = Nil]
    /\ UNCHANGED <<reads, put>>

\* A handler raises, times out or is throttled before its last access: a new
\* invocation starts from nothing, or the execution ends.
Interrupt(e) ==
    /\ state[e] \in Task
    /\ \/ /\ Repeat(e)
          /\ step' = [step EXCEPT ![e] = 0]
          /\ rows' = [rows EXCEPT ![e] = Nil]
          /\ reply' = [reply EXCEPT ![e] = Nil]
          /\ reads' = [reads EXCEPT ![e] = [k \in Reader |->
                          IF k \in ReadersAt(state[e]) THEN NothingRead ELSE @[k]]]
          /\ put' = [put EXCEPT ![e] = {}]
       \/ Fail(e) /\ UNCHANGED local
    /\ UNCHANGED <<sfn, s3, ddb>>

-----------------------------------------------------------------------------
Start(e) ==
    /\ state[e] = "NotStarted"
    /\ Goto(e, "ExtractUar")
    /\ UNCHANGED <<sfn, local, s3, ddb>>

(* ExtractUar: read the rows, put the CSV, put the manifest.               *)
ReadServers(e) ==
    /\ state[e] = "ExtractUar" /\ step[e] = 0
    /\ \E s \in Snapshot : rows' = [rows EXCEPT ![e] = s]
    /\ step' = [step EXCEPT ![e] = 1]
    /\ UNCHANGED <<state, retries, sfn, reads, reply, put, s3, ddb>>

PutCsv(e) ==
    /\ state[e] = "ExtractUar" /\ step[e] = 1
    /\ csvObj' = [csvObj EXCEPT ![RunOf[e]] = rows[e]]
    /\ step' = [step EXCEPT ![e] = 2]
    /\ UNCHANGED <<state, retries, sfn, rows, reads, reply, put, manifestObj,
                   validatedObj, findingsObj, narrativeObj, reportObj, ddb>>

PutManifest(e) ==
    /\ state[e] = "ExtractUar" /\ step[e] = 2
    /\ manifestObj' = [manifestObj EXCEPT ![RunOf[e]] = HashOf[rows[e]]]
    /\ Finish(e, "ValidateAndHash")
    /\ Forget(e)
    /\ UNCHANGED <<sfn, csvObj, validatedObj, findingsObj, narrativeObj,
                   reportObj, ddb>>

(* ValidateAndHash: read the CSV, read the manifest and compare, put the   *)
(* validated rows.  A mismatch is a RuntimeError, which no Retry lists.    *)
ReadCsv(e) ==
    /\ state[e] = "ValidateAndHash" /\ step[e] = 0
    /\ rows' = [rows EXCEPT ![e] = csvObj[RunOf[e]]]
    /\ step' = [step EXCEPT ![e] = 1]
    /\ UNCHANGED <<state, retries, sfn, reads, reply, put, s3, ddb>>

HashMatches(e) == HashOf[rows[e]] = manifestObj[RunOf[e]]

ReadManifest(e) ==
    /\ state[e] = "ValidateAndHash" /\ step[e] = 1
    /\ HashMatches(e)
    /\ manifest' = [manifest EXCEPT ![e] = manifestObj[RunOf[e]]]
    /\ step' = [step EXCEPT ![e] = 2]
    /\ UNCHANGED <<state, retries, ruled, judge, probe, rows, reads, reply, put,
                   s3, ddb>>

RejectManifest(e) ==
    /\ state[e] = "ValidateAndHash" /\ step[e] = 1
    /\ ~HashMatches(e)
    /\ Fail(e)
    /\ Forget(e)
    /\ UNCHANGED <<sfn, s3, ddb>>

PutValidated(e) ==
    /\ state[e] = "ValidateAndHash" /\ step[e] = 2
    /\ validatedObj' = [validatedObj EXCEPT ![RunOf[e]] = rows[e]]
    /\ Finish(e, "RulesEngine")
    /\ Forget(e)
    /\ UNCHANGED <<sfn, csvObj, manifestObj, findingsObj, narrativeObj,
                   reportObj, ddb>>

(* RulesEngine: read the validated rows, put the findings.                 *)
ReadValidated(e) ==
    /\ state[e] = "RulesEngine" /\ step[e] = 0
    /\ rows' = [rows EXCEPT ![e] = validatedObj[RunOf[e]]]
    /\ step' = [step EXCEPT ![e] = 1]
    /\ UNCHANGED <<state, retries, sfn, reads, reply, put, s3, ddb>>

\* Mutant: a rule that raises is skipped, and its findings are missing.
PutFindingsOfOtherRules(e) ==
    /\ state[e] = "RulesEngine" /\ step[e] = 1
    /\ \E fs \in Evaluate[rows[e]], skipped \in Rule :
          /\ findingsObj' = [findingsObj EXCEPT
                                ![RunOf[e]] = [fs EXCEPT ![skipped] = <<>>]]
          /\ ruled' = [ruled EXCEPT ![e] = [fs EXCEPT ![skipped] = <<>>]]
    /\ Finish(e, "AgentNarrator")
    /\ Forget(e)
    /\ UNCHANGED <<manifest, judge, probe, csvObj, manifestObj, validatedObj,
                   narrativeObj, reportObj, ddb>>

PutFindings(e) ==
    /\ state[e] = "RulesEngine" /\ step[e] = 1
    /\ \E fs \in Evaluate[rows[e]] :
          /\ findingsObj' = [findingsObj EXCEPT ![RunOf[e]] = fs]
          /\ ruled' = [ruled EXCEPT ![e] = fs]
    /\ Finish(e, "AgentNarrator")
    /\ Forget(e)
    /\ UNCHANGED <<manifest, judge, probe, csvObj, manifestObj, validatedObj,
                   narrativeObj, reportObj, ddb>>

(* AgentNarrator: any number of tool calls, then the draft is put.  With   *)
(* a CRITICAL finding the self-consistency check decides the flag, else    *)
(* the draft keeps its own.                                                *)
GetFinding(e) ==
    /\ state[e] = "AgentNarrator"
    /\ \E id \in Ids(ruled[e]) :
          reply' = [reply EXCEPT ![e] =
                      [id |-> id, items |-> {i \in items[RunOf[e]] : i.id = id}]]
    /\ UNCHANGED <<state, retries, sfn, step, rows, reads, put, s3, ddb>>

PutNarrative(e) ==
    /\ state[e] = "AgentNarrator"
    /\ \E d \in Draft, consistent \in BOOLEAN :
          narrativeObj' = [narrativeObj EXCEPT ![RunOf[e]] =
              IF HasCritical(ruled[e]) THEN [d EXCEPT !.consistent = consistent]
                                       ELSE d]
    /\ Finish(e, "GatesParallel")
    /\ Forget(e)
    /\ UNCHANGED <<sfn, csvObj, manifestObj, validatedObj, findingsObj,
                   reportObj, ddb>>

(* The two reads of the gates, judge, probe, publish and pdf handlers: the *)
(* findings, then the narrative; the probe reads them in the other order.  *)
ReadFindings(e, k) ==
    /\ k \in ReadersAt(state[e])
    /\ reads[e][k].findings = Nil
    /\ k = "probe" => reads[e][k].narrative # Nil
    /\ reads' = [reads EXCEPT ![e][k].findings = findingsObj[RunOf[e]]]
    /\ UNCHANGED <<state, retries, sfn, step, rows, reply, put, s3, ddb>>

ReadNarrative(e, k) ==
    /\ k \in ReadersAt(state[e])
    /\ reads[e][k].narrative = Nil
    /\ k # "probe" => reads[e][k].findings # Nil
    /\ reads' = [reads EXCEPT ![e][k].narrative = narrativeObj[RunOf[e]]]
    /\ UNCHANGED <<state, retries, sfn, step, rows, reply, put, s3, ddb>>

\* MergeGates and GateChoice, once the three branches have ended.
PassedSum(e) == Cardinality({g \in Gate : GateVerdict(e, g)})

\* Mutant: two gates of three are enough.
MergeGatesByMajority(e) ==
    /\ state[e] = "GatesParallel"
    /\ \A g \in Gate : HasRead(e, g)
    /\ Goto(e, IF PassedSum(e) >= 2 THEN "Judge" ELSE "MarkQuarantined")
    /\ UNCHANGED <<sfn, local, s3, ddb>>

MergeGates(e) ==
    /\ state[e] = "GatesParallel"
    /\ \A g \in Gate : HasRead(e, g)
    /\ Goto(e, IF PassedSum(e) = 3 THEN "Judge" ELSE "MarkQuarantined")
    /\ UNCHANGED <<sfn, local, s3, ddb>>

\* Judge's model call and JudgeChoice.
JudgeNarrative(e) ==
    /\ state[e] = "Judge" /\ HasRead(e, "judge")
    /\ \E s \in Scores :
          /\ judge' = [judge EXCEPT ![e] = s]
          /\ Goto(e, IF JudgePasses(s) THEN "AdversarialProbe"
                                       ELSE "MarkQuarantined")
    /\ UNCHANGED <<manifest, ruled, probe, local, s3, ddb>>

\* AdversarialProbe's model call and AdversarialChoice.
ProbeNarrative(e) ==
    /\ state[e] = "AdversarialProbe" /\ HasRead(e, "probe")
    /\ \E c \in WeakClaims :
          /\ probe' = [probe EXCEPT ![e] = c]
          /\ Goto(e, IF ProbePasses(c) THEN "Publish" ELSE "MarkQuarantined")
    /\ UNCHANGED <<manifest, ruled, judge, local, s3, ddb>>

MarkQuarantined(e) ==
    /\ state[e] = "MarkQuarantined"
    /\ judge' = [judge EXCEPT ![e] = NotRun]
    /\ Goto(e, "Publish")
    /\ UNCHANGED <<manifest, ruled, probe, local, s3, ddb>>

(* Publish: after its reads, the run row, then the findings one by one (a  *)
(* batch write has no order and may stop half way), then the response.  No *)
(* Retry repeats Publish or GeneratePdf.                                   *)
\* Mutant: any score counts as passed.
AnyScorePassed(e) == judge[e] # Nil

AllGatesPassed(e) == JudgePasses(judge[e])

PutRun(e) ==
    /\ state[e] = "Publish" /\ HasRead(e, "publish") /\ step[e] = 0
    /\ runRow' = [runRow EXCEPT ![RunOf[e]] =
          [by |-> e,
           status |-> IF AllGatesPassed(e) THEN "succeeded" ELSE "quarantined",
           hash |-> manifest[e],
           count |-> Count(reads[e]["publish"].findings),
           judge |-> judge[e],
           gates |-> [g \in Gate |-> GateVerdict(e, g)]]]
    /\ step' = [step EXCEPT ![e] = 1]
    /\ UNCHANGED <<state, retries, sfn, rows, reads, reply, put, s3, items>>

NewItem(e, id) ==
    [id |-> id,
     body |-> BodyOf(reads[e]["publish"].findings, id),
     narrated |-> id \in reads[e]["publish"].narrative.cited,
     decision |-> Nil]

PutItem(e, id) ==
    /\ items' = [items EXCEPT ![RunOf[e]] =
                    {i \in @ : i.id # id} \cup {NewItem(e, id)}]
    /\ put' = [put EXCEPT ![e] = @ \cup {id}]
    /\ UNCHANGED <<state, retries, sfn, step, rows, reads, reply, s3, runRow>>

\* Mutant: the findings need not wait for the row.
PutSomeItemAnyTime(e) ==
    /\ state[e] = "Publish" /\ HasRead(e, "publish")
    /\ \E id \in Ids(reads[e]["publish"].findings) \ put[e] : PutItem(e, id)

PutSomeItem(e) ==
    /\ state[e] = "Publish" /\ step[e] = 1
    /\ \E id \in Ids(reads[e]["publish"].findings) \ put[e] : PutItem(e, id)

\* Mutant: the answer does not wait for the whole batch.
EndPublishHalfWay(e) ==
    /\ state[e] = "Publish" /\ step[e] = 1
    /\ \/ Goto(e, IF RunOf[e] \in Monthly THEN "GeneratePdf" ELSE "Succeed")
       \/ Fail(e)
    /\ Forget(e)
    /\ UNCHANGED <<sfn, s3, ddb>>

\* Mutant: only what passed gets a report.
EndPublishReportIfPassed(e) ==
    /\ state[e] = "Publish" /\ step[e] = 1
    /\ Ids(reads[e]["publish"].findings) \subseteq put[e]
    /\ \/ Goto(e, IF RunOf[e] \in Monthly /\ AllGatesPassed(e) THEN "GeneratePdf"
                                                               ELSE "Succeed")
       \/ Fail(e)
    /\ Forget(e)
    /\ UNCHANGED <<sfn, s3, ddb>>

\* Mutant: a quarantined run is narrated again.
EndPublishRedrafting(e) ==
    /\ state[e] = "Publish" /\ step[e] = 1
    /\ Ids(reads[e]["publish"].findings) \subseteq put[e]
    /\ Goto(e, IF ~AllGatesPassed(e) THEN "AgentNarrator"
               ELSE IF RunOf[e] \in Monthly THEN "GeneratePdf" ELSE "Succeed")
    /\ Forget(e)
    /\ UNCHANGED <<sfn, s3, ddb>>

EndPublish(e) ==
    /\ state[e] = "Publish" /\ step[e] = 1
    /\ Ids(reads[e]["publish"].findings) \subseteq put[e]
    /\ \/ Goto(e, IF RunOf[e] \in Monthly THEN "GeneratePdf" ELSE "Succeed")
       \/ Fail(e)
    /\ Forget(e)
    /\ UNCHANGED <<sfn, s3, ddb>>

(* GeneratePdf: after its reads, the report is put.                        *)
PutReport(e) ==
    /\ state[e] = "GeneratePdf" /\ HasRead(e, "pdf")
    /\ reportObj' = [reportObj EXCEPT ![RunOf[e]] =
                      [by |-> e, hash |-> manifest[e],
                       findings |-> reads[e]["pdf"].findings,
                       narrative |-> reads[e]["pdf"].narrative]]
    /\ Goto(e, "Succeed") \/ Fail(e)
    /\ UNCHANGED <<sfn, local, csvObj, manifestObj, validatedObj, findingsObj,
                   narrativeObj, ddb>>

\* A reviewer records a decision on a finding of run r.
Review(r) ==
    /\ \E i \in items[r], d \in Decision :
          items' = [items EXCEPT ![r] = (@ \ {i}) \cup {[i EXCEPT !.decision = d]}]
    /\ UNCHANGED <<state, retries, sfn, local, s3, runRow>>

-----------------------------------------------------------------------------
\* The steps by which an execution makes progress.
Progress(e) ==
    \/ ReadServers(e) \/ PutCsv(e) \/ PutManifest(e)
    \/ ReadCsv(e) \/ ReadManifest(e) \/ RejectManifest(e) \/ PutValidated(e)
    \/ ReadValidated(e) \/ PutFindings(e)
    \/ PutNarrative(e)
    \/ \E k \in Reader : ReadFindings(e, k) \/ ReadNarrative(e, k)
    \/ MergeGates(e) \/ JudgeNarrative(e) \/ ProbeNarrative(e)
    \/ MarkQuarantined(e)
    \/ PutRun(e) \/ PutSomeItem(e) \/ EndPublish(e)
    \/ PutReport(e)

Step(e) == Start(e) \/ Interrupt(e) \/ GetFinding(e) \/ Progress(e)

Next == (\E e \in Exec : Step(e)) \/ (\E r \in Run : Review(r))

Spec == Init /\ [][Next]_vars

\* A Lambda answers or times out, and Step Functions then moves on.
Fairness == \A e \in Exec : WF_vars(Progress(e))
FairSpec == Spec /\ Fairness
-----------------------------------------------------------------------------
(* Types                                                                   *)

ReadsType == [findings : Findings \cup {Nil}, narrative : Narrative \cup {Nil}]

\* Every variable holds what its code counterpart can hold; in particular a
\* handler never works on an object that was not there to be read.
TypeOK ==
    /\ state \in [Exec -> StateName]
    /\ retries \in [Exec -> 0..MaxAttempts]
    /\ manifest \in [Exec -> Hash \cup {Nil}]
    /\ ruled \in [Exec -> Findings \cup {Nil}]
    /\ judge \in [Exec -> Score \cup {Nil}]
    /\ probe \in [Exec -> WeakClaims \cup {Nil}]
    /\ step \in [Exec -> 0..2]
    /\ rows \in [Exec -> Snapshot \cup {Nil}]
    /\ reads \in [Exec -> [Reader -> ReadsType]]
    /\ reply \in [Exec -> Reply \cup {Nil}]
    /\ put \in [Exec -> SUBSET FindingId]
    /\ csvObj \in [Run -> Snapshot \cup {Nil}]
    /\ manifestObj \in [Run -> Hash \cup {Nil}]
    /\ validatedObj \in [Run -> Snapshot \cup {Nil}]
    /\ findingsObj \in [Run -> Findings \cup {Nil}]
    /\ narrativeObj \in [Run -> Narrative \cup {Nil}]
    /\ reportObj \in [Run -> Report \cup {Nil}]
    /\ runRow \in [Run -> RunRow \cup {Nil}]
    /\ items \in [Run -> SUBSET Item]

-----------------------------------------------------------------------------
(* Properties                                                              *)

\* No two executions have the same run id: what "one execution = one audit
\* run" asks of whoever starts executions, and nothing in the code enforces.
Isolated == \A e1, e2 \in Exec : RunOf[e1] = RunOf[e2] => e1 = e2

Succeeded(r) == runRow[r] # Nil /\ runRow[r].status = "succeeded"
Evidence(r) == [findings |-> findingsObj[r], narrative |-> narrativeObj[r]]

\* A run the runs table calls succeeded has, in S3, findings and a narrative
\* that pass the three gates, and they are the ones the judge and the probe
\* accepted and Publish copied.  (GateChoice, JudgeChoice, AdversarialChoice,
\* publish_triage reading both objects again.)
SucceededWasVerified ==
    \A r \in Run : Succeeded(r) =>
        /\ \A g \in Gate : GatePasses(g, findingsObj[r], narrativeObj[r])
        /\ JudgePasses(runRow[r].judge)
        /\ ProbePasses(probe[runRow[r].by])
        /\ \A k \in {"judge", "probe", "publish"} :
               reads[runRow[r].by][k] = Evidence(r)

\* The manifest hash in a run row is the hash of rows on which the rules raise
\* the run's findings: the chain from extraction to publication is unbroken.
HashCoversFindings ==
    \A r \in Run : runRow[r] # Nil =>
        \E s \in Snapshot : /\ HashOf[s] = runRow[r].hash
                            /\ findingsObj[r] \in Evaluate[s]

\* When Publish has answered, the findings table holds exactly the findings of
\* the run, findings_count of them, and in a succeeded run each with the
\* narrative's text for it.
CompleteWhenPublished ==
    \A e \in Exec : state[e] \in {"GeneratePdf", "Succeed"} =>
        LET r == RunOf[e]
        IN  /\ {[id |-> i.id, body |-> i.body] : i \in items[r]} =
                   {[id |-> id, body |-> BodyOf(findingsObj[r], id)] :
                       id \in Ids(findingsObj[r])}
            /\ runRow[r].count = Cardinality(items[r])
            /\ Succeeded(r) => \A i \in items[r] : i.narrated

\* A finished monthly execution has its report, and a report attests the very
\* findings, narrative and manifest that were published.
ReportAttestsRun ==
    /\ \A e \in Exec : state[e] = "Succeed" /\ RunOf[e] \in Monthly =>
                             reportObj[RunOf[e]] # Nil
    /\ \A r \in Run : reportObj[r] # Nil =>
           /\ runRow[r] # Nil /\ reportObj[r].hash = runRow[r].hash
           /\ reportObj[r].findings = findingsObj[r]
           /\ reportObj[r].narrative = narrativeObj[r]

\* Once a run is recorded, neither its row nor the evidence it points to
\* changes: no retried task rewrites what was judged.
RecordIsFinal ==
    [][\A r \in Run : runRow[r] # Nil =>
          runRow'[r] = runRow[r] /\ Evidence(r)' = Evidence(r)]_vars

\* A decision of a reviewer on a finding is never dropped, nor moved to
\* another finding (batch put of publish_triage against the reviewer).
DecisionsSurvive ==
    [][\A r \in Run : \A i \in items[r] : i.decision # Nil =>
          \E j \in items'[r] :
             j.id = i.id /\ j.body = i.body /\ j.decision # Nil]_vars

\* Whoever shares the run id, a row says succeeded only when the execution
\* that wrote it saw all its own checks pass on what each check had read.
OwnChecksPassed ==
    \A r \in Run : Succeeded(r) =>
        LET e == runRow[r].by
        IN  /\ \A g \in Gate : GateVerdict(e, g)
            /\ JudgePasses(judge[e])
            /\ ProbePasses(probe[e])

\* No finding is listed before its run has a row (publish_triage puts the row
\* first), and the run then has all objects the row refers to.
RowBeforeFindings ==
    \A r \in Run :
        /\ items[r] # {} => runRow[r] # Nil
        /\ runRow[r] # Nil => findingsObj[r] # Nil /\ narrativeObj[r] # Nil

\* A started execution ends, in Succeed or in FAILED: Retry lists are bounded,
\* no read waits for an object nobody writes, Publish writes every finding.
EveryRunEnds ==
    \A e \in Exec : state[e] # "NotStarted" ~> state[e] \in Ended
=============================================================================
