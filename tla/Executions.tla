----------------------------- MODULE Executions -----------------------------
(***************************************************************************)
(* Step Functions and the runs table as those see them who start           *)
(* executions from outside the pipeline and poll them: the weekly canary   *)
(* and the adversarial cases.  The pipeline itself is module Pipeline;     *)
(* here an execution publishes a score, or does not, and ends.  Its row in *)
(* the runs table is under the id its date and cadence give, whatever id   *)
(* the execution was started with.                                         *)
(***************************************************************************)
EXTENDS Integers, Sequences, FiniteSets, Functions

CONSTANTS
    Scores,      \* [judge_faithfulness, judge_completeness] of a published run
    PassingScores,
    Ends,        \* how executions end
    None

VARIABLES
    execution,   \* started execution -> [status, day, score]
    runs         \* the runs table: <<"run", day>> -> score, for published runs

executions == <<execution, runs>>

ASSUME ExecutionsAssumption ==
    /\ PassingScores \subseteq Scores /\ None \notin Scores /\ None \notin BOOLEAN
    /\ Ends \subseteq {"SUCCEEDED", "FAILED", "TIMED_OUT", "ABORTED"}

Started == DOMAIN execution
Running(x) == x \in Started /\ execution[x].status = "RUNNING"
Status(x) == execution[x].status

NoExecutions == execution = <<>> /\ runs = <<>>

\* start_execution: the names of executions are never used twice.
StartExecution(x, day) ==
    /\ x \notin Started
    /\ execution' = [y \in Started \cup {x} |->
          IF y = x THEN [status |-> "RUNNING", day |-> day, score |-> None] ELSE execution[y]]
    /\ UNCHANGED runs

\* Publish's put of the run row.
PublishRun(x) ==
    /\ Running(x) /\ execution[x].score = None
    /\ \E s \in Scores :
          /\ execution' = [execution EXCEPT ![x].score = s]
          /\ runs' = [k \in DOMAIN runs \cup {<<"run", execution[x].day>>} |->
                         IF k = <<"run", execution[x].day>> THEN s ELSE runs[k]]

\* It succeeds after Publish; it fails or is stopped at any time.
EndExecution(x) ==
    /\ Running(x)
    /\ \E s \in Ends :
          /\ s = "SUCCEEDED" => execution[x].score # None
          /\ execution' = [execution EXCEPT ![x].status = s]
    /\ UNCHANGED runs

Pipeline(x) == PublishRun(x) \/ EndExecution(x)
=============================================================================
