------------------------------- MODULE Canary -------------------------------
(***************************************************************************)
(* The weekly canary: for each month with a baseline it starts an          *)
(* execution on the month's fixture, polls it, compares the judge's scores *)
(* with the baseline and puts a result row.  The whole invocation has the  *)
(* time of LambdaPolls polls; one that fails or runs out of it is invoked  *)
(* again, with new ids.                                                    *)
(***************************************************************************)
EXTENDS Executions

CONSTANTS
    Months,       \* the baselines, in the order of their file names
    Baseline,     \* month -> [expected, tolerance]: metric -> percentage
    Missing,      \* months whose fixture file is not there
    MaxPolls,     \* _MAX_POLL_ATTEMPTS: 120
    LambdaPolls,  \* the Lambda's 900 seconds in polls of 5 seconds: 180
    Invocations   \* an asynchronous invocation is tried three times

ASSUME CanaryAssumption ==
    /\ Months \in Seq(STRING) /\ Missing \subseteq Range(Months)
    /\ MaxPolls \in Nat \ {0} /\ LambdaPolls \in Nat \ {0}
    /\ Invocations \in Nat \ {0}

VARIABLES
    inv, cpc,     \* the invocation, and where it is
    month,        \* index of the month at hand
    polls,        \* polls of the month's execution
    life,         \* polls of the whole invocation
    results,      \* canary_results: <<invocation, month>> -> [sfn_status, actual, drift]
    outcome,      \* how each invocation ended
    seen,         \* the status of the last describe
    polled        \* history: <<invocation, month>> -> polls

canary == <<inv, cpc, month, polls, life, results, outcome, seen, polled>>

CanaryInit ==
    /\ inv = 1 /\ cpc = "next" /\ month = 0 /\ polls = 0 /\ life = 0
    /\ results = <<>> /\ outcome = <<>>
    /\ seen = None /\ polled = <<>>

Month == Months[month]
This == <<inv, Month>>
With(f, k, v) == [x \in DOMAIN f \cup {k} |-> IF x = k THEN v ELSE f[x]]
TimeLeft == life < LambdaPolls

\* The invocation is over; a failed one is invoked again.
Over(how) ==
    /\ outcome' = Append(outcome, how)
    /\ month' = 0 /\ polls' = 0 /\ life' = 0
    /\ IF how # "returned" /\ inv < Invocations THEN inv' = inv + 1 /\ cpc' = "next"
       ELSE cpc' = "ended" /\ UNCHANGED inv

\* The next month whose fixture is there, if its execution can be started.
NextMonth ==
    /\ cpc = "next" /\ TimeLeft /\ month < Len(Months)
    /\ month' = month + 1
    /\ polls' = 0
    /\ IF Months[month'] \in Missing THEN cpc' = "next" /\ UNCHANGED <<executions, polled>>
       ELSE \/ /\ StartExecution(<<inv, Months[month']>>, "today")
               /\ polled' = With(polled, <<inv, Months[month']>>, 0)
               /\ cpc' = "wait"
            \/ cpc' = "next" /\ UNCHANGED <<executions, polled>>
    /\ UNCHANGED <<inv, life, results, outcome, seen>>

Return ==
    /\ cpc = "next" /\ month = Len(Months)
    /\ Over("returned")
    /\ UNCHANGED <<executions, results, seen, polled>>

\* Mutant: the execution is described once.
DescribeOnce ==
    /\ cpc = "wait" /\ TimeLeft
    /\ cpc' = "compare" /\ seen' = Status(This)
    /\ UNCHANGED <<executions, inv, month, polls, life, results, outcome, polled>>

\* Mutant: no limit but the execution's own end.
PollForever ==
    /\ cpc = "wait"
    /\ cpc' = IF Running(This) THEN "wait" ELSE "compare"
    /\ seen' = Status(This)
    /\ UNCHANGED <<executions, inv, month, polls, life, results, outcome, polled>>

\* Mutant: the polls are twice as far apart.
PollSlowly ==
    /\ cpc = "wait" /\ TimeLeft
    /\ IF Running(This) /\ polls < MaxPolls
       THEN /\ polls' = polls + 1 /\ life' = life + 2
            /\ polled' = [polled EXCEPT ![This] = @ + 1]
            /\ UNCHANGED cpc
       ELSE cpc' = "compare" /\ UNCHANGED <<polls, life, polled>>
    /\ seen' = Status(This)
    /\ UNCHANGED <<executions, inv, month, results, outcome>>

\* Until the execution has ended, or MaxPolls polls saw it running and one more
\* describe gave whatever it gave.
Poll ==
    /\ cpc = "wait" /\ TimeLeft
    /\ IF Running(This) /\ polls < MaxPolls
       THEN /\ polls' = polls + 1 /\ life' = life + 1
            /\ polled' = [polled EXCEPT ![This] = @ + 1]
            /\ UNCHANGED cpc
       ELSE cpc' = "compare" /\ UNCHANGED <<polls, life, polled>>
    /\ seen' = Status(This)
    /\ UNCHANGED <<executions, inv, month, results, outcome>>

\* The row of the run, under the id in the execution's output, which is the
\* id it was started with.
RunRecord == IF <<"canary", This>> \in DOMAIN runs THEN runs[<<"canary", This>>] ELSE None

\* Mutant: what is not there is not compared.
PresentMetrics ==
    IF RunRecord = None THEN <<>>
    ELSE [m \in {"judge_faithfulness", "judge_completeness"} |-> RunRecord[m]]

ActualMetrics ==
    [m \in {"judge_faithfulness", "judge_completeness"} |->
        IF RunRecord = None THEN 0 ELSE RunRecord[m]]

\* _check_drift: a metric counts when the baseline gives it a value and a
\* tolerance, and only from below.
Drifted(actual, baseline) ==
    \E m \in DOMAIN baseline.tolerance \cap DOMAIN baseline.expected \cap DOMAIN actual :
        actual[m] < baseline.expected[m] - baseline.tolerance[m]

\* Mutant: only an execution that succeeded gets a row.
PutResultIfSucceeded ==
    /\ cpc = "compare" /\ TimeLeft
    /\ results' = IF seen # "SUCCEEDED" THEN results ELSE With(results, This,
          [sfn_status |-> seen, actual |-> ActualMetrics,
           drift |-> Drifted(ActualMetrics, Baseline[Month])])
    /\ cpc' = "next"
    /\ UNCHANGED <<executions, inv, month, polls, life, outcome, seen, polled>>

PutResult ==
    /\ cpc = "compare" /\ TimeLeft
    /\ results' = With(results, This,
          [sfn_status |-> seen, actual |-> ActualMetrics,
           drift |-> Drifted(ActualMetrics, Baseline[Month])])
    /\ cpc' = "next"
    /\ UNCHANGED <<executions, inv, month, polls, life, outcome, seen, polled>>

\* An upload, a describe, a read or the put raises.
CanaryFails ==
    /\ cpc \in {"next", "wait", "compare"} /\ TimeLeft
    /\ cpc = "next" => month < Len(Months)
    /\ Over("failed")
    /\ UNCHANGED <<executions, results, seen, polled>>

CanaryTimesOut ==
    /\ cpc \in {"next", "wait", "compare"} /\ ~TimeLeft
    /\ cpc = "next" => month < Len(Months)
    /\ Over("timeout")
    /\ UNCHANGED <<executions, results, seen, polled>>

CanaryStep == NextMonth \/ Return \/ Poll \/ PutResult \/ CanaryTimesOut
CanaryNext == CanaryStep \/ CanaryFails
=============================================================================
