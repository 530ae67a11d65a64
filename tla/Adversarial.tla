----------------------------- MODULE Adversarial -----------------------------
(***************************************************************************)
(* The adversarial cases, run one after the other against the deployed     *)
(* pipeline: each starts an execution, polls it to a deadline, and is      *)
(* judged by the outcome it expects.                                       *)
(***************************************************************************)
EXTENDS Executions

CONSTANTS
    Cases,      \* the cases, in the order they are run
    Expects,    \* case -> expected_outcome
    MaxTries    \* polls before the deadline: 300 seconds, one in 2 seconds

ASSUME AdversarialAssumption == MaxTries \in Nat \ {0}

VARIABLES
    apc, case, tries,
    got,        \* the result of the case at hand
    verdicts    \* case -> did it pass

adversarial == <<apc, case, tries, got, verdicts>>

AdversarialInit ==
    apc = "start" /\ case = 1 /\ tries = 0 /\ got = None /\ verdicts = <<>>

Case == Cases[case]
X == <<0, Case>>

\* Every case gives the same started_at, and so the same run id.
StartCase ==
    /\ apc = "start" /\ case <= Len(Cases)
    /\ StartExecution(X, "2026-04-25")
    /\ apc' = "poll" /\ tries' = 0
    /\ UNCHANGED <<case, got, verdicts>>

\* Mutant: a published score counts, however the execution ends.
ResultWhateverStatus(status) ==
    [execution_status |-> status, final_state |-> None, findings_count |-> 0,
     judge_passed |-> execution[X].score \in PassingScores]

\* What of the execution's output the result carries: the pipeline writes
\* no __final_state and no rules.total_findings.
Result(status) ==
    [execution_status |-> status, final_state |-> None, findings_count |-> 0,
     judge_passed |-> IF status = "SUCCEEDED" THEN execution[X].score \in PassingScores
                                              ELSE None]

PollCase ==
    /\ apc = "poll" /\ tries < MaxTries
    /\ IF Running(X) THEN tries' = tries + 1 /\ UNCHANGED <<apc, got>>
       ELSE got' = Result(Status(X)) /\ apc' = "assert" /\ UNCHANGED tries
    /\ UNCHANGED <<executions, case, verdicts>>

\* The execution is not looked at again, nor stopped.
Deadline ==
    /\ apc = "poll" /\ tries = MaxTries
    /\ got' = Result("TIMED_OUT") /\ apc' = "assert"
    /\ UNCHANGED <<executions, case, tries, verdicts>>

Meets(expected, r) ==
    CASE expected = "citation_gate_fail" ->
            r.execution_status = "SUCCEEDED" /\ r.final_state = "MarkQuarantined"
      [] expected = "narrative_no_findings" -> r.findings_count = 0
      [] expected = "rules_engine_error" -> r.execution_status = "FAILED"
      [] expected \in {"judge_pass", "agent_quotes_verbatim"} -> r.judge_passed = TRUE

AssertOutcome ==
    /\ apc = "assert"
    /\ verdicts' = [c \in DOMAIN verdicts \cup {Case} |->
                       IF c = Case THEN Meets(Expects[Case], got) ELSE verdicts[c]]
    /\ case' = case + 1 /\ apc' = "start" /\ got' = None
    /\ UNCHANGED <<executions, tries>>

AdversarialNext == StartCase \/ PollCase \/ Deadline \/ AssertOutcome
=============================================================================
