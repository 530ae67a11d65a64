-------------------------------- MODULE Probes --------------------------------
(* The executions that are started from outside the schedules: those of the *)
(* weekly canary, or those of the adversarial cases.                        *)
EXTENDS Canary, Adversarial

VARIABLE probing     \* which of the two runs

Init ==
    /\ NoExecutions /\ CanaryInit /\ AdversarialInit
    /\ probing \in {"canary", "cases"}
Next ==
    \/ probing = "canary" /\ CanaryNext /\ UNCHANGED <<adversarial, probing>>
    \/ probing = "cases" /\ AdversarialNext /\ UNCHANGED <<canary, probing>>
    \/ \E x \in Started : Pipeline(x) /\ UNCHANGED <<canary, adversarial, probing>>

vars == <<executions, canary, adversarial, probing>>
Spec == Init /\ [][Next]_vars
        /\ WF_vars(probing = "canary" /\ CanaryStep /\ UNCHANGED <<adversarial, probing>>)
        /\ WF_vars(probing = "cases" /\ AdversarialNext /\ UNCHANGED <<canary, probing>>)

-----------------------------------------------------------------------------
\* All executions of a canary (of the cases) share one run id, so one must be
\* over before the next starts.  Two run at once only if the earlier one was
\* given up: after MaxPolls polls, or with the invocation or case it was of.
GivenUp(x) ==
    IF x[1] = 0 THEN x[2] \in DOMAIN verdicts
    ELSE x[1] < inv \/ polled[x] = MaxPolls
OneAtATime ==
    \A x, y \in Started :
        Running(x) /\ Running(y) /\ x # y /\ execution[x].day = execution[y].day =>
            GivenUp(x) \/ GivenUp(y)

\* A third of the time for each of three months: if an invocation runs out of
\* time, some execution took a third of it.
PromptRunsAreAllReported ==
    \A i \in DOMAIN outcome : outcome[i] = "timeout" =>
        \E x \in DOMAIN polled : x[1] = i /\ polled[x] * Len(Months) >= LambdaPolls

\* An invocation that returns has a row for every execution it started, and
\* the row has the end of the execution unless it was given up.
ReturnedCanaryIsComplete ==
    \A x \in Started : x[1] \in DOMAIN outcome /\ outcome[x[1]] = "returned" =>
        /\ x \in DOMAIN results
        /\ results[x].sfn_status = Status(x) \/ polled[x] = MaxPolls

\* An execution that failed, that was given up, or whose scores are below the
\* baseline is reported as drift: nothing unhealthy goes unnoticed.
UnhealthyRunsDrift ==
    \A x \in DOMAIN results :
        \/ results[x].drift
        \/ results[x].sfn_status = "SUCCEEDED" /\ ~Drifted(execution[x].score, Baseline[x[2]])

\* The canary and the cases come to an end although an execution may not.
ProbesEnd == <>(cpc = "ended" \/ case > Len(Cases))

\* A case that expects the judge to pass passes only on an execution that
\* succeeded with a score the judge accepts, deadline or not.
VerdictsAreEarned ==
    \A c \in DOMAIN verdicts :
        verdicts[c] /\ Expects[c] \in {"judge_pass", "agent_quotes_verbatim"} =>
            /\ execution[<<0, c>>].status = "SUCCEEDED"
            /\ execution[<<0, c>>].score \in PassingScores

\* "drift_detected=True if any metric breaches tolerance": a run within its
\* tolerances is not reported.
HealthyCanaryDoesNotDrift ==
    \A x \in DOMAIN results : results[x].drift =>
        ~(results[x].sfn_status = "SUCCEEDED" /\ ~Drifted(execution[x].score, Baseline[x[2]]))
=============================================================================
