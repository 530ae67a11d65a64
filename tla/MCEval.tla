------------------------------- MODULE MCEval -------------------------------
(* A pull request, a push to main and the nightly job.                     *)
EXTENDS EvalHarness

TwoRules == {"R1", "R3"}
Jobs == {"pr", "push", "nightly"}
Branches == [pr |-> "12/merge", push |-> "main", nightly |-> "main"]
Suites == [pr |-> <<"baseline", "sod">>, push |-> <<"baseline", "sod">>,
           nightly |-> <<"baseline", "sod", "no_findings", "cluster", "empty">>]
SomeExpected == [baseline |-> {<<"R1", "x">>}, sod |-> {<<"R3", "y">>},
                 no_findings |-> {}, cluster |-> {<<"R1", "x">>, <<"R1", "y">>}, empty |-> {}]
=============================================================================
