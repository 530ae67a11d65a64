------------------------------ MODULE MCProbes ------------------------------
(* An invocation of the canary on three months and its repetition, or two   *)
(* adversarial cases, over the executions they start.                       *)
EXTENDS Probes, TLC

Score(f, c) == [judge_faithfulness |-> f, judge_completeness |-> c]
AllScores == {Score(0, 0), Score(95, 95)}
Accepted == {Score(95, 95)}
ThreeMonths == <<"2025-11", "2025-12", "2026-01">>
Placeholders == [m \in {"2025-11", "2025-12", "2026-01"} |->
    [expected |-> [judge_faithfulness |-> 90, judge_completeness |-> 90, total_findings |-> 3],
     tolerance |-> [judge_faithfulness |-> 5, judge_completeness |-> 5]]]
SomeCases == <<"empty_findings", "duplicate_sid">>
Outcomes == [empty_findings |-> "narrative_no_findings", duplicate_sid |-> "judge_pass"]
=============================================================================
