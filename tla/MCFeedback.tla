----------------------------- MODULE MCFeedback -----------------------------
(* Small instance of Feedback: a finding of R1 or R2 and one of R3 to R6   *)
(* (no rule of the repository has severity LOW or MEDIUM).                 *)
EXTENDS Feedback

Findings == {"F-R1-1", "F-R6-1"}
Severed == [f \in Findings |-> IF f = "F-R1-1" THEN "CRITICAL" ELSE "HIGH"]
=============================================================================
