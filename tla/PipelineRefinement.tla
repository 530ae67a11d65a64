------------------------- MODULE PipelineRefinement -------------------------
(***************************************************************************)
(* Pipeline implements AuditRun when executions do not share run ids.  The *)
(* entry of a run is its row with the findings and narrative that are in   *)
(* S3: the mapping looks at the objects as they are now, so that a change  *)
(* of the evidence after the row is put would not be an AuditRun step.     *)
(***************************************************************************)
EXTENDS Pipeline

EntryOf(r) ==
    IF runRow[r] = Nil THEN Nil
    ELSE [findings |-> findingsObj[r], narrative |-> narrativeObj[r],
          status |-> runRow[r].status]

PhaseOf(e) ==
    CASE state[e] = "NotStarted" -> "idle"
      [] state[e] = "Publish" /\ step[e] = 1 -> "recorded"
      [] state[e] = "GeneratePdf" -> "closed"
      [] state[e] = "Succeed" -> "done"
      [] state[e] = "FAILED" -> "failed"
      [] OTHER -> "working"

AllDocuments == UNION {Evaluate[s] : s \in Snapshot}
AllTexts == {[d EXCEPT !.consistent = c] : d \in Draft, c \in BOOLEAN}

Audit == INSTANCE AuditRun WITH
            Documents <- AllDocuments,
            Texts <- AllTexts,
            phase <- [e \in Exec |-> PhaseOf(e)],
            ledger <- [r \in Run |-> EntryOf(r)],
            listed <- [r \in Run |-> {i.id : i \in items[r]}]

\* Every run is recorded once, truthfully and for good, its findings are all
\* listed and no others, and it ends: the code's whole pipeline, seen from its
\* two tables, is an AuditRun.
ImplementsAuditRun == Audit!Spec
=============================================================================
