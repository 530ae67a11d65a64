------------------------------ MODULE AuditRun ------------------------------
(***************************************************************************)
(* What the pipeline promises of an audit run, without its machinery: an   *)
(* execution works for a while and then enters the run in a ledger, once   *)
(* and for good, with one findings document, one narrative and a status.   *)
(* It may say "succeeded" only of a narrative that all the gates accept    *)
(* with those findings.  The findings are then listed for the reviewers,   *)
(* all of them unless the execution fails, and no others.                  *)
(***************************************************************************)
EXTENDS Gates

CONSTANTS
    Exec, Run,
    RunOf,       \* the run of an execution
    Documents,   \* the findings documents a run may have
    Texts,       \* the narratives a run may have
    Nil

VARIABLES
    phase,       \* of each execution
    ledger,      \* of each run: its entry, or Nil
    listed       \* of each run: the findings the reviewers see

auditVars == <<phase, ledger, listed>>

Phase == {"idle", "working", "recorded", "closed", "done", "failed"}
Entry == [findings : Documents, narrative : Texts,
          status : {"succeeded", "quarantined"}]

Accepted(fs, n) == \A g \in Gate : GatePasses(g, fs, n)

Init ==
    /\ phase = [e \in Exec |-> "idle"]
    /\ ledger = [r \in Run |-> Nil]
    /\ listed = [r \in Run |-> {}]

Move(e, from, to) ==
    /\ phase[e] \in from
    /\ phase' = [phase EXCEPT ![e] = to]

Begin(e) == Move(e, {"idle"}, "working") /\ UNCHANGED <<ledger, listed>>

Record(e) ==
    /\ Move(e, {"working"}, "recorded")
    /\ ledger[RunOf[e]] = Nil
    /\ \E entry \in Entry :
          /\ entry.status = "succeeded" => Accepted(entry.findings, entry.narrative)
          /\ ledger' = [ledger EXCEPT ![RunOf[e]] = entry]
    /\ UNCHANGED listed

List(e) ==
    /\ phase[e] = "recorded"
    /\ \E id \in Ids(ledger[RunOf[e]].findings) \ listed[RunOf[e]] :
          listed' = [listed EXCEPT ![RunOf[e]] = @ \cup {id}]
    /\ UNCHANGED <<phase, ledger>>

\* "closed" while a monthly report is still to be put.
Close(e) ==
    /\ Move(e, {"recorded"}, "closed") \/ Move(e, {"recorded"}, "done")
    /\ listed[RunOf[e]] = Ids(ledger[RunOf[e]].findings)
    /\ UNCHANGED <<ledger, listed>>

Attest(e) == Move(e, {"closed"}, "done") /\ UNCHANGED <<ledger, listed>>

GiveUp(e) ==
    /\ Move(e, {"working", "recorded", "closed"}, "failed")
    /\ UNCHANGED <<ledger, listed>>

Next == \E e \in Exec :
            Begin(e) \/ Record(e) \/ List(e) \/ Close(e) \/ Attest(e) \/ GiveUp(e)

Safety == Init /\ [][Next]_auditVars
Ends == \A e \in Exec : phase[e] = "working" ~> phase[e] \in {"done", "failed"}
Spec == Safety /\ Ends
=============================================================================
