------------------------------ MODULE Feedback ------------------------------
(***************************************************************************)
(* The feedback of the reviewers: their decisions in the findings table    *)
(* reach the Lambda reviewer_disagreement through the table's stream; it   *)
(* queues a golden-set candidate for each decision that contradicts the    *)
(* severity of its finding, and a weekly digest mails the recent ones.     *)
(*                                                                         *)
(* The stream delivers records in order, in batches, at least once: a      *)
(* batch in which an invocation fails is delivered again from its first    *)
(* record, MaxRetry times, and is then discarded.  The stream is the       *)
(* sequence of all changes, with the position of the batch in it.          *)
(***************************************************************************)
EXTENDS Integers, Sequences, FiniteSets, FiniteSetsExt

CONSTANTS
    Finding,      \* the findings of a run
    SeverityOf,   \* the severity its rule gives a finding
    Decision,     \* the choices of a reviewer
    BatchSize,    \* batch_size: 10
    MaxRetry,     \* maximum_retry_attempts: 3
    Week,         \* days between digests, and the days a digest looks back
    FirstDue,     \* days to the first digest
    PageSize,     \* candidates that one page of a scan, 1 MB, holds
    MaxDelay,     \* days by which retries may delay a digest
    MaxChange,    \* bound: changes of the table
    Horizon,      \* bound: days
    Nil

ASSUME FeedbackAssumption ==
    /\ SeverityOf \in [Finding -> {"CRITICAL", "HIGH", "MEDIUM", "LOW"}]
    /\ Nil \notin Decision \cup {"confirmed_risk", "false_positive"}
    /\ Nil \notin {"CRITICAL", "HIGH", "MEDIUM", "LOW"}
    /\ BatchSize \in Nat \ {0} /\ MaxRetry \in Nat
    /\ Week \in Nat \ {0} /\ MaxDelay \in 0..(Week - 1)
    /\ FirstDue \in 1..Week /\ PageSize \in Nat
    /\ MaxChange \in Nat /\ Horizon \in Nat

VARIABLES
    item,         \* the findings table
    stream,       \* its changes, oldest first
    first, last,  \* the batch is first+1..last; there is none when first = last
    handled,      \* records of the batch the running invocation is done with
    tries,        \* redeliveries of the batch so far
    discarded,    \* the records of discarded batches
    made,         \* the candidate the invocation is about to put, Nil if none
    candidates,   \* the candidates table, in the order of the puts
    today, due,   \* the day, and the day of the next digest
    digests       \* the digests sent

reader == <<first, last, handled, tries, discarded, made>>
digest == <<due, digests>>
vars == <<item, stream, reader, candidates, today, digest>>

Absent == [present |-> FALSE, severity |-> Nil, decision |-> Nil]

Undecided(f) == [present |-> TRUE, severity |-> SeverityOf[f], decision |-> Nil]

\* The mapping starts at the end of the stream (LATEST) of a table in use.
Init ==
    /\ item \in {t \in [Finding -> {Absent} \cup {Undecided(f) : f \in Finding}] :
                    \A f \in Finding : t[f] \in {Absent, Undecided(f)}}
    /\ stream = <<>>
    /\ first = 0 /\ last = 0 /\ handled = 0 /\ tries = 0
    /\ discarded = {}
    /\ made = Nil
    /\ candidates = <<>>
    /\ today = 0 /\ due = FirstDue /\ digests = <<>>

-----------------------------------------------------------------------------
(* Changes of the findings table.                                          *)

Change(f, new) ==
    /\ Len(stream) < MaxChange
    /\ item' = [item EXCEPT ![f] = new]
    /\ stream' = Append(stream,
          [event |-> IF item[f].present THEN "MODIFY" ELSE "INSERT",
           finding |-> f, severity |-> new.severity,
           old |-> item[f].decision, new |-> new.decision])
    /\ UNCHANGED <<reader, candidates, today, digest>>

\* publish_triage puts a whole item, whatever it finds there; where nothing
\* changes by it, the stream has no record.
Publish(f) == item[f] # Undecided(f) /\ Change(f, Undecided(f))

\* update_item sets the decision, and makes an item where there is none.
Decide(f) ==
    \E d \in Decision :
        Change(f, [item[f] EXCEPT !.present = TRUE, !.decision = d])

-----------------------------------------------------------------------------
(* The event source mapping and the Lambda reviewer_disagreement.          *)

Diverges(r) ==
    /\ r.event = "MODIFY"
    /\ r.new # r.old /\ r.new # Nil
    /\ \/ r.severity = "CRITICAL" /\ r.new = "false_positive"
       \/ r.severity = "LOW" /\ r.new = "confirmed_risk"

Deliver ==
    /\ first = last /\ last < Len(stream)
    /\ last' \in (first + 1)..Min({first + BatchSize, Len(stream)})
    /\ UNCHANGED <<item, stream, first, handled, tries, discarded, made, candidates,
                   today, digest>>

InBatch == first + handled < last
Current == first + handled + 1

SkipRecord ==
    /\ InBatch /\ ~Diverges(stream[Current])
    /\ handled' = handled + 1
    /\ UNCHANGED <<item, stream, first, last, tries, discarded, made, candidates,
                   today, digest>>

\* _write_candidate builds the candidate, with the time it is now, ...
StampCandidate ==
    /\ InBatch /\ made = Nil /\ Diverges(stream[Current])
    /\ made' = [record |-> Current, created |-> today]
    /\ UNCHANGED <<item, stream, first, last, handled, tries, discarded, candidates,
                   today, digest>>

\* Mutant: an error of the put is logged and the loop goes on.
PutCandidateSwallowing ==
    /\ made # Nil /\ made' = Nil
    /\ candidates' \in {candidates, Append(candidates, made)}
    /\ handled' = handled + 1
    /\ UNCHANGED <<item, stream, first, last, tries, discarded, today, digest>>

\* ... and puts it; a digest may read the table in between.
PutCandidate ==
    /\ made # Nil /\ made' = Nil
    /\ candidates' = Append(candidates, made)
    /\ handled' = handled + 1
    /\ UNCHANGED <<item, stream, first, last, tries, discarded, today, digest>>

NextBatch == first' = last /\ handled' = 0 /\ tries' = 0 /\ UNCHANGED last

EndBatch ==
    /\ first < last /\ ~InBatch
    /\ NextBatch
    /\ UNCHANGED <<item, stream, discarded, made, candidates, today, digest>>

\* Mutant: one redelivery too many.
FailBatchOnceMore ==
    /\ first < last /\ made' = Nil
    /\ \/ /\ tries <= MaxRetry
          /\ tries' = tries + 1 /\ handled' = 0
          /\ UNCHANGED <<first, last, discarded>>
       \/ /\ tries > MaxRetry
          /\ NextBatch
          /\ discarded' = discarded \cup (first + 1)..last
    /\ UNCHANGED <<item, stream, candidates, today, digest>>

\* Mutant: maximum_retry_attempts is left at its default, no maximum.
FailBatchForever ==
    /\ first < last /\ made' = Nil
    /\ handled' = 0
    /\ UNCHANGED <<item, stream, first, last, tries, discarded, candidates,
                   today, digest>>

\* The put of a candidate or the invocation fails, at any point, or the answer
\* is lost.
FailBatch ==
    /\ first < last /\ made' = Nil
    /\ \/ /\ tries < MaxRetry
          /\ tries' = tries + 1 /\ handled' = 0
          /\ UNCHANGED <<first, last, discarded>>
       \/ /\ tries = MaxRetry
          /\ NextBatch
          /\ discarded' = discarded \cup (first + 1)..last
    /\ UNCHANGED <<item, stream, candidates, today, digest>>

-----------------------------------------------------------------------------
(* The digest.                                                             *)

\* A day passes unless a digest is as late as it can be; an invocation, which
\* has a minute, does not last longer than to the next.
Tick ==
    /\ today < Horizon /\ today < due + MaxDelay
    /\ made # Nil => made.created = today
    /\ today' = today + 1
    /\ UNCHANGED <<item, stream, reader, candidates, digest>>

\* What table.scan may read: a page of the table, in the order of a hash of
\* the ids, which end in random digits.  The handler asks for no second page.
Pages ==
    IF Len(candidates) <= PageSize THEN {DOMAIN candidates}
    ELSE kSubset(PageSize, DOMAIN candidates)

\* Mutant: the cut-off itself is outside.
RecentAfterCutoff(page) == {c \in page : candidates[c].created > today - Week}

\* The filter: pending and created_at >= cutoff.  No code changes the status of
\* a candidate, so all are pending.
Recent(page) == {c \in page : candidates[c].created >= today - Week}

SendDigest ==
    /\ today >= due
    /\ \E page \in Pages :
          digests' = Append(digests,
             [day |-> today, known |-> Len(candidates), listed |-> Recent(page)])
    /\ due' = due + Week
    /\ UNCHANGED <<item, stream, reader, candidates, today>>

\* The scan or SES fails, retries included: there is no mail that week.
LoseDigest ==
    /\ today >= due
    /\ due' = due + Week
    /\ UNCHANGED <<item, stream, reader, candidates, today, digests>>

-----------------------------------------------------------------------------
Next ==
    \/ \E f \in Finding : Publish(f) \/ Decide(f)
    \/ Deliver \/ SkipRecord \/ StampCandidate \/ PutCandidate
    \/ EndBatch \/ FailBatch
    \/ Tick \/ SendDigest \/ LoseDigest

\* The event source mapping polls its shard and redelivers by itself.
Fairness ==
    WF_vars(Deliver \/ SkipRecord \/ StampCandidate \/ PutCandidate \/ EndBatch)
Spec == Init /\ [][Next]_vars /\ Fairness

-----------------------------------------------------------------------------
CandidatesOf(f) == {c \in DOMAIN candidates : stream[candidates[c].record].finding = f}

\* The change that gave finding f the decision it has.
LastTurn(f) == Max({i \in DOMAIN stream : stream[i].finding = f
                                          /\ stream[i].old # stream[i].new})

\* What the reviewers see now, the queue knows: where the decision in the
\* table contradicts the severity, the newest candidate of the finding is of
\* the change that set it, once the stream has been worked off without a
\* discarded batch.  (Batches are repeated whole and in order: a candidate
\* that is out of date is followed by a newer one.)
QueueReflectsTable ==
    first = Len(stream) /\ discarded = {} =>
        \A f \in Finding :
            \/ item[f].severity = "CRITICAL" /\ item[f].decision = "false_positive"
            \/ item[f].severity = "LOW" /\ item[f].decision = "confirmed_risk"
            => /\ CandidatesOf(f) # {}
               /\ candidates[Max(CandidatesOf(f))].record = LastTurn(f)

\* One decision is queued at most once per delivery of its batch.
BoundedDuplicates ==
    \A i \in 1..Len(stream) :
        Cardinality({c \in DOMAIN candidates : candidates[c].record = i}) <= MaxRetry + 1

\* Two digests at most a week apart, the second while the table fits in a page,
\* leave out at most one candidate put between them: the first, which may have
\* been stamped before the first digest read the table and put after it.
DigestsLeaveNoGap ==
    \A k \in 2..Len(digests) :
        digests[k].day - digests[k - 1].day <= Week /\ digests[k].known <= PageSize =>
            (digests[k - 1].known + 2)..digests[k].known \subseteq digests[k].listed

\* Every change of the table is worked off: a record the Lambda cannot handle
\* does not block the shard.  Changes come to an end, at MaxChange at the latest,
\* and then nothing is left of them for good.
StreamIsWorkedOff == <>[](first = Len(stream))
=============================================================================
