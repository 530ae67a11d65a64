--------------------------- MODULE FeedbackProofs ---------------------------
(***************************************************************************)
(* The safety properties of Feedback, for any findings, batch size, number *)
(* of redeliveries and days between digests, without the bounds on changes *)
(* and days that its runs need.  The queue grows only at its end, so the   *)
(* invariant says of each record where it stands in the queue, of each     *)
(* finding that its newest candidate exists, and of each digest what it    *)
(* knew.                                                                   *)
(***************************************************************************)
EXTENDS Feedback, FiniteSetTheorems, TLAPS

-----------------------------------------------------------------------------
(* The invariants                                                          *)

Severity == {"CRITICAL", "HIGH", "MEDIUM", "LOW"}
Item == [present : BOOLEAN, severity : Severity \cup {Nil}, decision : Decision \cup {Nil}]
Record == [event : {"INSERT", "MODIFY"}, finding : Finding, severity : Severity \cup {Nil},
           old : Decision \cup {Nil}, new : Decision \cup {Nil}]

Candidate == [record : Nat, created : Nat]
Digest == [day : Nat, known : Nat, listed : SUBSET Nat]

\* The table, and its changes.
TableTypes ==
    /\ item \in [Finding -> Item]
    /\ \A f \in Finding : ~item[f].present => item[f].severity = Nil
    /\ stream \in Seq(Record)

\* The batch lies in the stream; only batches before it were discarded.
ReaderTypes ==
    /\ first \in Nat /\ last \in Nat /\ handled \in Nat
    /\ first + handled <= last /\ last <= Len(stream)
    /\ tries \in 0..MaxRetry
    /\ discarded \subseteq 1..first
    /\ candidates \in Seq(Candidate)
    /\ today \in Nat

\* What the invocation is about to put is of the record it is at.
MadeIsCurrent ==
    made # Nil =>
        /\ made \in Candidate
        /\ first + handled < last /\ made.record = first + handled + 1
        /\ Diverges(stream[first + handled + 1])
        /\ made.created <= today

\* Record i is the change that gave finding f the decision it has.
SetBy(f, i) ==
    /\ stream[i].finding = f /\ stream[i].old # stream[i].new
    /\ stream[i].new = item[f].decision /\ stream[i].severity = item[f].severity
    /\ stream[i].severity # Nil => stream[i].event = "MODIFY"
    /\ \A j \in DOMAIN stream : j > i /\ stream[j].finding = f => stream[j].old = stream[j].new

\* Every decision in the table came with a record of the stream.
DecisionsAreRecorded ==
    \A f \in Finding : item[f].decision # Nil => \E i \in DOMAIN stream : SetBy(f, i)

Contradicts(i) == i \in DOMAIN stream /\ Diverges(stream[i])
Queued(i) == \E c \in DOMAIN candidates :
                /\ candidates[c].record = i
                /\ \A d \in DOMAIN candidates : d > c => candidates[d].record >= i

\* The queue has the records delivered so far that contradict a severity, and
\* no others; behind each of them come its own repetitions and later records.
QueueIsInOrder ==
    /\ \A c \in DOMAIN candidates : candidates[c].record <= last /\ Contradicts(candidates[c].record)
    /\ \A i \in 1..first + handled : Contradicts(i) /\ i \notin discarded => Queued(i)

\* Every finding with candidates has a newest one.
NewestExists ==
    \A f \in Finding : CandidatesOf(f) # {} =>
        \E c \in CandidatesOf(f) : \A d \in CandidatesOf(f) : c >= d

\* How often record i can be in the queue: once for each delivery of its batch
\* that came to it.
Deliveries(i) ==
    IF i <= first THEN MaxRetry + 1
    ELSE IF i <= first + handled THEN tries + 1
    ELSE IF i <= last THEN tries ELSE 0
CopiesOf(i) == {c \in DOMAIN candidates : candidates[c].record = i}
CopiesAreBounded == \A i \in Nat : Cardinality(CopiesOf(i)) <= Deliveries(i)

\* A digest knows the candidates put before it, and lists the recent ones if it
\* has read them all.  Of those put after it only the first may have been
\* stamped before it, for puts are made one after the other.
DigestsAreExact ==
    /\ digests \in Seq(Digest)
    /\ \A k \in DOMAIN digests :
          /\ digests[k].day <= today /\ digests[k].known <= Len(candidates)
          /\ \A c \in DOMAIN candidates : c > digests[k].known + 1 => candidates[c].created >= digests[k].day
          /\ made # Nil /\ Len(candidates) > digests[k].known => made.created >= digests[k].day
          /\ digests[k].known <= PageSize => \A c \in DOMAIN candidates :
                c <= digests[k].known /\ candidates[c].created >= digests[k].day - Week => c \in digests[k].listed
    /\ \A c \in DOMAIN candidates : candidates[c].created <= today

FeedbackInv ==
    /\ TableTypes /\ ReaderTypes /\ MadeIsCurrent
    /\ DecisionsAreRecorded
    /\ QueueIsInOrder /\ NewestExists /\ CopiesAreBounded
    /\ DigestsAreExact

-----------------------------------------------------------------------------
(* Sequences                                                               *)

LEMMA AppendIs ==
    ASSUME NEW S, NEW s \in Seq(S), NEW e \in S, NEW t, t = Append(s, e)
    PROVE  /\ t \in Seq(S) /\ Len(s) \in Nat /\ Len(t) = Len(s) + 1
           /\ DOMAIN s = 1..Len(s) /\ DOMAIN t = 1..Len(s) + 1
           /\ \A i \in 1..Len(s) : t[i] = s[i]
           /\ t[Len(s) + 1] = e
  OBVIOUS

LEMMA ElementIs ==
    ASSUME NEW S, NEW s \in Seq(S), NEW i \in DOMAIN s
    PROVE  s[i] \in S /\ i \in 1..Len(s) /\ Len(s) \in Nat
  OBVIOUS

-----------------------------------------------------------------------------
(* Changes of the table                                                    *)

\* A change replaces an item by one the triage put, or only sets its decision.
LEMMA ChangeCases ==
    ASSUME TableTypes, NEW f \in Finding, Publish(f) \/ Decide(f)
    PROVE  \E new \in Item :
              /\ Change(f, new)
              /\ new.present
              /\ \/ new.decision = Nil
                 \/ new.severity = item[f].severity
  <1>1. CASE Publish(f)
    <2>1. Undecided(f) \in Item /\ Undecided(f).present /\ Undecided(f).decision = Nil
      BY FeedbackAssumption DEF Undecided, Item, Severity
    <2> QED BY <1>1, <2>1 DEF Publish
  <1>2. CASE Decide(f)
    <2>1. PICK d \in Decision : Change(f, [item[f] EXCEPT !.present = TRUE, !.decision = d])
      BY <1>2 DEF Decide
    <2> DEFINE new == [item[f] EXCEPT !.present = TRUE, !.decision = d]
    <2>2. item[f] \in Item
      BY DEF TableTypes
    <2>3. new \in Item /\ new.present /\ new.severity = item[f].severity
      BY <2>2 DEF Item
    <2> QED BY <2>1, <2>3
  <1> QED BY <1>1, <1>2

LEMMA TableStep ==
    ASSUME FeedbackInv, NEW f \in Finding, Publish(f) \/ Decide(f)
    PROVE  FeedbackInv'
  <1> USE DEF FeedbackInv
  <1>1. PICK new \in Item :
            /\ Change(f, new) /\ new.present
            /\ new.decision = Nil \/ new.severity = item[f].severity
    BY ChangeCases
  <1> DEFINE r == [event |-> IF item[f].present THEN "MODIFY" ELSE "INSERT",
                   finding |-> f, severity |-> new.severity,
                   old |-> item[f].decision, new |-> new.decision]
  <1>n. PICK n \in Nat : n = Len(stream)
    BY DEF TableTypes
  <1>2. /\ item' = [item EXCEPT ![f] = new] /\ stream' = Append(stream, r)
        /\ UNCHANGED <<reader, candidates, today, digest>>
    BY <1>1 DEF Change
  <1>3. item[f] \in Item /\ item \in [Finding -> Item] /\ stream \in Seq(Record)
    BY DEF TableTypes
  <1>4. r \in Record
    BY <1>3 DEF Item, Record
  <1>5. /\ r.finding = f /\ r.old = item[f].decision /\ r.new = new.decision
        /\ r.severity = new.severity
        /\ (r.event = "MODIFY") <=> item[f].present
    OBVIOUS
  <1> HIDE DEF r
  <1>6. /\ stream' \in Seq(Record) /\ n \in Nat /\ Len(stream') = n + 1
        /\ DOMAIN stream = 1..n /\ DOMAIN stream' = 1..n + 1
        /\ \A i \in 1..n : stream'[i] = stream[i]
        /\ stream'[n + 1] = r
    BY <1>n, <1>2, <1>3, <1>4, AppendIs
  <1>7. /\ item'[f] = new /\ item' \in [Finding -> Item]
        /\ \A g \in Finding \ {f} : item'[g] = item[g]
    BY <1>2, <1>3
  <1>8. TableTypes'
    BY <1>1, <1>6, <1>7 DEF TableTypes
  <1>9. ReaderTypes'
    BY <1>n, <1>2, <1>6 DEF ReaderTypes, reader
  <1>10. DecisionsAreRecorded'
    <2>1. ASSUME NEW g \in Finding \ {f}, NEW i \in 1..n, SetBy(g, i)
          PROVE  SetBy(g, i)'
      <3>1. item'[g] = item[g] /\ stream'[i] = stream[i]
        BY <1>6, <1>7
      <3>2. \A j \in 1..n : j > i /\ stream'[j].finding = g => stream'[j].old = stream'[j].new
        BY <1>6, <2>1 DEF SetBy
      <3>3. stream'[n + 1].finding # g
        BY <1>5, <1>6
      <3>4. \A j \in 1..n + 1 : j \in 1..n \/ j = n + 1
        OBVIOUS
      <3>5. \A j \in DOMAIN stream' : j > i /\ stream'[j].finding = g => stream'[j].old = stream'[j].new
        BY <1>6, <3>2, <3>3, <3>4
      <3> HIDE DEF FeedbackInv
      <3> QED BY <2>1, <3>1, <3>5 DEF SetBy
    <2>2. ASSUME new.decision # Nil, new.decision = item[f].decision, NEW i \in 1..n, SetBy(f, i)
          PROVE  SetBy(f, i)'
      <3>1. item'[f] = new /\ stream'[i] = stream[i] /\ new.severity = item[f].severity
        BY <1>1, <1>6, <1>7, <2>2
      <3>2. \A j \in 1..n : j > i /\ stream'[j].finding = f => stream'[j].old = stream'[j].new
        BY <1>6, <2>2 DEF SetBy
      <3>3. stream'[n + 1].old = stream'[n + 1].new
        BY <1>5, <1>6, <2>2
      <3>4. \A j \in 1..n + 1 : j \in 1..n \/ j = n + 1
        OBVIOUS
      <3>5. \A j \in DOMAIN stream' : j > i /\ stream'[j].finding = f => stream'[j].old = stream'[j].new
        BY <1>6, <3>2, <3>3, <3>4
      <3> HIDE DEF FeedbackInv
      <3> QED BY <2>2, <3>1, <3>5 DEF SetBy
    <2>3. ASSUME new.decision # Nil, new.decision # item[f].decision
          PROVE  SetBy(f, n + 1)'
      <3>1. new.severity = item[f].severity
        BY <1>1, <2>3
      <3>2. new.severity # Nil => r.event = "MODIFY"
        BY <1>5, <3>1 DEF TableTypes
      <3>3. \A j \in DOMAIN stream' : ~(j > n + 1)
        BY <1>6
      <3> QED BY <1>5, <1>6, <1>7, <2>3, <3>2, <3>3 DEF SetBy
    <2>4. ASSUME NEW g \in Finding, item'[g].decision # Nil
          PROVE  \E i \in 1..n + 1 : SetBy(g, i)'
      <3>1. CASE g # f
        <4>1. PICK i \in 1..n : SetBy(g, i)
          BY <1>6, <1>7, <2>4, <3>1 DEF DecisionsAreRecorded
        <4> QED BY <1>6, <2>1, <3>1, <4>1
      <3>2. CASE g = f /\ new.decision = item[f].decision
        <4>1. PICK i \in 1..n : SetBy(f, i)
          BY <1>6, <1>7, <2>4, <3>2 DEF DecisionsAreRecorded
        <4> QED BY <1>6, <1>7, <2>2, <2>4, <3>2, <4>1
      <3>3. CASE g = f /\ new.decision # item[f].decision
        <4>1. SetBy(f, n + 1)' /\ n + 1 \in 1..n + 1
          BY <1>6, <1>7, <2>3, <2>4, <3>3
        <4> QED BY <3>3, <4>1
      <3> QED BY <3>1, <3>2, <3>3
    <2> QED BY <1>6, <2>4 DEF DecisionsAreRecorded
  <1>11. \A i \in 1..last : Contradicts(i)' = Contradicts(i)
    BY <1>n, <1>6 DEF Contradicts, ReaderTypes
  <1>12. QueueIsInOrder'
    <2>1. \A i : Queued(i)' = Queued(i)
      BY <1>2 DEF Queued
    <2>2. 1..first + handled \subseteq 1..last /\ \A c \in DOMAIN candidates : candidates[c].record \in 1..last
      BY <1>6 DEF ReaderTypes, QueueIsInOrder, Contradicts
    <2> QED BY <1>2, <1>11, <2>1, <2>2 DEF QueueIsInOrder, reader
  <1>13. NewestExists'
    <2>1. \A c \in DOMAIN candidates : stream'[candidates[c].record] = stream[candidates[c].record]
      BY <1>6 DEF QueueIsInOrder, Contradicts
    <2>2. \A g \in Finding : CandidatesOf(g)' = CandidatesOf(g)
      BY <1>2, <2>1 DEF CandidatesOf
    <2> QED BY <2>2 DEF NewestExists
  <1>14. CopiesAreBounded'
    BY <1>2 DEF CopiesAreBounded, CopiesOf, Deliveries, reader
  <1>15. DigestsAreExact'
    BY <1>2 DEF DigestsAreExact, digest, reader
  <1>16. MadeIsCurrent'
    <2>1. made # Nil => first + handled + 1 \in 1..n
      BY <1>n DEF MadeIsCurrent, ReaderTypes
    <2>2. made # Nil => stream'[first + handled + 1] = stream[first + handled + 1]
      BY <1>6, <2>1
    <2> QED BY <1>2, <2>2 DEF MadeIsCurrent, reader
  <1> QED BY <1>8, <1>9, <1>10, <1>12, <1>13, <1>14, <1>15, <1>16

-----------------------------------------------------------------------------
(* Steps of the reader and of the digest                                   *)

\* What no step but a change of the table disturbs.
LEMMA TableStays ==
    ASSUME FeedbackInv, UNCHANGED <<item, stream>>
    PROVE  /\ TableTypes' /\ DecisionsAreRecorded'
           /\ \A i : Contradicts(i)' = Contradicts(i)
  BY DEF FeedbackInv, TableTypes, DecisionsAreRecorded, SetBy, Contradicts

\* What a step disturbs only by a new candidate.
LEMMA QueueStays ==
    ASSUME FeedbackInv, UNCHANGED <<stream, candidates>>
    PROVE  /\ NewestExists'
           /\ \A i : Queued(i)' = Queued(i) /\ CopiesOf(i)' = CopiesOf(i)
  BY DEF FeedbackInv, NewestExists, CandidatesOf, Queued, CopiesOf

LEMMA DigestsStay ==
    ASSUME FeedbackInv, UNCHANGED <<candidates, today, digest>>, made' \in {made, Nil}
    PROVE  DigestsAreExact'
  BY DEF FeedbackInv, DigestsAreExact, digest

LEMMA SmallerOfTwo ==
    ASSUME NEW a \in Int, NEW b \in Int
    PROVE  Min({a, b}) \in Int /\ Min({a, b}) <= b
  <1>1. \E x \in {a, b} : \A y \in {a, b} : x <= y
    OBVIOUS
  <1> QED BY <1>1 DEF Min

LEMMA CopiesCount ==
    ASSUME FeedbackInv, NEW i \in Nat
    PROVE  IsFiniteSet(CopiesOf(i)) /\ Cardinality(CopiesOf(i)) \in Nat
  <1>1. Len(candidates) \in Nat /\ CopiesOf(i) \in SUBSET (1..Len(candidates))
    BY DEF FeedbackInv, ReaderTypes, CopiesOf
  <1>2. IsFiniteSet(CopiesOf(i))
    <2>1. IsFiniteSet(1..Len(candidates))
      BY <1>1, FS_Interval
    <2> QED BY <1>1, <2>1, FS_Subset
  <1> QED BY <1>2, FS_CardinalityType

\* The steps that move the batch but queue nothing: a record that is not
\* delivered again is queued if it has to be, and may be queued no less often.
LEMMA BatchMoves ==
    ASSUME FeedbackInv, UNCHANGED <<item, stream, candidates, today, digest>>,
           ReaderTypes', last <= last', made' = Nil,
           \A i \in Nat : Deliveries(i) <= Deliveries(i)',
           \A i \in 1..first' + handled' : Contradicts(i) /\ i \notin discarded' =>
              i \in 1..first + handled /\ i \notin discarded
    PROVE  FeedbackInv'
  <1> USE DEF FeedbackInv
  <1>1. /\ TableTypes' /\ DecisionsAreRecorded' /\ NewestExists' /\ DigestsAreExact'
        /\ \A i : Contradicts(i)' = Contradicts(i)
        /\ \A i : Queued(i)' = Queued(i) /\ CopiesOf(i)' = CopiesOf(i)
    BY TableStays, QueueStays, DigestsStay
  <1>2. QueueIsInOrder'
    <2>1. ASSUME NEW c \in DOMAIN candidates
          PROVE  candidates[c].record <= last'
      BY DEF QueueIsInOrder, ReaderTypes, Contradicts
    <2> QED BY <1>1, <2>1 DEF QueueIsInOrder
  <1>3. CopiesAreBounded'
    <2> SUFFICES ASSUME NEW i \in Nat
                 PROVE  Cardinality(CopiesOf(i)) <= Deliveries(i)'
      BY <1>1 DEF CopiesAreBounded
    <2>1. Cardinality(CopiesOf(i)) \in Nat
      BY CopiesCount
    <2>2. Deliveries(i) \in Int /\ Deliveries(i)' \in Int
      <3>1. MaxRetry \in Int /\ tries \in Int /\ tries' \in Int
        BY FeedbackAssumption DEF ReaderTypes
      <3> QED BY <3>1 DEF Deliveries
    <2> QED BY <2>1, <2>2 DEF CopiesAreBounded
  <1>4. MadeIsCurrent'
    BY DEF MadeIsCurrent
  <1> QED BY <1>1, <1>2, <1>3, <1>4

LEMMA DeliverStep ==
    ASSUME FeedbackInv, Deliver
    PROVE  FeedbackInv'
  <1>1. /\ first = last /\ last < Len(stream)
        /\ last' \in (first + 1)..Min({first + BatchSize, Len(stream)})
        /\ UNCHANGED <<item, stream, first, handled, tries, discarded, made, candidates, today, digest>>
    BY DEF Deliver
  <1>2. ReaderTypes /\ Len(stream) \in Nat /\ made = Nil
    BY <1>1 DEF FeedbackInv, TableTypes, MadeIsCurrent, ReaderTypes
  <1>3. last' \in Nat /\ last <= last' /\ last' <= Len(stream)
    <2> DEFINE a == first + BatchSize
               b == Len(stream)
    <2>1. a \in Int /\ b \in Int /\ first \in Nat
      BY <1>2, FeedbackAssumption DEF ReaderTypes
    <2>2. Min({a, b}) \in Int /\ Min({a, b}) <= b
      BY <2>1, SmallerOfTwo
    <2> QED BY <1>1, <2>1, <2>2
  <1>4. ReaderTypes'
    BY <1>1, <1>2, <1>3 DEF ReaderTypes
  <1>5. \A i \in Nat : Deliveries(i) <= Deliveries(i)'
    BY <1>1, <1>2, <1>3, FeedbackAssumption DEF ReaderTypes, Deliveries
  <1> QED BY <1>1, <1>2, <1>3, <1>4, <1>5, BatchMoves

LEMMA EndBatchStep ==
    ASSUME FeedbackInv, EndBatch
    PROVE  FeedbackInv'
  <1>1. /\ first < last /\ ~(first + handled < last)
        /\ first' = last /\ handled' = 0 /\ tries' = 0
        /\ UNCHANGED <<item, stream, last, discarded, made, candidates, today, digest>>
    BY DEF EndBatch, InBatch, NextBatch
  <1>2. ReaderTypes /\ first + handled = last /\ made = Nil
    BY <1>1 DEF FeedbackInv, ReaderTypes, MadeIsCurrent
  <1>3. ReaderTypes'
    BY <1>1, <1>2, FeedbackAssumption DEF ReaderTypes
  <1>4. \A i \in Nat : Deliveries(i) <= Deliveries(i)'
    BY <1>1, <1>2, FeedbackAssumption DEF ReaderTypes, Deliveries
  <1> QED BY <1>1, <1>2, <1>3, <1>4, BatchMoves DEF ReaderTypes

LEMMA FailBatchStep ==
    ASSUME FeedbackInv, FailBatch
    PROVE  FeedbackInv'
  <1>1. /\ first < last /\ ReaderTypes /\ made' = Nil
        /\ UNCHANGED <<item, stream, candidates, today, digest>>
    BY DEF FailBatch, FeedbackInv
  <1>2. CASE /\ tries < MaxRetry /\ tries' = tries + 1 /\ handled' = 0
             /\ UNCHANGED <<first, last, discarded>>
    <2>1. ReaderTypes'
      BY <1>1, <1>2, FeedbackAssumption DEF ReaderTypes
    <2>2. \A i \in Nat : Deliveries(i) <= Deliveries(i)'
      BY <1>1, <1>2, FeedbackAssumption DEF ReaderTypes, Deliveries
    <2> QED BY <1>1, <1>2, <2>1, <2>2, BatchMoves DEF ReaderTypes
  <1>3. CASE /\ tries = MaxRetry /\ first' = last /\ handled' = 0 /\ tries' = 0
             /\ UNCHANGED last /\ discarded' = discarded \cup (first + 1)..last
    <2>1. ReaderTypes'
      BY <1>1, <1>3, FeedbackAssumption DEF ReaderTypes
    <2>2. \A i \in Nat : Deliveries(i) <= Deliveries(i)'
      BY <1>1, <1>3, FeedbackAssumption DEF ReaderTypes, Deliveries
    <2>3. \A i \in 1..first' + handled' : i \notin discarded' =>
             i \in 1..first + handled /\ i \notin discarded
      BY <1>1, <1>3 DEF ReaderTypes
    <2> QED BY <1>1, <1>3, <2>1, <2>2, <2>3, BatchMoves DEF ReaderTypes
  <1> QED BY <1>1, <1>2, <1>3 DEF FailBatch, NextBatch

LEMMA SkipStep ==
    ASSUME FeedbackInv, SkipRecord
    PROVE  FeedbackInv'
  <1> USE DEF FeedbackInv
  <1>1. /\ first + handled < last /\ handled' = handled + 1
        /\ ~Diverges(stream[Current])
        /\ UNCHANGED <<item, stream, first, last, tries, discarded, made, candidates, today, digest>>
    BY DEF SkipRecord, InBatch
  <1>2. /\ ReaderTypes /\ Len(stream) \in Nat /\ DOMAIN stream = 1..Len(stream)
        /\ Current \in 1..last /\ Current = first + handled + 1 /\ made = Nil
    BY <1>1 DEF TableTypes, ReaderTypes, Current, MadeIsCurrent
  <1>3. ReaderTypes'
    BY <1>1, <1>2 DEF ReaderTypes
  <1>4. \A i \in Nat : Deliveries(i) <= Deliveries(i)'
    BY <1>1, <1>2, FeedbackAssumption DEF ReaderTypes, Deliveries
  <1>5. \A i \in 1..first' + handled' : Contradicts(i) /\ i \notin discarded' =>
           i \in 1..first + handled /\ i \notin discarded
    BY <1>1, <1>2 DEF ReaderTypes, Contradicts
  <1> QED BY <1>1, <1>2, <1>3, <1>4, <1>5, BatchMoves DEF ReaderTypes

LEMMA StampStep ==
    ASSUME FeedbackInv, StampCandidate
    PROVE  FeedbackInv'
  <1> USE DEF FeedbackInv
  <1>1. /\ first + handled < last /\ Diverges(stream[Current]) /\ Current = first + handled + 1
        /\ made' = [record |-> Current, created |-> today]
        /\ UNCHANGED <<item, stream, first, last, handled, tries, discarded, candidates, today, digest>>
    BY DEF StampCandidate, InBatch, Current
  <1>2. /\ TableTypes' /\ DecisionsAreRecorded' /\ NewestExists'
        /\ \A i : Contradicts(i)' = Contradicts(i)
        /\ \A i : Queued(i)' = Queued(i) /\ CopiesOf(i)' = CopiesOf(i)
    BY <1>1, TableStays, QueueStays
  <1>3. ReaderTypes' /\ QueueIsInOrder' /\ CopiesAreBounded'
    BY <1>1, <1>2 DEF ReaderTypes, QueueIsInOrder, CopiesAreBounded, Deliveries
  <1>4. MadeIsCurrent'
    BY <1>1 DEF MadeIsCurrent, Candidate, ReaderTypes
  <1>5. DigestsAreExact'
    <2>1. made'.created = today
      BY <1>1
    <2> QED BY <1>1, <2>1 DEF DigestsAreExact, digest
  <1> QED BY <1>2, <1>3, <1>4, <1>5

LEMMA PutStep ==
    ASSUME FeedbackInv, PutCandidate
    PROVE  FeedbackInv'
  <1> USE DEF FeedbackInv
  <1>1. /\ handled' = handled + 1 /\ made # Nil /\ made' = Nil
        /\ candidates' = Append(candidates, made)
        /\ UNCHANGED <<item, stream, first, last, tries, discarded, today, digest>>
    BY DEF PutCandidate
  <1>2. /\ ReaderTypes /\ Len(stream) \in Nat /\ DOMAIN stream = 1..Len(stream)
        /\ first + handled < last /\ Current \in 1..last /\ Current = first + handled + 1
        /\ Diverges(stream[Current])
        /\ made \in Candidate /\ made.record = Current /\ made.created <= today
    BY <1>1 DEF TableTypes, ReaderTypes, Current, MadeIsCurrent
  <1>n. PICK n \in Nat, q \in Nat : n = Len(candidates) /\ q = Current
    BY <1>2 DEF ReaderTypes
  <1>4. /\ candidates' \in Seq(Candidate)
        /\ DOMAIN candidates = 1..n /\ DOMAIN candidates' = 1..n + 1 /\ Len(candidates') = n + 1
        /\ \A c \in 1..n : candidates'[c] = candidates[c]
        /\ candidates'[n + 1] = made /\ candidates'[n + 1].record = q
    BY <1>1, <1>2, <1>n, AppendIs DEF ReaderTypes
  <1>5. ReaderTypes'
    BY <1>1, <1>2, <1>4 DEF ReaderTypes
  <1>6. /\ TableTypes' /\ DecisionsAreRecorded'
        /\ \A i : Contradicts(i)' = Contradicts(i)
    BY <1>1, TableStays
  <1>7. Contradicts(q) /\ q = first + handled + 1 /\ q <= last /\ q \in Nat
    BY <1>2, <1>4, <1>n DEF Contradicts, ReaderTypes
  <1>8. QueueIsInOrder'
    <2>1. ASSUME NEW c \in 1..n + 1
          PROVE  candidates'[c].record <= last /\ Contradicts(candidates'[c].record)
      <3>1. CASE c = n + 1
        BY <1>4, <1>7, <3>1
      <3>2. CASE c \in 1..n
        BY <1>4, <3>2 DEF QueueIsInOrder
      <3> QED BY <2>1, <3>1, <3>2
    <2>2. ASSUME NEW i \in 1..first + handled, Queued(i)
          PROVE  Queued(i)'
      <3>1. PICK c \in 1..n : /\ candidates[c].record = i
                              /\ \A d \in 1..n : d > c => candidates[d].record >= i
        BY <1>4, <2>2 DEF Queued
      <3>2. \A d \in 1..n + 1 : d > c => candidates'[d].record >= i
        <4>1. ASSUME NEW d \in 1..n, d > c PROVE candidates'[d].record >= i
          BY <1>4, <3>1, <4>1
        <4>2. candidates'[n + 1].record >= i
          BY <1>2, <1>4, <1>7 DEF ReaderTypes
        <4>3. \A d \in 1..n + 1 : d \in 1..n \/ d = n + 1
          OBVIOUS
        <4> QED BY <4>1, <4>2, <4>3
      <3>3. c \in DOMAIN candidates' /\ candidates'[c].record = i
        BY <1>4, <3>1
      <3> QED BY <1>4, <3>2, <3>3 DEF Queued
    <2>3. Queued(q)'
      <3>1. n + 1 \in 1..n + 1 /\ \A d \in 1..n + 1 : ~(d > n + 1)
        OBVIOUS
      <3> QED BY <1>4, <3>1 DEF Queued
    <2>4. \A i \in 1..first + handled + 1 : i \in 1..first + handled \/ i = q
      BY <1>2, <1>7 DEF ReaderTypes
    <2>5. \A i \in 1..first + handled + 1 : Contradicts(i) /\ i \notin discarded => Queued(i)'
      BY <2>2, <2>3, <2>4 DEF QueueIsInOrder
    <2>6. first' + handled' = first + handled + 1
      BY <1>1, <1>2 DEF ReaderTypes
    <2> QED BY <1>1, <1>4, <1>6, <2>1, <2>5, <2>6 DEF QueueIsInOrder
  <1>9. NewestExists'
    <2> SUFFICES ASSUME NEW f \in Finding, CandidatesOf(f)' # {}
                 PROVE  \E c \in CandidatesOf(f)' : \A d \in CandidatesOf(f)' : c >= d
      BY DEF NewestExists
    <2>1. CandidatesOf(f)' = {c \in 1..n + 1 : stream[candidates'[c].record].finding = f}
      BY <1>1, <1>4 DEF CandidatesOf
    <2>2. CASE stream[q].finding = f
      <3>1. n + 1 \in CandidatesOf(f)'
        BY <1>4, <2>1, <2>2
      <3> QED BY <2>1, <3>1
    <2>3. CASE stream[q].finding # f
      <3>1. CandidatesOf(f)' = CandidatesOf(f)
        BY <1>4, <2>1, <2>3 DEF CandidatesOf
      <3> QED BY <3>1 DEF NewestExists
    <2> QED BY <2>2, <2>3
  <1>10. CopiesAreBounded'
    <2> SUFFICES ASSUME NEW i \in Nat
                 PROVE  Cardinality(CopiesOf(i)') <= Deliveries(i)'
      BY DEF CopiesAreBounded
    <2>1. /\ Cardinality(CopiesOf(i)) \in Nat /\ Cardinality(CopiesOf(i)) <= Deliveries(i)
          /\ IsFiniteSet(CopiesOf(i))
      BY CopiesCount DEF CopiesAreBounded
    <2>2. CASE i # q
      <3>1. CopiesOf(i)' = CopiesOf(i)
        BY <1>4, <2>2 DEF CopiesOf
      <3>2. Deliveries(i)' = Deliveries(i)
        BY <1>1, <1>2, <1>7, <2>2 DEF ReaderTypes, Deliveries
      <3> QED BY <2>1, <3>1, <3>2
    <2>3. CASE i = q
      <3>1. CopiesOf(i)' = CopiesOf(i) \cup {n + 1}
        BY <1>4, <2>3 DEF CopiesOf
      <3>2. Cardinality(CopiesOf(i)') <= Cardinality(CopiesOf(i)) + 1
        BY <2>1, <3>1, FS_AddElement
      <3>3. Deliveries(i) = tries /\ Deliveries(i)' = tries + 1 /\ tries \in Nat
        BY <1>1, <1>2, <1>7, <2>3, FeedbackAssumption DEF ReaderTypes, Deliveries
      <3>4. Cardinality(CopiesOf(i)') \in Nat
        BY <2>1, <3>1, FS_AddElement, FS_CardinalityType
      <3> QED BY <2>1, <3>2, <3>3, <3>4
    <2> QED BY <2>2, <2>3
  <1>11. DigestsAreExact'
    <2>1. /\ today \in Nat /\ today' = today /\ digests' = digests
          /\ digests \in Seq(Digest)
      BY <1>1, <1>2 DEF ReaderTypes, digest, DigestsAreExact
    <2>2. ASSUME NEW k \in DOMAIN digests
          PROVE  /\ digests[k].day <= today /\ digests[k].known <= n + 1
                 /\ \A c \in 1..n + 1 : c > digests[k].known + 1 => candidates'[c].created >= digests[k].day
                 /\ digests[k].known <= PageSize => \A c \in 1..n + 1 :
                       c <= digests[k].known /\ candidates'[c].created >= digests[k].day - Week
                          => c \in digests[k].listed
      <3>1. /\ digests[k].day \in Nat /\ digests[k].known \in Nat
            /\ digests[k].day <= today /\ digests[k].known <= n
        <4>1. digests[k] \in Digest
          BY <2>1, ElementIs
        <4>2. digests[k].day \in Nat /\ digests[k].known \in Nat
          BY <4>1 DEF Digest
        <4> QED BY <1>n, <4>2 DEF DigestsAreExact
      <3>2. ASSUME NEW c \in 1..n + 1, c > digests[k].known + 1
            PROVE  candidates'[c].created >= digests[k].day
        <4>1. CASE c \in 1..n
          BY <1>4, <3>2, <4>1 DEF DigestsAreExact
        <4>2. CASE c = n + 1
          <5>1. Len(candidates) > digests[k].known
            BY <1>n, <3>1, <3>2, <4>2
          <5>2. made.created >= digests[k].day
            BY <1>1, <5>1 DEF DigestsAreExact
          <5> QED BY <1>4, <4>2, <5>2
        <4> QED BY <4>1, <4>2
      <3>3. ASSUME digests[k].known <= PageSize, NEW c \in 1..n + 1, c <= digests[k].known,
                   candidates'[c].created >= digests[k].day - Week
            PROVE  c \in digests[k].listed
        <4>1. c \in 1..n
          BY <3>1, <3>3
        <4> QED BY <1>4, <3>3, <4>1 DEF DigestsAreExact
      <3> QED BY <3>1, <3>2, <3>3
    <2>3. ASSUME NEW c \in 1..n + 1
          PROVE  candidates'[c].created <= today
      <3>1. CASE c \in 1..n
        BY <1>4, <3>1 DEF DigestsAreExact
      <3>2. CASE c = n + 1
        BY <1>2, <1>4, <3>2
      <3> QED BY <3>1, <3>2
    <2> QED BY <1>1, <1>4, <2>1, <2>2, <2>3 DEF DigestsAreExact
  <1>12. MadeIsCurrent'
    BY <1>1 DEF MadeIsCurrent
  <1> QED BY <1>5, <1>6, <1>8, <1>9, <1>10, <1>11, <1>12

\* A page is of the table, and is the table where the table fits in it.
LEMMA PageIs ==
    ASSUME NEW page \in Pages
    PROVE  /\ page \subseteq DOMAIN candidates
           /\ Len(candidates) <= PageSize => page = DOMAIN candidates
  BY DEF Pages, kSubset

LEMMA DigestStep ==
    ASSUME FeedbackInv, Tick \/ SendDigest \/ LoseDigest
    PROVE  FeedbackInv'
  <1> USE DEF FeedbackInv
  <1>1. /\ UNCHANGED <<item, stream, reader, candidates>> /\ today \in Nat /\ today' \in Nat
        /\ today <= today'
    BY DEF Tick, SendDigest, LoseDigest, ReaderTypes
  <1>2. /\ TableTypes' /\ DecisionsAreRecorded' /\ NewestExists'
        /\ \A i : Contradicts(i)' = Contradicts(i)
        /\ \A i : Queued(i)' = Queued(i) /\ CopiesOf(i)' = CopiesOf(i)
    BY <1>1, TableStays, QueueStays
  <1>3. ReaderTypes' /\ QueueIsInOrder' /\ CopiesAreBounded'
    BY <1>1, <1>2 DEF ReaderTypes, QueueIsInOrder, CopiesAreBounded, Deliveries, reader
  <1>m. MadeIsCurrent'
    <2>1. made # Nil => made.created \in Nat
      BY DEF MadeIsCurrent, Candidate
    <2> QED BY <1>1, <2>1 DEF MadeIsCurrent, reader
  <1>n. PICK n \in Nat : n = Len(candidates) /\ DOMAIN candidates = 1..n
    BY DEF ReaderTypes
  <1>4. \A c \in 1..n : candidates[c].created \in Nat /\ candidates[c].created <= today
    <2> SUFFICES ASSUME NEW c \in 1..n
                 PROVE  candidates[c].created \in Nat /\ candidates[c].created <= today
      OBVIOUS
    <2>1. candidates[c] \in Candidate
      BY <1>n, ElementIs DEF ReaderTypes
    <2> QED BY <1>n, <2>1 DEF Candidate, DigestsAreExact
  <1>5. CASE UNCHANGED digests
    <2>1. \A k \in DOMAIN digests : digests[k].day \in Nat
      <3> SUFFICES ASSUME NEW k \in DOMAIN digests PROVE digests[k].day \in Nat
        OBVIOUS
      <3>1. digests[k] \in Digest
        BY ElementIs DEF DigestsAreExact
      <3> QED BY <3>1 DEF Digest
    <2>2. \A k \in DOMAIN digests : digests[k].day <= today'
      BY <1>1, <2>1 DEF DigestsAreExact
    <2>3. \A c \in 1..n : candidates[c].created <= today'
      BY <1>1, <1>4
    <2>4. DigestsAreExact'
      BY <1>1, <1>n, <1>5, <2>2, <2>3 DEF DigestsAreExact, reader
    <2> QED BY <1>2, <1>3, <1>m, <2>4
  <1>6. CASE SendDigest
    <2>p. PICK page \in Pages :
             digests' = Append(digests, [day |-> today, known |-> Len(candidates), listed |-> Recent(page)])
      BY <1>6 DEF SendDigest
    <2> DEFINE new == [day |-> today, known |-> Len(candidates), listed |-> Recent(page)]
    <2>m. PICK m \in Nat : m = Len(digests)
      BY DEF DigestsAreExact
    <2>1. /\ digests' = Append(digests, new) /\ today' = today /\ UNCHANGED made
          /\ digests \in Seq(Digest)
      BY <1>1, <1>6, <2>p DEF SendDigest, DigestsAreExact, reader
    <2>2. new \in Digest
      <3>1. Recent(page) \subseteq 1..n
        BY <1>n, PageIs DEF Recent
      <3> QED BY <1>1, <1>n, <3>1 DEF Digest
    <2>3. /\ new.day = today /\ new.known = n
          /\ n <= PageSize => \A c \in 1..n : candidates[c].created >= today - Week => c \in new.listed
      BY <1>n, PageIs DEF Recent
    <2> HIDE DEF new
    <2>4. /\ digests' \in Seq(Digest)
          /\ DOMAIN digests = 1..m /\ DOMAIN digests' = 1..m + 1
          /\ \A k \in 1..m : digests'[k] = digests[k]
          /\ digests'[m + 1] = new
      BY <2>m, <2>1, <2>2, AppendIs
    <2>5. ASSUME NEW k \in 1..m + 1
          PROVE  /\ digests'[k].day <= today /\ digests'[k].known <= n
                 /\ \A c \in 1..n : c > digests'[k].known + 1 => candidates[c].created >= digests'[k].day
                 /\ made # Nil /\ n > digests'[k].known => made.created >= digests'[k].day
                 /\ digests'[k].known <= PageSize => \A c \in 1..n :
                       c <= digests'[k].known /\ candidates[c].created >= digests'[k].day - Week
                          => c \in digests'[k].listed
      <3>1. CASE k = m + 1
        <4>1. today <= today /\ n <= n /\ ~(n > n) /\ \A c \in 1..n : ~(c > n + 1)
          BY <1>1
        <4> QED BY <2>3, <2>4, <3>1, <4>1
      <3>2. CASE k \in 1..m
        BY <1>n, <2>4, <3>2 DEF DigestsAreExact
      <3> QED BY <3>1, <3>2
    <2>6. DigestsAreExact'
      BY <1>1, <1>n, <1>4, <2>1, <2>4, <2>5 DEF DigestsAreExact
    <2> QED BY <1>2, <1>3, <1>m, <2>6
  <1> QED BY <1>5, <1>6 DEF Tick, LoseDigest, digest

LEMMA InitFeedback == Init => FeedbackInv
  <1> SUFFICES ASSUME Init PROVE FeedbackInv
    OBVIOUS
  <1>1. /\ \A f \in Finding : item[f] \in {Absent, Undecided(f)}
        /\ item \in [Finding -> {Absent} \cup {Undecided(f) : f \in Finding}]
        /\ stream = <<>> /\ first = 0 /\ last = 0 /\ handled = 0 /\ tries = 0
        /\ discarded = {} /\ made = Nil /\ candidates = <<>> /\ today = 0 /\ digests = <<>>
    BY DEF Init
  <1>2. TableTypes
    <2>1. ASSUME NEW f \in Finding
          PROVE  item[f] \in Item /\ (~item[f].present => item[f].severity = Nil)
      <3>1. Absent \in Item /\ Absent.severity = Nil
        BY DEF Absent, Item
      <3>2. Undecided(f) \in Item /\ Undecided(f).present
        BY FeedbackAssumption DEF Undecided, Item, Severity
      <3> QED BY <1>1, <3>1, <3>2
    <2>2. item \in [Finding -> Item]
      BY <1>1, <2>1
    <2> QED BY <1>1, <2>1, <2>2 DEF TableTypes
  <1>3. ReaderTypes
    BY <1>1, FeedbackAssumption DEF ReaderTypes
  <1>4. DecisionsAreRecorded
    BY <1>1 DEF DecisionsAreRecorded, Absent, Undecided
  <1>5. QueueIsInOrder /\ NewestExists
    BY <1>1 DEF QueueIsInOrder, NewestExists, CandidatesOf
  <1>6. CopiesAreBounded
    <2> SUFFICES ASSUME NEW i \in Nat PROVE Cardinality(CopiesOf(i)) <= Deliveries(i)
      BY DEF CopiesAreBounded
    <2>1. CopiesOf(i) = {}
      BY <1>1 DEF CopiesOf
    <2>2. Deliveries(i) \in Nat
      BY <1>1, FeedbackAssumption DEF Deliveries
    <2> QED BY <2>1, <2>2, FS_EmptySet
  <1>7. DigestsAreExact /\ MadeIsCurrent
    BY <1>1 DEF DigestsAreExact, MadeIsCurrent
  <1> QED BY <1>2, <1>3, <1>4, <1>5, <1>6, <1>7 DEF FeedbackInv

LEMMA AlwaysFeedbackInv == Spec => []FeedbackInv
  <1>1. FeedbackInv /\ [Next]_vars => FeedbackInv'
    <2> SUFFICES ASSUME FeedbackInv, [Next]_vars PROVE FeedbackInv'
      OBVIOUS
    <2>1. CASE UNCHANGED vars
      <3>1. /\ UNCHANGED <<item, stream, first, last, handled, tries, discarded, made, candidates>>
            /\ UNCHANGED <<today, digest>>
        BY <2>1 DEF vars, reader
      <3>2. ReaderTypes' /\ \A i \in Nat : Deliveries(i)' = Deliveries(i)
        BY <3>1 DEF FeedbackInv, ReaderTypes, Deliveries
      <3>3. /\ TableTypes' /\ DecisionsAreRecorded' /\ NewestExists' /\ DigestsAreExact'
            /\ \A i : /\ Contradicts(i)' = Contradicts(i) /\ Queued(i)' = Queued(i)
                     /\ CopiesOf(i)' = CopiesOf(i)
        BY <3>1, TableStays, QueueStays, DigestsStay
      <3>4. MadeIsCurrent'
        BY <3>1 DEF FeedbackInv, MadeIsCurrent
      <3> QED BY <3>1, <3>2, <3>3, <3>4 DEF FeedbackInv, QueueIsInOrder, CopiesAreBounded
    <2> QED BY <2>1, TableStep, DeliverStep, SkipStep, StampStep, PutStep, EndBatchStep,
               FailBatchStep, DigestStep
            DEF Next
  <1> QED BY InitFeedback, <1>1, PTL DEF Spec

-----------------------------------------------------------------------------
(* The theorems                                                            *)

\* lambda_handler's candidates repeat a decision no more often than its batch
\* is delivered: once, and as often again as the mapping retries.
THEOREM DuplicatesAreBounded == Spec => []BoundedDuplicates
  <1>1. FeedbackInv => BoundedDuplicates
    <2> SUFFICES ASSUME FeedbackInv, NEW i \in 1..Len(stream)
                 PROVE  Cardinality(CopiesOf(i)) <= MaxRetry + 1
      BY DEF BoundedDuplicates, CopiesOf
    <2> USE DEF FeedbackInv
    <2>1. i \in Nat /\ Cardinality(CopiesOf(i)) \in Nat
      BY CopiesCount DEF TableTypes
    <2>2. Deliveries(i) \in Int /\ Deliveries(i) <= MaxRetry + 1
      <3>1. MaxRetry \in Nat /\ tries \in 0..MaxRetry
        BY FeedbackAssumption DEF ReaderTypes
      <3> QED BY <3>1 DEF Deliveries
    <2>3. Cardinality(CopiesOf(i)) <= Deliveries(i)
      BY <2>1 DEF CopiesAreBounded
    <2>4. MaxRetry + 1 \in Int
      BY FeedbackAssumption
    <2> QED BY <2>1, <2>2, <2>3, <2>4
  <1> QED BY <1>1, AlwaysFeedbackInv, PTL

\* Two digests at most a week apart, however late each is, leave out at most the
\* first candidate put between them while one page holds the table: of the
\* candidates put after a digest only the first can have been stamped before it.
THEOREM DigestsMeet == Spec => []DigestsLeaveNoGap
  <1>1. FeedbackInv => DigestsLeaveNoGap
    <2> SUFFICES ASSUME FeedbackInv, NEW k \in 2..Len(digests),
                        digests[k].day - digests[k - 1].day <= Week, digests[k].known <= PageSize,
                        NEW c \in (digests[k - 1].known + 2)..digests[k].known
                 PROVE  c \in digests[k].listed
      BY DEF DigestsLeaveNoGap
    <2> USE DEF FeedbackInv
    <2>1. /\ k \in DOMAIN digests /\ k - 1 \in DOMAIN digests
          /\ digests[k] \in Digest
          /\ digests[k - 1] \in Digest
      <3>1. digests \in Seq(Digest) /\ k \in DOMAIN digests /\ k - 1 \in DOMAIN digests
        BY DEF DigestsAreExact
      <3> QED BY <3>1, ElementIs
    <2>2. /\ digests[k].day \in Nat /\ digests[k - 1].day \in Nat
          /\ digests[k].known \in Nat /\ digests[k - 1].known \in Nat
      BY <2>1 DEF Digest
    <2>3. digests[k].known <= Len(candidates) /\ Len(candidates) \in Nat
          /\ DOMAIN candidates = 1..Len(candidates)
      BY <2>1 DEF DigestsAreExact, ReaderTypes
    <2>4. c \in DOMAIN candidates /\ c > digests[k - 1].known + 1 /\ c <= digests[k].known
      BY <2>2, <2>3
    <2>5. candidates[c].created >= digests[k - 1].day /\ candidates[c].created \in Nat
      <3>1. candidates[c] \in Candidate
        BY <2>4, ElementIs DEF ReaderTypes
      <3> QED BY <2>1, <2>4, <3>1 DEF DigestsAreExact, Candidate
    <2>6. candidates[c].created >= digests[k].day - Week
      <3> DEFINE this == digests[k].day
                 that == digests[k - 1].day
                 made_at == candidates[c].created
      <3>1. Week \in Nat /\ this \in Nat /\ that \in Nat /\ made_at \in Nat
        BY <2>2, <2>5, FeedbackAssumption
      <3>2. this - that <= Week /\ made_at >= that
        BY <2>5
      <3> HIDE DEF this, that, made_at
      <3>3. made_at >= this - Week
        BY <3>1, <3>2
      <3> QED BY <3>3 DEF this, made_at
    <2>7. digests[k].known <= PageSize
      OBVIOUS
    <2> QED BY <2>1, <2>4, <2>6, <2>7 DEF DigestsAreExact
  <1> QED BY <1>1, AlwaysFeedbackInv, PTL

LEMMA NewestIs ==
    ASSUME NEW S \in SUBSET Int, \E x \in S : \A y \in S : x >= y
    PROVE  Max(S) \in S /\ \A y \in S : Max(S) >= y
  BY DEF Max

\* Once the stream is worked off without a discarded batch, the newest
\* candidate of a finding is that of the decision the table shows, however
\* often batches were repeated.
THEOREM QueueFollowsTable == Spec => []QueueReflectsTable
  <1>1. FeedbackInv => QueueReflectsTable
    <2> SUFFICES ASSUME FeedbackInv, first = Len(stream), discarded = {}, NEW f \in Finding,
                        \/ item[f].severity = "CRITICAL" /\ item[f].decision = "false_positive"
                        \/ item[f].severity = "LOW" /\ item[f].decision = "confirmed_risk"
                 PROVE  /\ CandidatesOf(f) # {}
                        /\ candidates[Max(CandidatesOf(f))].record = LastTurn(f)
      BY DEF QueueReflectsTable
    <2> USE DEF FeedbackInv
    <2>1. item[f].severity # Nil /\ item[f].decision # Nil
      BY FeedbackAssumption
    <2>2. PICK i \in DOMAIN stream : SetBy(f, i)
      BY <2>1 DEF DecisionsAreRecorded
    <2>3. Contradicts(i) /\ i \in Nat /\ i \in 1..first + handled
      <3>1. stream[i].event = "MODIFY" /\ stream[i].new # Nil /\ stream[i].new # stream[i].old
        BY <2>1, <2>2 DEF SetBy
      <3>2. Diverges(stream[i])
        BY <2>2, <3>1 DEF SetBy, Diverges
      <3> QED BY <2>2, <3>2 DEF Contradicts, TableTypes, ReaderTypes
    <2>4. PICK c \in DOMAIN candidates :
             /\ candidates[c].record = i
             /\ \A d \in DOMAIN candidates : d > c => candidates[d].record >= i
      BY <2>3 DEF QueueIsInOrder, Queued
    <2>5. c \in CandidatesOf(f)
      BY <2>2, <2>4 DEF CandidatesOf, SetBy
    <2>6. CandidatesOf(f) \in SUBSET Int
      BY DEF CandidatesOf, ReaderTypes
    <2> DEFINE m == Max(CandidatesOf(f))
    <2>7. m \in CandidatesOf(f) /\ m >= c
      BY <2>5, <2>6, NewestIs DEF NewestExists
    <2> HIDE DEF m
    <2>8. /\ m \in DOMAIN candidates /\ candidates[m].record \in DOMAIN stream
          /\ stream[candidates[m].record].finding = f /\ Diverges(stream[candidates[m].record])
      BY <2>7 DEF CandidatesOf, QueueIsInOrder, Contradicts
    <2>9. candidates[m].record >= i
      <3>1. m \in Int /\ c \in Int /\ i \in Int
        BY <2>3, <2>5, <2>6, <2>7
      <3> QED BY <2>4, <2>7, <2>8, <3>1
    <2>10. ~(candidates[m].record > i)
      BY <2>2, <2>8 DEF SetBy, Diverges
    <2>11. candidates[m].record = i
      BY <2>3, <2>8, <2>9, <2>10 DEF TableTypes
    <2> DEFINE turns == {j \in DOMAIN stream : stream[j].finding = f /\ stream[j].old # stream[j].new}
    <2>12. LastTurn(f) = i
      <3>1. i \in turns /\ turns \in SUBSET Int
        BY <2>2 DEF SetBy, TableTypes
      <3>2. ASSUME NEW j \in turns PROVE i >= j
        <4>1. ~(j > i)
          BY <2>2 DEF SetBy
        <4> QED BY <3>1, <4>1
      <3>3. LastTurn(f) = Max(turns)
        BY DEF LastTurn
      <3> HIDE DEF turns
      <3>4. Max(turns) \in turns /\ Max(turns) >= i
        BY <3>1, <3>2, NewestIs
      <3> QED BY <3>1, <3>2, <3>3, <3>4
    <2> QED BY <2>5, <2>11, <2>12 DEF m
  <1> QED BY <1>1, AlwaysFeedbackInv, PTL
=============================================================================
