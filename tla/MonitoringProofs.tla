-------------------------- MODULE MonitoringProofs --------------------------
(***************************************************************************)
(* The signals of the shadow evaluation and the result of the drift        *)
(* detector, for any runs, scores, threshold and batch size, any number of *)
(* deliveries and puts, and any table to begin with.                       *)
(*                                                                         *)
(* DriftIsSignalled compares a signal with the first score of its run; the *)
(* handler compares with the score in the record.  The invariant says that *)
(* the two are one: a run has one record, made when its row is, and a      *)
(* later put changes neither.  It says of an answer whose signal is still  *)
(* to be put that it is the last one of the run the Lambda is at.          *)
(*                                                                         *)
(* The detector's walk is recursive.  The function of the greatest         *)
(* difference still to see satisfies its equation; that no other does      *)
(* follows from a least counterexample, the one furthest along.            *)
(***************************************************************************)
EXTENDS Monitoring, SequenceTheorems, FiniteSetTheorems, WellFoundedInduction, TLAPS

-----------------------------------------------------------------------------
(* The invariant                                                           *)

NewRow == [run : Published, old : Scores, uris : Stored]
Signal == [run : Published, old : Scores, new : Scores \cup {0}]
Answer == Scores \cup {0, None}

StreamTypes ==
    /\ stream \in Seq(NewRow)
    /\ size \in Nat /\ at \in Nat /\ at <= size /\ size <= Len(stream)

SignalTypes ==
    /\ shadow \in Seq(Signal)
    /\ history \in [Published -> Seq(Answer)]

\* A run that was not put has no history, and so no record and no signal.
PutBeforeJudged == \A r \in Published \ DOMAIN runs : history[r] = <<>>

\* What a record in the stream shows is how the history of its run begins; a
\* record to be skipped is of a run that is not judged.
RecordShowsFirst ==
    \A i \in 1..Len(stream) :
        /\ history[stream[i].run] # <<>>
        /\ stream[i].old = history[stream[i].run][1]
        /\ stream[i].uris # {"narrative", "findings"} => Len(history[stream[i].run]) = 1

RecordIsOnly == \A i, j \in 1..Len(stream) : stream[i].run = stream[j].run => i = j

Answered(h) == {h[i] : i \in 2..Len(h)}
LastOf(h) == h[Len(h)]

\* The answer of which a signal is to be put is the last one of the run at hand.
AnswerIsLast ==
    /\ answer \in Answer
    /\ answer # None =>
          /\ at < size
          /\ HasDrifted(Current.old, answer)
          /\ answer \in Answered(history[Current.run])
          /\ LastOf(history[Current.run]) = answer

MonitoringInv ==
    /\ StreamTypes /\ SignalTypes /\ PutBeforeJudged
    /\ RecordShowsFirst /\ RecordIsOnly /\ AnswerIsLast
    /\ DriftIsSignalled

-----------------------------------------------------------------------------
(* What is signalled, and what the judge answered, as operators            *)

Signalled(sh, r) == {sh[i].new : i \in {j \in DOMAIN sh : sh[j].run = r}}
Beyond(as, first) == {a \in as \ {None} : Abs(a - first) > Threshold}

\* What DriftIsSignalled says of run r with signals sh and history h, where
\* the runs in E may have an answer without a signal.
Fine(sh, h, r, E) ==
    /\ Signalled(sh, r) \subseteq Beyond(Answered(h), h[1])
    /\ r \notin E /\ Answered(h) # {} /\ LastOf(h) \in Beyond(Answered(h), h[1])
          => LastOf(h) \in Signalled(sh, r)

LEMMA DriftInThoseTerms ==
    DriftIsSignalled <=> \A r \in Published : Fine(shadow, history[r], r, Waiting \cup dropped)
  BY DEF DriftIsSignalled, SignalsOf, FarAnswers, Answers, LastAnswer,
         Fine, Signalled, Answered, Beyond, LastOf

LEMMA DriftNextInThoseTerms ==
    DriftIsSignalled' <=>
        \A r \in Published : Fine(shadow', history'[r], r, Waiting' \cup dropped')
  BY DEF DriftIsSignalled, SignalsOf, FarAnswers, Answers, LastAnswer,
         Fine, Signalled, Answered, Beyond, LastOf

\* Without a new answer or signal all stays fine, if no run stops being exempt.
LEMMA DriftStays ==
    ASSUME MonitoringInv, shadow' = shadow, history' = history,
           \A r \in Published : r \in Waiting \cup dropped => r \in Waiting' \cup dropped'
    PROVE  DriftIsSignalled'
<1> SUFFICES ASSUME NEW r \in Published
             PROVE  Fine(shadow, history[r], r, Waiting' \cup dropped')
  BY DriftNextInThoseTerms
<1>1. Fine(shadow, history[r], r, Waiting \cup dropped)
  BY DriftInThoseTerms DEF MonitoringInv
<1> HIDE DEF MonitoringInv
<1> QED
  BY <1>1 DEF Fine

\* Coming past a record, the delivery stops waiting for its run only.
LEMMA WaitingAdvances ==
    ASSUME at \in Nat, at < Len(stream), Len(stream) \in Nat, stream' = stream, at' = at + 1,
           NEW r \in Waiting, r # Current.run
    PROVE  r \in Waiting'
<1>1. PICK i \in at + 1..Len(stream) : r = stream[i].run
  BY DEF Waiting
<1>2. i # at + 1
  BY <1>1 DEF Current
<1>3. i \in at' + 1..Len(stream)
  BY <1>1, <1>2
<1> QED
  BY <1>1, <1>3 DEF Waiting

LEMMA SignalAppended ==
    ASSUME NEW sh \in Seq(Signal), NEW s \in Signal, NEW r
    PROVE  Signalled(Append(sh, s), r) = Signalled(sh, r) \cup (IF s.run = r THEN {s.new} ELSE {})
<1> DEFINE new == Append(sh, s)
<1>1. /\ DOMAIN new = 1..(Len(sh) + 1) /\ DOMAIN sh = 1..Len(sh) /\ Len(sh) \in Nat
      /\ \A i \in 1..Len(sh) : new[i] = sh[i]
      /\ new[Len(sh) + 1] = s
  BY AppendProperties
<1>2. ASSUME NEW x PROVE x \in Signalled(new, r) <=> \E i \in DOMAIN new : new[i].run = r /\ new[i].new = x
  BY DEF Signalled
<1>3. ASSUME NEW x PROVE x \in Signalled(sh, r) <=> \E i \in DOMAIN sh : sh[i].run = r /\ sh[i].new = x
  BY DEF Signalled
<1> HIDE DEF new
<1>4. ASSUME NEW x
      PROVE  x \in Signalled(new, r) <=> x \in Signalled(sh, r) \/ (s.run = r /\ s.new = x)
  <2>1. ASSUME NEW i \in DOMAIN new, new[i].run = r, new[i].new = x
        PROVE  x \in Signalled(sh, r) \/ (s.run = r /\ s.new = x)
    <3>1. CASE i = Len(sh) + 1
      BY <1>1, <2>1, <3>1
    <3>2. CASE i \in 1..Len(sh)
      BY <1>1, <1>3, <2>1, <3>2
    <3> QED
      BY <1>1, <2>1, <3>1, <3>2
  <2>2. ASSUME NEW i \in DOMAIN sh, sh[i].run = r, sh[i].new = x
        PROVE  \E k \in DOMAIN new : new[k].run = r /\ new[k].new = x
    <3>1. i \in DOMAIN new /\ new[i] = sh[i]
      BY <1>1, <2>2
    <3> QED
      BY <2>2, <3>1
  <2>3. Len(sh) + 1 \in DOMAIN new
    BY <1>1
  <2> QED
    BY <1>1, <1>2, <1>3, <2>1, <2>2, <2>3
<1> QED
  BY <1>4 DEF new

LEMMA AnswerAppended ==
    ASSUME NEW h \in Seq(Answer), h # <<>>, NEW a \in Answer
    PROVE  /\ Append(h, a) \in Seq(Answer) /\ Append(h, a) # <<>>
           /\ Append(h, a)[1] = h[1] /\ LastOf(Append(h, a)) = a
           /\ Answered(Append(h, a)) = Answered(h) \cup {a}
<1> DEFINE new == Append(h, a)
<1>1. /\ new \in Seq(Answer) /\ new # <<>> /\ Len(h) \in Nat \ {0} /\ Len(new) = Len(h) + 1
      /\ \A i \in 1..Len(h) : new[i] = h[i]
      /\ new[Len(h) + 1] = a
  BY AppendProperties, EmptySeq, LenProperties
<1> HIDE DEF new
<1>2. ASSUME NEW x PROVE x \in Answered(new) <=> \E i \in 2..Len(h) + 1 : new[i] = x
  BY <1>1 DEF Answered
<1>3. ASSUME NEW x PROVE x \in Answered(h) <=> \E i \in 2..Len(h) : h[i] = x
  BY DEF Answered
<1>4. ASSUME NEW x PROVE x \in Answered(new) <=> x \in Answered(h) \/ x = a
  <2>1. \A i \in 2..Len(h) + 1 : i = Len(h) + 1 \/ (i \in 2..Len(h) /\ i \in 1..Len(h))
    BY <1>1
  <2>2. \A i \in 2..Len(h) : i \in 2..Len(h) + 1 /\ i \in 1..Len(h)
    BY <1>1
  <2>3. Len(h) + 1 \in 2..Len(h) + 1
    BY <1>1
  <2> QED
    BY <1>1, <1>2, <1>3, <2>1, <2>2, <2>3
<1>5. new[1] = h[1] /\ LastOf(new) = a
  BY <1>1 DEF LastOf
<1> QED
  BY <1>1, <1>4, <1>5 DEF new

\* An answer is beyond the threshold as the handler sees it.
LEMMA BeyondIsDrift ==
    ASSUME NEW as, NEW a \in as, NEW first
    PROVE  a \in Beyond(as, first) <=> a # None /\ HasDrifted(first, a)
  BY DEF Beyond, HasDrifted

LEMMA BeyondGrows ==
    ASSUME NEW as, NEW bs, as \subseteq bs, NEW first
    PROVE  Beyond(as, first) \subseteq Beyond(bs, first)
  BY DEF Beyond

-----------------------------------------------------------------------------
(* The invariant is inductive                                              *)

LEMMA MonitoringStart == Init => MonitoringInv
<1> SUFFICES ASSUME Init PROVE MonitoringInv
  OBVIOUS
<1>1. stream = <<>> /\ size = 0 /\ at = 0 /\ shadow = <<>> /\ history = [r \in Published |-> <<>>]
      /\ answer = None
  BY DEF Init
<1>2. StreamTypes
  BY <1>1, EmptySeq DEF StreamTypes
<1>3. SignalTypes
  BY <1>1, EmptySeq DEF SignalTypes
<1>4. PutBeforeJudged
  BY <1>1 DEF PutBeforeJudged
<1>5. RecordShowsFirst /\ RecordIsOnly /\ AnswerIsLast
  BY <1>1 DEF RecordShowsFirst, RecordIsOnly, AnswerIsLast, Answer
<1>6. \A r : Signalled(<<>>, r) = {}
  BY DEF Signalled
<1>7. Answered(<<>>) = {}
  BY DEF Answered
<1>8. DriftIsSignalled
  BY <1>1, <1>6, <1>7, DriftInThoseTerms DEF Fine
<1> QED
  BY <1>2, <1>3, <1>4, <1>5, <1>8 DEF MonitoringInv

\* A put of a new run begins its history, and its record shows the beginning.
LEMMA PutKeeps ==
    ASSUME MonitoringInv, PutRun
    PROVE  MonitoringInv'
<1>1. PICK r \in Published, s \in Scores, u \in Stored :
        /\ runs' = With(runs, r, [started_at |-> Today, score |-> s])
        /\ stream' = IF r \in DOMAIN runs THEN stream ELSE Append(stream, [run |-> r, old |-> s, uris |-> u])
        /\ history' = IF r \in DOMAIN runs THEN history ELSE [history EXCEPT ![r] = <<s>>]
  BY DEF PutRun
<1>2. size' = size /\ at' = at /\ shadow' = shadow /\ answer' = answer /\ dropped' = dropped
  BY DEF PutRun, batch
<1>3. DOMAIN runs' = DOMAIN runs \cup {r}
  BY <1>1 DEF With
<1>4. StreamTypes /\ SignalTypes /\ PutBeforeJudged /\ RecordShowsFirst /\ RecordIsOnly /\ AnswerIsLast
  BY DEF MonitoringInv
<1>5. CASE r \in DOMAIN runs
  <2>1. stream' = stream /\ history' = history /\ DOMAIN runs' = DOMAIN runs
    BY <1>1, <1>3, <1>5
  <2>2. StreamTypes' /\ SignalTypes' /\ PutBeforeJudged' /\ RecordShowsFirst' /\ RecordIsOnly'
    BY <1>2, <1>4, <2>1 DEF StreamTypes, SignalTypes, PutBeforeJudged, RecordShowsFirst, RecordIsOnly
  <2>3. AnswerIsLast'
    BY <1>2, <1>4, <2>1 DEF AnswerIsLast, Current
  <2>4. DriftIsSignalled'
    BY <1>2, <2>1, DriftStays DEF Waiting
  <2> QED
    BY <2>2, <2>3, <2>4 DEF MonitoringInv
<1>6. CASE r \notin DOMAIN runs
  <2> DEFINE rec == [run |-> r, old |-> s, uris |-> u]
  <2>1. /\ stream' = Append(stream, rec) /\ rec \in NewRow
        /\ history' = [history EXCEPT ![r] = <<s>>]
    BY <1>1, <1>6 DEF NewRow
  <2>2. /\ stream' \in Seq(NewRow) /\ Len(stream') = Len(stream) + 1 /\ Len(stream) \in Nat
        /\ \A i \in 1..Len(stream) : stream'[i] = stream[i]
        /\ stream'[Len(stream) + 1] = rec
    BY <1>4, <2>1, AppendProperties, LenProperties DEF StreamTypes
  <2>3. rec.run = r /\ rec.old = s
    OBVIOUS
  <2> HIDE DEF rec
  <2>4. history[r] = <<>>
    BY <1>4, <1>6 DEF PutBeforeJudged
  <2>5. /\ history'[r] = <<s>> /\ <<s>> \in Seq(Answer) /\ <<s>> # <<>> /\ <<s>>[1] = s /\ Len(<<s>>) = 1
        /\ \A q \in Published \ {r} : history'[q] = history[q]
        /\ history' \in [Published -> Seq(Answer)]
    BY <1>4, <2>1 DEF SignalTypes, Answer
  <2>6. StreamTypes'
    BY <1>2, <1>4, <2>2 DEF StreamTypes
  <2>7. SignalTypes'
    BY <1>2, <1>4, <2>5 DEF SignalTypes
  <2>8. PutBeforeJudged'
    BY <1>3, <1>4, <2>5 DEF PutBeforeJudged
  <2>9. \A i \in 1..Len(stream) : stream[i].run \in Published \ {r}
    <3> SUFFICES ASSUME NEW i \in 1..Len(stream) PROVE stream[i].run \in Published \ {r}
      OBVIOUS
    <3>1. stream[i] \in NewRow
      BY <1>4, ElementOfSeq DEF StreamTypes
    <3> QED
      BY <1>4, <2>4, <3>1 DEF NewRow, RecordShowsFirst
  <2>10. \A i \in 1..Len(stream') : i = Len(stream) + 1 \/ i \in 1..Len(stream)
    BY <2>2
  <2>11. RecordShowsFirst'
    <3> SUFFICES ASSUME NEW i \in 1..Len(stream')
                 PROVE  /\ history'[stream'[i].run] # <<>>
                        /\ stream'[i].old = history'[stream'[i].run][1]
                        /\ stream'[i].uris # {"narrative", "findings"} => Len(history'[stream'[i].run]) = 1
      BY DEF RecordShowsFirst
    <3>1. CASE i = Len(stream) + 1
      BY <2>2, <2>3, <2>5, <3>1
    <3>2. CASE i \in 1..Len(stream)
      BY <1>4, <2>2, <2>5, <2>9, <3>2 DEF RecordShowsFirst
    <3> QED
      BY <2>10, <3>1, <3>2
  <2>12. RecordIsOnly'
    BY <1>4, <2>2, <2>3, <2>9, <2>10 DEF RecordIsOnly
  <2>13. AnswerIsLast'
    <3>1. answer # None => at + 1 \in 1..Len(stream)
      BY <1>4, <2>2 DEF AnswerIsLast, StreamTypes
    <3>2. answer # None => Current' = Current /\ history'[Current.run] = history[Current.run]
      BY <1>2, <2>2, <2>5, <2>9, <3>1 DEF Current
    <3> QED
      BY <1>2, <1>4, <3>2 DEF AnswerIsLast
  <2>14. DriftIsSignalled'
    <3>1. \A q \in Published \ {r} : q \in Waiting => q \in Waiting'
      BY <1>2, <1>4, <2>2 DEF Waiting, StreamTypes
    <3>2. ASSUME NEW q \in Published \ {r}
          PROVE  Fine(shadow', history'[q], q, Waiting' \cup dropped')
      <4>1. Fine(shadow, history[q], q, Waiting \cup dropped)
        BY DriftInThoseTerms DEF MonitoringInv
      <4>2. shadow' = shadow /\ history'[q] = history[q] /\ dropped' = dropped
        BY <1>2, <2>5
      <4> QED
        BY <3>1, <4>1, <4>2 DEF Fine
    <3>3. Answered(<<>>) = {} /\ Answered(<<s>>) = {}
      BY DEF Answered
    <3>4. Signalled(shadow, r) = {}
      <4>1. Fine(shadow, <<>>, r, Waiting \cup dropped)
        BY <2>4, DriftInThoseTerms DEF MonitoringInv
      <4> QED
        BY <3>3, <4>1 DEF Fine, Beyond
    <3>5. Fine(shadow', history'[r], r, Waiting' \cup dropped')
      BY <1>2, <2>5, <3>3, <3>4 DEF Fine
    <3> QED
      BY <3>2, <3>5, DriftNextInThoseTerms
  <2> QED
    BY <2>6, <2>7, <2>8, <2>11, <2>12, <2>13, <2>14 DEF MonitoringInv
<1> QED
  BY <1>5, <1>6

\* The judge's answer enters the history; the delivery comes past the record
\* unless the answer is beyond, and then waits to put it.
LEMMA JudgeKeeps ==
    ASSUME MonitoringInv, JudgeAgain
    PROVE  MonitoringInv'
<1> DEFINE r == Current.run
           old == Current.old
<1>1. StreamTypes /\ SignalTypes /\ PutBeforeJudged /\ RecordShowsFirst /\ RecordIsOnly /\ AnswerIsLast
  BY DEF MonitoringInv
<1>2. /\ at + 1 \in 1..Len(stream) /\ at + 1 <= size /\ at \in Nat /\ Len(stream) \in Nat
      /\ at < Len(stream) /\ at < size /\ size \in Nat
  BY <1>1, LenProperties DEF JudgeAgain, InBatch, StreamTypes
<1>3. Current \in NewRow /\ stream[at + 1] = Current
  BY <1>1, <1>2, ElementOfSeq DEF Current, StreamTypes
<1>4. r \in Published /\ old \in Scores
  BY <1>3 DEF NewRow
<1>5. history[r] # <<>> /\ history[r] \in Seq(Answer) /\ old = history[r][1]
  BY <1>1, <1>2, <1>4 DEF Current, RecordShowsFirst, SignalTypes
<1>6. PICK new \in Scores \cup {0, None} :
        /\ history' = [history EXCEPT ![r] = Append(@, new)]
        /\ IF new # None /\ HasDrifted(old, new)
           THEN answer' = new /\ at' = at
           ELSE at' = at + 1 /\ answer' = answer
  BY DEF JudgeAgain
<1>7. /\ runs' = runs /\ stream' = stream /\ size' = size /\ shadow' = shadow
      /\ dropped' = dropped /\ answer = None
      /\ Current.uris = {"narrative", "findings"}
  BY DEF JudgeAgain
<1> HIDE DEF r, old
<1>8. /\ history'[r] = Append(history[r], new) /\ new \in Answer
      /\ \A q \in Published \ {r} : history'[q] = history[q]
  BY <1>1, <1>4, <1>6 DEF SignalTypes, Answer
<1>9. /\ history'[r] \in Seq(Answer) /\ history'[r] # <<>> /\ history'[r][1] = old
      /\ LastOf(history'[r]) = new
      /\ Answered(history'[r]) = Answered(history[r]) \cup {new}
  BY <1>5, <1>8, AnswerAppended
<1>10. history' \in [Published -> Seq(Answer)]
  BY <1>1, <1>4, <1>6, <1>8, <1>9 DEF SignalTypes
<1>11. \A q \in Published : history[q] # <<>> => history'[q] # <<>> /\ history'[q][1] = history[q][1]
  BY <1>5, <1>8, <1>9
<1>12. StreamTypes'
  BY <1>1, <1>2, <1>6, <1>7 DEF StreamTypes
<1>13. SignalTypes'
  BY <1>1, <1>7, <1>10 DEF SignalTypes
<1>14. PutBeforeJudged'
  <2>1. r \in DOMAIN runs
    BY <1>1, <1>4, <1>5 DEF PutBeforeJudged
  <2> QED
    BY <1>1, <1>7, <1>8, <2>1 DEF PutBeforeJudged
<1>15. RecordShowsFirst' /\ RecordIsOnly'
  <2> SUFFICES ASSUME NEW i \in 1..Len(stream)
               PROVE  /\ history'[stream[i].run] # <<>>
                      /\ stream[i].old = history'[stream[i].run][1]
                      /\ stream[i].uris # {"narrative", "findings"} => Len(history'[stream[i].run]) = 1
    BY <1>1, <1>7 DEF RecordShowsFirst, RecordIsOnly
  <2>1. stream[i] \in NewRow
    BY <1>1, ElementOfSeq DEF StreamTypes
  <2>2. stream[i].run \in Published
    BY <2>1 DEF NewRow
  <2>3. CASE i = at + 1
    BY <1>1, <1>3, <1>7, <1>11, <2>2, <2>3 DEF RecordShowsFirst
  <2>4. CASE i # at + 1
    <3>1. stream[i].run # r
      BY <1>1, <1>2, <1>3, <2>4 DEF RecordIsOnly, r
    <3> QED
      BY <1>1, <1>8, <2>2, <3>1 DEF RecordShowsFirst
  <2> QED
    BY <2>3, <2>4
<1>16. AnswerIsLast'
  <2>1. CASE new # None /\ HasDrifted(old, new)
    <3>1. answer' = new /\ at' = at /\ Current' = Current
      BY <1>6, <1>7, <2>1 DEF Current
    <3>2. new \in Answered(history'[r])
      BY <1>9
    <3> QED
      BY <1>2, <1>7, <1>8, <1>9, <2>1, <3>1, <3>2 DEF AnswerIsLast, r, old
  <2>2. CASE ~(new # None /\ HasDrifted(old, new))
    BY <1>6, <1>7, <2>2 DEF AnswerIsLast, Answer
  <2> QED
    BY <2>1, <2>2
<1>17. DriftIsSignalled'
  <2>1. ASSUME NEW q \in Published \ {r}
        PROVE  Fine(shadow', history'[q], q, Waiting' \cup dropped')
    <3>1. Fine(shadow, history[q], q, Waiting \cup dropped)
      BY DriftInThoseTerms DEF MonitoringInv
    <3>2. q \in Waiting => q \in Waiting'
      <4>1. CASE at' = at
        BY <1>7, <4>1 DEF Waiting
      <4>2. CASE at' = at + 1
        BY <1>2, <1>7, <4>2, WaitingAdvances DEF r
      <4> QED
        BY <1>6, <4>1, <4>2
    <3> QED
      BY <1>7, <1>8, <3>1, <3>2 DEF Fine
  <2>2. Fine(shadow', history'[r], r, Waiting' \cup dropped')
    <3>1. Signalled(shadow, r) \subseteq Beyond(Answered(history[r]), old)
      <4>1. Fine(shadow, history[r], r, Waiting \cup dropped)
        BY <1>4, DriftInThoseTerms DEF MonitoringInv
      <4> QED
        BY <1>5, <4>1 DEF Fine
    <3>2. Signalled(shadow', r) \subseteq Beyond(Answered(history'[r]), old)
      <4>1. Beyond(Answered(history[r]), old) \subseteq Beyond(Answered(history'[r]), old)
        BY <1>9, BeyondGrows
      <4> QED
        BY <1>7, <3>1, <4>1
    <3>3. CASE new # None /\ HasDrifted(old, new)
      <4>1. at' = at
        BY <1>6, <3>3
      <4>2. r \in Waiting'
        <5>1. at + 1 \in at + 1..Len(stream)
          BY <1>2
        <5> QED
          BY <1>3, <1>7, <4>1, <5>1 DEF Waiting, r
      <4> QED
        BY <1>9, <3>2, <4>2 DEF Fine
    <3>4. CASE ~(new # None /\ HasDrifted(old, new))
      <4>1. new \notin Beyond(Answered(history'[r]), old)
        BY <1>9, <3>4, BeyondIsDrift
      <4> QED
        BY <1>9, <3>2, <4>1 DEF Fine
    <3> QED
      BY <3>3, <3>4
  <2> QED
    BY <2>1, <2>2, DriftNextInThoseTerms
<1> QED
  BY <1>12, <1>13, <1>14, <1>15, <1>16, <1>17 DEF MonitoringInv

\* The signal put is of the last answer, and the delivery comes past the record.
LEMMA SignalKeeps ==
    ASSUME MonitoringInv, PutSignal
    PROVE  MonitoringInv'
<1> DEFINE r == Current.run
           old == Current.old
           sig == [run |-> r, old |-> old, new |-> answer]
<1>1. StreamTypes /\ SignalTypes /\ PutBeforeJudged /\ RecordShowsFirst /\ RecordIsOnly /\ AnswerIsLast
  BY DEF MonitoringInv
<1>2. /\ answer # None /\ answer' = None /\ at' = at + 1
      /\ shadow' = Append(shadow, sig)
      /\ runs' = runs /\ stream' = stream /\ size' = size
      /\ dropped' = dropped /\ history' = history
  BY DEF PutSignal
<1>3. /\ at < size /\ HasDrifted(old, answer) /\ answer \in Answer
      /\ answer \in Answered(history[r]) /\ LastOf(history[r]) = answer
  BY <1>1, <1>2 DEF AnswerIsLast
<1>4. /\ at + 1 \in 1..Len(stream) /\ at + 1 <= size /\ at \in Nat /\ Len(stream) \in Nat
      /\ at < Len(stream)
  BY <1>1, <1>3, LenProperties DEF StreamTypes
<1>5. Current \in NewRow
  BY <1>1, <1>4, ElementOfSeq DEF Current, StreamTypes
<1>6. r \in Published /\ old \in Scores
  BY <1>5 DEF NewRow
<1>7. old = history[r][1]
  BY <1>1, <1>4 DEF Current, RecordShowsFirst
<1>8. sig \in Signal /\ sig.run = r /\ sig.new = answer
  BY <1>2, <1>3, <1>6 DEF Signal, Answer
<1> HIDE DEF r, old, sig
<1>9. StreamTypes'
  BY <1>1, <1>2, <1>4 DEF StreamTypes
<1>10. SignalTypes'
  BY <1>1, <1>2, <1>8, AppendProperties DEF SignalTypes
<1>11. PutBeforeJudged' /\ RecordShowsFirst' /\ RecordIsOnly' /\ AnswerIsLast'
  BY <1>1, <1>2 DEF PutBeforeJudged, RecordShowsFirst, RecordIsOnly, AnswerIsLast, Answer
<1>12. DriftIsSignalled'
  <2>1. ASSUME NEW q \in Published
        PROVE  /\ Fine(shadow, history[q], q, Waiting \cup dropped)
               /\ Signalled(shadow', q) = Signalled(shadow, q) \cup (IF q = r THEN {answer} ELSE {})
    <3>1. Fine(shadow, history[q], q, Waiting \cup dropped)
      BY DriftInThoseTerms DEF MonitoringInv
    <3>2. Signalled(shadow', q) = Signalled(shadow, q) \cup (IF sig.run = q THEN {sig.new} ELSE {})
      BY <1>1, <1>2, <1>8, SignalAppended DEF SignalTypes
    <3> QED
      BY <1>8, <3>1, <3>2
  <2>2. ASSUME NEW q \in Published, q # r
        PROVE  Fine(shadow', history'[q], q, Waiting' \cup dropped')
    <3>1. q \in Waiting => q \in Waiting'
      BY <1>2, <1>4, <2>2, WaitingAdvances DEF r
    <3>2. Signalled(shadow', q) = Signalled(shadow, q)
      BY <2>1, <2>2
    <3> QED
      BY <1>2, <2>1, <3>1, <3>2 DEF Fine
  <2>3. Fine(shadow', history'[r], r, Waiting' \cup dropped')
    <3>1. Signalled(shadow, r) \subseteq Beyond(Answered(history[r]), old)
      BY <1>6, <1>7, <2>1 DEF Fine
    <3>2. answer \in Beyond(Answered(history[r]), old)
      BY <1>2, <1>3, BeyondIsDrift
    <3>3. Signalled(shadow', r) = Signalled(shadow, r) \cup {answer}
      BY <1>6, <2>1
    <3> QED
      BY <1>2, <1>3, <1>7, <3>1, <3>2, <3>3 DEF Fine
  <2> QED
    BY <2>2, <2>3, DriftNextInThoseTerms
<1> QED
  BY <1>9, <1>10, <1>11, <1>12 DEF MonitoringInv

\* Records leave the stream; those that stay keep what they show.
LEMMA LeavingKeeps ==
    ASSUME MonitoringInv, LeaveBatch, runs' = runs, shadow' = shadow, history' = history,
           answer' = None, dropped \cup {stream[i].run : i \in at + 1..size} \subseteq dropped'
    PROVE  MonitoringInv'
<1>1. StreamTypes /\ SignalTypes /\ PutBeforeJudged /\ RecordShowsFirst /\ RecordIsOnly
  BY DEF MonitoringInv
<1>2. stream' = SubSeq(stream, size + 1, Len(stream)) /\ size' = 0 /\ at' = 0
  BY DEF LeaveBatch
<1>3. size \in Nat /\ Len(stream) \in Nat /\ size <= Len(stream) /\ at \in Nat /\ at <= size
  BY <1>1, LenProperties DEF StreamTypes
<1>4. \A i \in size + 1 .. Len(stream) : stream[i] \in NewRow
  BY <1>1, <1>3, ElementOfSeq DEF StreamTypes
<1>5. /\ stream' \in Seq(NewRow) /\ Len(stream') = Len(stream) - size
      /\ \A i \in 1..Len(stream') : stream'[i] = stream[size + i] /\ size + i \in 1..Len(stream)
  <2>1. /\ stream' \in Seq(NewRow)
        /\ Len(stream') = IF size + 1 <= Len(stream) THEN Len(stream) - (size + 1) + 1 ELSE 0
        /\ \A i \in 1 .. Len(stream) - (size + 1) + 1 : stream'[i] = stream[(size + 1) + i - 1]
    BY <1>2, <1>3, <1>4, SubSeqProperties
  <2>2. Len(stream') = Len(stream) - size
    BY <1>3, <2>1
  <2>3. ASSUME NEW i \in 1..Len(stream')
        PROVE  stream'[i] = stream[size + i] /\ size + i \in 1..Len(stream)
    <3>1. i \in 1 .. Len(stream) - (size + 1) + 1 /\ (size + 1) + i - 1 = size + i
      BY <1>3, <2>2
    <3> QED
      BY <1>3, <2>1, <2>2, <3>1
  <2> QED
    BY <2>1, <2>2, <2>3
<1>6. StreamTypes'
  BY <1>2, <1>3, <1>5 DEF StreamTypes
<1>7. SignalTypes' /\ PutBeforeJudged' /\ AnswerIsLast'
  BY <1>1 DEF SignalTypes, PutBeforeJudged, AnswerIsLast, Answer
<1>8. RecordShowsFirst'
  BY <1>1, <1>5 DEF RecordShowsFirst
<1>9. RecordIsOnly'
  <2> SUFFICES ASSUME NEW i \in 1..Len(stream'), NEW j \in 1..Len(stream'),
                      stream'[i].run = stream'[j].run
               PROVE  i = j
    BY DEF RecordIsOnly
  <2>1. size + i = size + j
    BY <1>1, <1>5 DEF RecordIsOnly
  <2> QED
    BY <1>3, <2>1
<1>10. DriftIsSignalled'
  <2>1. ASSUME NEW r \in Waiting
        PROVE  r \in Waiting' \cup dropped'
    <3>1. PICK i \in at + 1..Len(stream) : r = stream[i].run
      BY DEF Waiting
    <3>2. CASE i <= size
      BY <1>3, <3>1, <3>2
    <3>3. CASE i > size
      <4>1. i - size \in 1..Len(stream') /\ stream'[i - size] = stream[i]
        BY <1>3, <1>5, <3>1, <3>3
      <4>2. i - size \in at' + 1..Len(stream')
        <5>1. at' + 1 = 1
          BY <1>2
        <5> QED
          BY <4>1, <5>1
      <4> QED
        BY <3>1, <4>1, <4>2 DEF Waiting
    <3> QED
      BY <1>3, <3>1, <3>2, <3>3
  <2> QED
    BY <2>1, DriftStays
<1> QED
  BY <1>6, <1>7, <1>8, <1>9, <1>10 DEF MonitoringInv

\* A step that moves only within the batch, and past no run that may still have
\* an answer without a signal.
LEMMA MovingKeeps ==
    ASSUME MonitoringInv, runs' = runs, stream' = stream, shadow' = shadow, history' = history,
           size' \in Nat, at' \in Nat, at' <= size', size' <= Len(stream),
           answer' = None \/ (answer' = answer /\ at' = at /\ size' = size),
           dropped' = dropped, at' <= at
    PROVE  MonitoringInv'
<1>1. StreamTypes' /\ SignalTypes' /\ PutBeforeJudged' /\ RecordShowsFirst' /\ RecordIsOnly'
  BY DEF MonitoringInv, StreamTypes, SignalTypes, PutBeforeJudged, RecordShowsFirst, RecordIsOnly
<1>2. AnswerIsLast'
  BY DEF MonitoringInv, AnswerIsLast, Current, Answer
<1>3. DriftIsSignalled'
  <2>1. at \in Nat /\ Len(stream) \in Nat
    BY LenProperties DEF MonitoringInv, StreamTypes
  <2>2. at + 1..Len(stream) \subseteq at' + 1..Len(stream)
    BY <2>1
  <2> QED
    BY <2>2, DriftStays DEF Waiting
<1> QED
  BY <1>1, <1>2, <1>3 DEF MonitoringInv

\* A skipped record is of a run without an answer.
LEMMA SkipKeeps ==
    ASSUME MonitoringInv, SkipRecord
    PROVE  MonitoringInv'
<1>1. StreamTypes /\ SignalTypes /\ PutBeforeJudged /\ RecordShowsFirst /\ RecordIsOnly /\ AnswerIsLast
  BY DEF MonitoringInv
<1>2. /\ at < size /\ at' = at + 1 /\ size' = size /\ answer' = answer /\ dropped' = dropped
      /\ runs' = runs /\ stream' = stream /\ shadow' = shadow /\ history' = history
      /\ Current.uris # {"narrative", "findings"}
  BY DEF SkipRecord, InBatch
<1>3. /\ at + 1 \in 1..Len(stream) /\ at \in Nat /\ Len(stream) \in Nat /\ at < Len(stream)
      /\ at + 1 <= size
  BY <1>1, <1>2, LenProperties DEF StreamTypes
<1>4. Len(history[Current.run]) = 1
  BY <1>1, <1>2, <1>3 DEF RecordShowsFirst, Current
<1>5. Answered(history[Current.run]) = {}
  BY <1>4 DEF Answered
<1>6. answer = None
  BY <1>1, <1>5 DEF AnswerIsLast
<1>7. StreamTypes' /\ SignalTypes' /\ PutBeforeJudged' /\ RecordShowsFirst' /\ RecordIsOnly'
  BY <1>1, <1>2, <1>3 DEF StreamTypes, SignalTypes, PutBeforeJudged, RecordShowsFirst, RecordIsOnly
<1>8. AnswerIsLast'
  BY <1>2, <1>6 DEF AnswerIsLast, Answer
<1>9. DriftIsSignalled'
  <2> SUFFICES ASSUME NEW q \in Published
               PROVE  Fine(shadow, history[q], q, Waiting' \cup dropped)
    BY <1>2, DriftNextInThoseTerms
  <2>1. Fine(shadow, history[q], q, Waiting \cup dropped)
    BY DriftInThoseTerms DEF MonitoringInv
  <2>2. CASE q = Current.run
    BY <1>5, <2>1, <2>2 DEF Fine
  <2>3. CASE q # Current.run
    <3>1. q \in Waiting => q \in Waiting'
      BY <1>2, <1>3, <2>3, WaitingAdvances
    <3> QED
      BY <2>1, <3>1 DEF Fine
  <2> QED
    BY <2>2, <2>3
<1> QED
  BY <1>7, <1>8, <1>9 DEF MonitoringInv

LEMMA MonitoringStep == MonitoringInv /\ [Next]_vars => MonitoringInv'
<1> SUFFICES ASSUME MonitoringInv, [Next]_vars PROVE MonitoringInv'
  OBVIOUS
<1>1. /\ size \in Nat /\ at \in Nat /\ at <= size /\ size <= Len(stream) /\ Len(stream) \in Nat
      /\ stream \in Seq(NewRow)
  BY LenProperties DEF MonitoringInv, StreamTypes
<1>2. CASE PutRun
  BY <1>2, PutKeeps
<1>3. CASE Deliver
  <2>1. /\ size = 0 /\ size' \in 1..(IF Len(stream) < BatchSize THEN Len(stream) ELSE BatchSize)
        /\ at' = at /\ answer' = answer /\ dropped' = dropped
    BY <1>3 DEF Deliver
  <2>2. size' \in Nat /\ size' <= Len(stream)
    BY <1>1, <2>1, MonitoringAssumption
  <2>3. at' = 0 /\ at' <= at
    BY <1>1, <2>1
  <2>4. runs' = runs /\ stream' = stream /\ shadow' = shadow /\ history' = history
    BY <1>3 DEF Deliver
  <2>5. at' \in Nat /\ at' <= size'
    BY <2>2, <2>3
  <2>6. answer = None
    BY <1>1, <2>1 DEF MonitoringInv, AnswerIsLast
  <2> QED
    BY <2>1, <2>2, <2>3, <2>4, <2>5, <2>6, MovingKeeps
<1>4. CASE SkipRecord
  BY <1>4, SkipKeeps
<1>5. CASE JudgeAgain
  BY <1>5, JudgeKeeps
<1>6. CASE PutSignal
  BY <1>6, SignalKeeps
<1>7. CASE EndBatch
  <2>1. /\ at = size /\ LeaveBatch /\ answer' = answer /\ dropped' = dropped
        /\ runs' = runs /\ shadow' = shadow /\ history' = history
    BY <1>7 DEF EndBatch
  <2>2. answer = None
    BY <1>1, <2>1 DEF MonitoringInv, AnswerIsLast
  <2>3. {stream[i].run : i \in at + 1..size} = {}
    BY <1>1, <2>1
  <2> QED
    BY <2>1, <2>2, <2>3, LeavingKeeps
<1>8. CASE FailBatch
  <2>1. CASE attempts + 1 < MaxAttempts
    <3>1. at' = 0 /\ size' = size /\ answer' = None /\ dropped' = dropped
          /\ runs' = runs /\ stream' = stream /\ shadow' = shadow /\ history' = history
      BY <1>8, <2>1 DEF FailBatch
    <3>2. size' \in Nat /\ at' \in Nat /\ at' <= size' /\ size' <= Len(stream) /\ at' <= at
      BY <1>1, <3>1
    <3> QED
      BY <3>1, <3>2, MovingKeeps
  <2>2. CASE ~(attempts + 1 < MaxAttempts)
    BY <1>8, <2>2, LeavingKeeps DEF FailBatch
  <2> QED
    BY <2>1, <2>2
<1>9. CASE Detect
  BY <1>1, <1>9, MovingKeeps DEF Detect, batch
<1>10. CASE UNCHANGED vars
  BY <1>1, <1>10, MovingKeeps DEF vars, batch
<1> QED
  BY <1>2, <1>3, <1>4, <1>5, <1>6, <1>7, <1>8, <1>9, <1>10 DEF Next, Handle

LEMMA MonitoringInvariant == Spec => []MonitoringInv
  BY MonitoringStart, MonitoringStep, PTL DEF Spec

-----------------------------------------------------------------------------
(* Theorems                                                                *)

\* For any number of runs, redeliveries and dropped batches: no delivery comes
\* past the record of a run whose drifting answer it has not put, and a signal
\* is only put of an answer further than the threshold from the score the run
\* was first put with (shadow_eval/handler.py).
THEOREM DriftSignalled == Spec => []DriftIsSignalled
<1>1. MonitoringInv => DriftIsSignalled
  BY DEF MonitoringInv
<1> QED
  BY <1>1, MonitoringInvariant, PTL

-----------------------------------------------------------------------------
(* Least and greatest numbers                                              *)

\* What stands in for induction: there is a least counterexample.
LEMMA LeastNat ==
    ASSUME NEW T \in SUBSET Nat, T # {}
    PROVE  \E n \in T : \A m \in T : n <= m
<1> DEFINE R == {p \in Nat \X Nat : p[1] < p[2]}
<1>1. IsWellFoundedOn(R, Nat)
  BY NatLessThanWellFounded DEF OpToRel
<1> HIDE DEF R
<1>2. PICK n \in T : \A m \in T : <<m, n>> \notin R
  BY <1>1, WFMin
<1>3. \A m \in T : ~(m < n)
  <2>1. \A m \in T : m < n => <<m, n>> \in R
    BY DEF R
  <2> QED
    BY <1>2, <2>1
<1>4. \A m \in T : n <= m
  BY <1>3
<1> QED
  BY <1>4

\* A bounded set has a greatest number, and Max is it.
LEMMA GreatestIs ==
    ASSUME NEW B \in Nat, NEW T \in SUBSET (0..B), T # {}
    PROVE  Max(T) \in T /\ \A m \in T : m <= Max(T)
<1> DEFINE U == {u \in Nat : B - u \in T}
<1>1. PICK t \in T : TRUE
  OBVIOUS
<1>2. B - t \in U
  BY <1>1
<1>3. PICK u \in U : \A v \in U : u <= v
  BY <1>2, LeastNat
<1>4. B - u \in T /\ \A m \in T : m <= B - u
  <2>1. ASSUME NEW m \in T
        PROVE  m <= B - u
    <3>1. B - m \in U /\ m \in 0..B
      OBVIOUS
    <3> QED
      BY <1>3, <3>1
  <2> QED
    BY <2>1
<1>5. \E x \in T : \A y \in T : x >= y
  <2>1. \A m \in T : B - u >= m
    BY <1>3, <1>4
  <2> QED
    BY <1>4, <2>1
<1>6. Max(T) \in T /\ \A y \in T : Max(T) >= y
  BY <1>5 DEF Max
<1>7. \A m \in T : m <= Max(T)
  BY <1>6
<1> QED
  BY <1>6, <1>7

\* There is only one greatest.
LEMMA MaxIs ==
    ASSUME NEW T \in SUBSET Nat, NEW g \in T, \A m \in T : m <= g
    PROVE  Max(T) = g
<1>1. \E x \in T : \A y \in T : x >= y
  OBVIOUS
<1>2. Max(T) \in T /\ \A y \in T : Max(T) >= y
  BY <1>1 DEF Max
<1>3. Max(T) >= g /\ Max(T) <= g /\ Max(T) \in Nat /\ g \in Nat
  BY <1>2
<1> QED
  BY <1>3

\* A set of places with all places before them is an initial stretch.
LEMMA Stretch ==
    ASSUME NEW n \in Nat, NEW S \in SUBSET (1..n),
           \A i \in S, j \in 1..n : j <= i => j \in S
    PROVE  Cardinality(S) \in 0..n /\ S = 1..Cardinality(S)
<1> DEFINE Out == {i \in Nat \ {0} : i \notin S}
<1>1. n + 1 \in Out
  OBVIOUS
<1>2. PICK k \in Out : \A i \in Out : k <= i
  BY <1>1, LeastNat
<1>3. k - 1 \in 0..n
  BY <1>1, <1>2
<1>4. S = 1..k - 1
  <2>1. ASSUME NEW i \in 1..k - 1 PROVE i \in S
    BY <1>2
  <2>2. ASSUME NEW i \in S PROVE i \in 1..k - 1
    <3>1. i \in 1..n /\ k \in Nat \ {0} /\ k \notin S
      OBVIOUS
    <3>2. k <= n => ~(k <= i)
      BY <3>1
    <3> QED
      BY <1>3, <3>1, <3>2
  <2> QED
    BY <2>1, <2>2
<1>5. Cardinality(1..k - 1) = k - 1
  BY <1>3, FS_Interval
<1> QED
  BY <1>3, <1>4, <1>5

-----------------------------------------------------------------------------
(* The walk over two sorted samples                                        *)

Ascending(s) == \A i, j \in 1..Len(s) : i <= j => s[i] <= s[j]

\* In a sorted sample the values up to x are the first UpTo(s, x).
LEMMA UpToIs ==
    ASSUME NEW s \in Seq(Nat), Ascending(s), NEW x \in Int
    PROVE  UpTo(s, x) \in 0..Len(s) /\ \A i \in 1..Len(s) : s[i] <= x <=> i <= UpTo(s, x)
<1> DEFINE S == {i \in DOMAIN s : s[i] <= x}
           n == Len(s)
<1>1. DOMAIN s = 1..n /\ n \in Nat /\ \A i \in 1..n : s[i] \in Nat
  BY LenProperties, ElementOfSeq
<1>2. S \in SUBSET (1..n)
  BY <1>1
<1>3. \A i \in S, j \in 1..n : j <= i => j \in S
  <2> SUFFICES ASSUME NEW i \in S, NEW j \in 1..n, j <= i PROVE j \in S
    OBVIOUS
  <2>1. s[j] <= s[i] /\ s[i] <= x /\ s[j] \in Nat /\ s[i] \in Nat
    BY <1>1 DEF Ascending
  <2>2. s[j] <= x
    BY <2>1
  <2> QED
    BY <1>1, <2>2
<1>4. Cardinality(S) \in 0..n /\ S = 1..Cardinality(S)
  <2> HIDE DEF S, n
  <2> QED
    BY <1>1, <1>2, <1>3, Stretch
<1>5. UpTo(s, x) = Cardinality(S)
  BY DEF UpTo
<1>6. \A i \in 1..n : s[i] <= x <=> i \in S
  BY <1>1
<1> HIDE DEF S, n
<1>7. \A i \in 1..n : i \in S <=> i <= UpTo(s, x)
  BY <1>1, <1>4, <1>5
<1> QED
  BY <1>4, <1>5, <1>6, <1>7 DEF n

\* The values that occur, and those the walk has still to see at p.
Occurring(a, b) == {a[i] : i \in 1..Len(a)} \cup {b[i] : i \in 1..Len(b)}
After(a, b, x) == <<UpTo(a, x), UpTo(b, x)>>
Left(a, b, p) == {x \in Occurring(a, b) : p[1] < UpTo(a, x) \/ p[2] < UpTo(b, x)}
Seen(a, b, p) == {0} \cup {Difference(a, b, After(a, b, x)) : x \in Left(a, b, p)}

LEMMA AfterIsPlace ==
    ASSUME NEW a \in Seq(Nat), NEW b \in Seq(Nat), Ascending(a), Ascending(b), NEW x \in Int
    PROVE  After(a, b, x) \in Places(a, b)
  BY UpToIs DEF After, Places

LEMMA DifferenceIs ==
    ASSUME NEW a \in Seq(Nat), NEW b \in Seq(Nat), NEW p \in Places(a, b)
    PROVE  Difference(a, b, p) \in 0..(Len(a) * Len(b))
<1> DEFINE m == Len(a)
           n == Len(b)
           i == p[1]
           j == p[2]
<1>1. m \in Nat /\ n \in Nat /\ i \in 0..m /\ j \in 0..n
  BY LenProperties DEF Places
<1> HIDE DEF m, n, i, j
<1>2. i * n \in 0..(m * n)
  <2>1. i \in Nat /\ m - i \in Nat /\ (m - i) * n \in Nat /\ i * n \in Nat /\ m * n \in Nat
    BY <1>1
  <2>2. (m - i) * n = m * n - i * n
    BY <1>1
  <2> QED
    BY <2>1, <2>2
<1>3. j * m \in 0..(m * n)
  <2>1. j \in Nat /\ n - j \in Nat /\ (n - j) * m \in Nat /\ j * m \in Nat /\ m * n \in Nat
    BY <1>1
  <2>2. (n - j) * m = m * n - j * m
    BY <1>1
  <2> QED
    BY <2>1, <2>2
<1>4. \A u, v \in 0..(m * n) : Abs(u - v) \in 0..(m * n)
  <2>1. m * n \in Nat
    BY <1>1
  <2> QED
    BY <2>1 DEF Abs
<1> QED
  BY <1>2, <1>3, <1>4 DEF Difference, m, n, i, j

\* The differences still to see have a greatest.
LEMMA SeenIs ==
    ASSUME NEW a \in Seq(Nat), NEW b \in Seq(Nat), Ascending(a), Ascending(b), NEW p
    PROVE  /\ Seen(a, b, p) \in SUBSET (0..(Len(a) * Len(b)))
           /\ Max(Seen(a, b, p)) \in Seen(a, b, p)
           /\ \A d \in Seen(a, b, p) : d <= Max(Seen(a, b, p))
<1>1. Len(a) * Len(b) \in Nat
  BY LenProperties
<1>2. Occurring(a, b) \subseteq Nat
  BY LenProperties, ElementOfSeq DEF Occurring
<1>3. \A x \in Left(a, b, p) : Difference(a, b, After(a, b, x)) \in 0..(Len(a) * Len(b))
  BY <1>2, AfterIsPlace, DifferenceIs DEF Left
<1>4. Seen(a, b, p) \in SUBSET (0..(Len(a) * Len(b)))
  BY <1>1, <1>3 DEF Seen
<1>5. Seen(a, b, p) # {}
  BY DEF Seen
<1> QED
  BY <1>1, <1>4, <1>5, GreatestIs

\* Past everything there is nothing to see.
LEMMA NothingLeft ==
    ASSUME NEW a \in Seq(Nat), NEW b \in Seq(Nat), Ascending(a), Ascending(b)
    PROVE  Max(Seen(a, b, <<Len(a), Len(b)>>)) = 0
<1> DEFINE p == <<Len(a), Len(b)>>
<1>1. Len(a) \in Nat /\ Len(b) \in Nat /\ p[1] = Len(a) /\ p[2] = Len(b)
  BY LenProperties
<1>2. Occurring(a, b) \subseteq Nat
  BY LenProperties, ElementOfSeq DEF Occurring
<1> HIDE DEF p
<1>3. \A x \in Occurring(a, b) : ~(p[1] < UpTo(a, x)) /\ ~(p[2] < UpTo(b, x))
  <2> SUFFICES ASSUME NEW x \in Occurring(a, b)
               PROVE  ~(p[1] < UpTo(a, x)) /\ ~(p[2] < UpTo(b, x))
    OBVIOUS
  <2>1. UpTo(a, x) \in 0..Len(a) /\ UpTo(b, x) \in 0..Len(b)
    BY <1>2, UpToIs
  <2> QED
    BY <1>1, <2>1
<1>4. Left(a, b, p) = {}
  BY <1>3 DEF Left
<1>5. Seen(a, b, p) = {0}
  BY <1>4 DEF Seen
<1>6. Max({0}) = 0
  BY MaxIs
<1> QED
  BY <1>5, <1>6 DEF p

\* The smallest value left is left, those after it are the others, and each of
\* these is further on than the place after the smallest.
LEMMA SmallestIs ==
    ASSUME NEW a \in Seq(Nat), NEW b \in Seq(Nat), Ascending(a), Ascending(b),
           NEW p \in Places(a, b), p # <<Len(a), Len(b)>>
    PROVE  LET x == Smallest(a, b, p)
               q == After(a, b, x)
           IN  /\ x \in Left(a, b, p)
               /\ Left(a, b, p) = {x} \cup Left(a, b, q)
               /\ \A y \in Left(a, b, q) : q[1] + q[2] < UpTo(a, y) + UpTo(b, y)
<1> DEFINE m == Len(a)
           n == Len(b)
           i == p[1]
           j == p[2]
           x == Smallest(a, b, p)
           q == After(a, b, x)
<1>1. m \in Nat /\ n \in Nat /\ i \in 0..m /\ j \in 0..n /\ (i < m \/ j < n)
  BY LenProperties DEF Places
<1>2. \A k \in 1..m : a[k] \in Nat
  BY ElementOfSeq
<1>3. \A k \in 1..n : b[k] \in Nat
  BY ElementOfSeq
<1>4. q[1] = UpTo(a, x) /\ q[2] = UpTo(b, x)
  BY DEF After
<1>5. \/ i < m /\ x = a[i + 1] /\ (j < n => x <= b[j + 1])
      \/ j < n /\ x = b[j + 1] /\ (i < m => x <= a[i + 1])
  <2>1. x = IF j = n \/ (i < m /\ a[i + 1] <= b[j + 1]) THEN a[i + 1] ELSE b[j + 1]
    BY DEF Smallest
  <2>2. i < m => i + 1 \in 1..m
    BY <1>1
  <2>3. j < n => j + 1 \in 1..n
    BY <1>1
  <2> HIDE DEF x, m, n, i, j
  <2> QED
    BY <1>1, <1>2, <1>3, <2>1, <2>2, <2>3
<1> HIDE DEF x, q
<1>6. x \in Nat /\ x \in Occurring(a, b)
  <2>1. CASE i < m /\ x = a[i + 1]
    <3>1. i + 1 \in 1..m
      BY <1>1, <2>1
    <3> QED
      BY <1>2, <2>1, <3>1 DEF Occurring
  <2>2. CASE j < n /\ x = b[j + 1]
    <3>1. j + 1 \in 1..n
      BY <1>1, <2>2
    <3> QED
      BY <1>3, <2>2, <3>1 DEF Occurring
  <2> QED
    BY <1>5, <2>1, <2>2
<1>7. Occurring(a, b) \subseteq Nat
  BY <1>2, <1>3 DEF Occurring
<1>8. ASSUME NEW y \in Nat
      PROVE  /\ UpTo(a, y) \in 0..m /\ UpTo(b, y) \in 0..n
             /\ \A k \in 1..m : a[k] <= y <=> k <= UpTo(a, y)
             /\ \A k \in 1..n : b[k] <= y <=> k <= UpTo(b, y)
  <2>1. y \in Int
    OBVIOUS
  <2>2. UpTo(a, y) \in 0..m /\ \A k \in 1..m : a[k] <= y <=> k <= UpTo(a, y)
    BY <2>1, UpToIs
  <2>3. UpTo(b, y) \in 0..n /\ \A k \in 1..n : b[k] <= y <=> k <= UpTo(b, y)
    BY <2>1, UpToIs
  <2> QED
    BY <2>2, <2>3
<1> HIDE DEF m, n, i, j
\* What is left at p is not below x.
<1>9. ASSUME NEW y \in Nat
      PROVE  (i < UpTo(a, y) \/ j < UpTo(b, y)) <=> x <= y
  <2>1. UpTo(a, y) \in 0..m /\ UpTo(b, y) \in 0..n
    BY <1>8
  <2>2. ASSUME i < m
        PROVE  (a[i + 1] <= y <=> i + 1 <= UpTo(a, y)) /\ a[i + 1] \in Nat
    <3>1. i + 1 \in 1..m
      BY <1>1, <2>2
    <3> QED
      BY <1>2, <1>8, <3>1
  <2>3. ASSUME j < n
        PROVE  (b[j + 1] <= y <=> j + 1 <= UpTo(b, y)) /\ b[j + 1] \in Nat
    <3>1. j + 1 \in 1..n
      BY <1>1, <2>3
    <3> QED
      BY <1>3, <1>8, <3>1
  <2>4. (i < UpTo(a, y) \/ j < UpTo(b, y)) <=> (i < m /\ a[i + 1] <= y) \/ (j < n /\ b[j + 1] <= y)
    BY <1>1, <2>1, <2>2, <2>3
  <2> QED
    BY <1>5, <1>6, <2>2, <2>3, <2>4
\* What is left after x is above it.
<1>10. ASSUME NEW y \in Occurring(a, b)
       PROVE  (q[1] < UpTo(a, y) \/ q[2] < UpTo(b, y)) <=> x < y
  <2>0. x \in Nat /\ y \in Nat
    BY <1>6, <1>7
  <2>1. /\ UpTo(a, y) \in 0..m /\ UpTo(b, y) \in 0..n /\ q[1] \in 0..m /\ q[2] \in 0..n
    BY <1>4, <1>8, <2>0
  <2>2. \A k \in 1..m : (a[k] <= x <=> k <= q[1]) /\ (a[k] <= y <=> k <= UpTo(a, y))
    BY <1>4, <1>8, <2>0
  <2>3. \A k \in 1..n : (b[k] <= x <=> k <= q[2]) /\ (b[k] <= y <=> k <= UpTo(b, y))
    BY <1>4, <1>8, <2>0
  <2>4. ASSUME q[1] < UpTo(a, y) PROVE x < y
    <3>1. PICK k \in 1..m : k = UpTo(a, y)
      BY <1>1, <2>1, <2>4
    <3>2. a[k] <= y /\ ~(a[k] <= x) /\ a[k] \in Nat
      <4>1. k <= UpTo(a, y) /\ ~(k <= q[1])
        BY <2>1, <2>4, <3>1
      <4> QED
        BY <1>2, <2>2, <4>1
    <3> QED
      BY <2>0, <3>2
  <2>5. ASSUME q[2] < UpTo(b, y) PROVE x < y
    <3>1. PICK k \in 1..n : k = UpTo(b, y)
      BY <1>1, <2>1, <2>5
    <3>2. b[k] <= y /\ ~(b[k] <= x) /\ b[k] \in Nat
      <4>1. k <= UpTo(b, y) /\ ~(k <= q[2])
        BY <2>1, <2>5, <3>1
      <4> QED
        BY <1>3, <2>3, <4>1
    <3> QED
      BY <2>0, <3>2
  <2>6. ASSUME x < y PROVE q[1] < UpTo(a, y) \/ q[2] < UpTo(b, y)
    <3>1. (\E k \in 1..m : y = a[k]) \/ (\E k \in 1..n : y = b[k])
      BY DEF Occurring, m, n
    <3>2. ASSUME NEW k \in 1..m, y = a[k] PROVE q[1] < UpTo(a, y)
      <4>1. a[k] <= y /\ ~(a[k] <= x)
        BY <2>0, <2>6, <3>2
      <4>2. k <= UpTo(a, y) /\ ~(k <= q[1])
        BY <2>2, <4>1
      <4> QED
        BY <2>1, <4>2
    <3>3. ASSUME NEW k \in 1..n, y = b[k] PROVE q[2] < UpTo(b, y)
      <4>1. b[k] <= y /\ ~(b[k] <= x)
        BY <2>0, <2>6, <3>3
      <4>2. k <= UpTo(b, y) /\ ~(k <= q[2])
        BY <2>3, <4>1
      <4> QED
        BY <2>1, <4>2
    <3> QED
      BY <3>1, <3>2, <3>3
  <2> QED
    BY <2>4, <2>5, <2>6
<1>11. x \in Left(a, b, p)
  BY <1>6, <1>9 DEF Left, i, j
<1>12. Left(a, b, p) = {x} \cup Left(a, b, q)
  <2>1. \A y \in Occurring(a, b) : x <= y <=> (y = x \/ x < y)
    BY <1>6, <1>7
  <2>2. \A y \in Occurring(a, b) : y \in Left(a, b, p) <=> x <= y
    BY <1>7, <1>9 DEF Left, i, j
  <2>3. \A y \in Occurring(a, b) : y \in Left(a, b, q) <=> x < y
    BY <1>10 DEF Left
  <2>4. Left(a, b, p) \subseteq Occurring(a, b) /\ Left(a, b, q) \subseteq Occurring(a, b)
    BY DEF Left
  <2> QED
    BY <1>6, <2>1, <2>2, <2>3, <2>4
<1>13. ASSUME NEW y \in Left(a, b, q)
       PROVE  q[1] + q[2] < UpTo(a, y) + UpTo(b, y)
  <2>1. y \in Occurring(a, b) /\ y \in Nat /\ (q[1] < UpTo(a, y) \/ q[2] < UpTo(b, y))
    BY <1>7 DEF Left
  <2>2. x < y
    BY <1>10, <2>1
  <2>3. UpTo(a, y) \in 0..m /\ UpTo(b, y) \in 0..n /\ q[1] \in 0..m /\ q[2] \in 0..n
    BY <1>4, <1>6, <1>8, <2>1
  <2>4. q[1] <= UpTo(a, y)
    <3>1. CASE q[1] = 0
      BY <2>3, <3>1
    <3>2. CASE q[1] # 0
      <4>1. q[1] \in 1..m /\ a[q[1]] \in Nat /\ q[1] <= UpTo(a, x)
        BY <1>2, <1>4, <2>3, <3>2
      <4>2. a[q[1]] <= x
        BY <1>6, <1>8, <4>1
      <4>3. a[q[1]] <= y
        BY <1>6, <2>1, <2>2, <4>1, <4>2
      <4> QED
        BY <1>8, <2>1, <4>1, <4>3
    <3> QED
      BY <3>1, <3>2
  <2>5. q[2] <= UpTo(b, y)
    <3>1. CASE q[2] = 0
      BY <2>3, <3>1
    <3>2. CASE q[2] # 0
      <4>1. q[2] \in 1..n /\ b[q[2]] \in Nat /\ q[2] <= UpTo(b, x)
        BY <1>3, <1>4, <2>3, <3>2
      <4>2. b[q[2]] <= x
        BY <1>6, <1>8, <4>1
      <4>3. b[q[2]] <= y
        BY <1>6, <2>1, <2>2, <4>1, <4>2
      <4> QED
        BY <1>8, <2>1, <4>1, <4>3
    <3> QED
      BY <3>1, <3>2
  <2> QED
    BY <2>1, <2>3, <2>4, <2>5
<1> QED
  BY <1>11, <1>12, <1>13 DEF x, q

-----------------------------------------------------------------------------
(* What the recursion computes                                             *)

Behind(a, b, p) == After(a, b, Smallest(a, b, p))

\* W is the recursive function of Walk.
Walks(a, b, W) ==
    W = [p \in Places(a, b) |->
            IF p = <<Len(a), Len(b)>> THEN 0
            ELSE Max({Difference(a, b, Behind(a, b, p)), W[Behind(a, b, p)]})]

Greatest(a, b) == [p \in Places(a, b) |-> Max(Seen(a, b, p))]

LEMMA BehindIs ==
    ASSUME NEW a \in Seq(Nat), NEW b \in Seq(Nat), Ascending(a), Ascending(b),
           NEW p \in Places(a, b), p # <<Len(a), Len(b)>>
    PROVE  /\ Smallest(a, b, p) \in Left(a, b, p) /\ Smallest(a, b, p) \in Nat
           /\ Behind(a, b, p) \in Places(a, b)
           /\ Left(a, b, p) = {Smallest(a, b, p)} \cup Left(a, b, Behind(a, b, p))
<1>1. Occurring(a, b) \subseteq Nat
  BY LenProperties, ElementOfSeq DEF Occurring
<1>2. Smallest(a, b, p) \in Left(a, b, p)
  BY SmallestIs
<1>3. Smallest(a, b, p) \in Nat
  BY <1>1, <1>2 DEF Left
<1>4. Behind(a, b, p) \in Places(a, b)
  BY <1>3, AfterIsPlace DEF Behind
<1>5. Left(a, b, p) = {Smallest(a, b, p)} \cup Left(a, b, Behind(a, b, p))
  BY SmallestIs DEF Behind
<1> QED
  BY <1>2, <1>3, <1>4, <1>5

\* One step of the walk: the greatest of the difference here and those to come.
LEMMA GreatestStep ==
    ASSUME NEW a \in Seq(Nat), NEW b \in Seq(Nat), Ascending(a), Ascending(b),
           NEW p \in Places(a, b), p # <<Len(a), Len(b)>>
    PROVE  LET q == Behind(a, b, p) IN
           Max({Difference(a, b, q), Max(Seen(a, b, q))}) = Max(Seen(a, b, p))
<1> DEFINE q == Behind(a, b, p)
           d == Difference(a, b, q)
           S == Seen(a, b, p)
           V == Seen(a, b, q)
<1>1. S = {d} \cup V
  BY BehindIs DEF Seen, Behind
<1>2. q \in Places(a, b) /\ d \in Nat /\ Len(a) * Len(b) \in Nat
  BY BehindIs, DifferenceIs, LenProperties
<1>3. V \in SUBSET Nat /\ Max(V) \in V /\ \A v \in V : v <= Max(V)
  BY <1>2, SeenIs
<1>4. S \in SUBSET Nat /\ Max(S) \in S /\ \A v \in S : v <= Max(S)
  BY <1>2, SeenIs
<1> HIDE DEF q, d, S, V
<1>5. Max(S) \in {d, Max(V)}
  <2>1. CASE Max(S) = d
    BY <2>1
  <2>2. CASE Max(S) \in V
    <3>1. Max(S) <= Max(V) /\ Max(V) <= Max(S) /\ Max(S) \in Nat /\ Max(V) \in Nat
      BY <1>1, <1>3, <1>4, <2>2
    <3>2. Max(S) = Max(V)
      BY <3>1
    <3> QED
      BY <3>2
  <2> QED
    BY <1>1, <1>4, <2>1, <2>2
<1>6. \A v \in {d, Max(V)} : v <= Max(S)
  BY <1>1, <1>3, <1>4
<1>7. {d, Max(V)} \in SUBSET Nat
  BY <1>2, <1>3
<1>8. Max({d, Max(V)}) = Max(S)
  BY <1>5, <1>6, <1>7, MaxIs
<1> QED
  BY <1>8 DEF q, d, S, V

\* The greatest difference to come satisfies the recursion.
LEMMA GreatestWalks ==
    ASSUME NEW a \in Seq(Nat), NEW b \in Seq(Nat), Ascending(a), Ascending(b)
    PROVE  Walks(a, b, Greatest(a, b))
<1> DEFINE G == Greatest(a, b)
<1>1. ASSUME NEW p \in Places(a, b)
      PROVE  Max(Seen(a, b, p)) =
               IF p = <<Len(a), Len(b)>> THEN 0
               ELSE Max({Difference(a, b, Behind(a, b, p)), G[Behind(a, b, p)]})
  <2>1. CASE p = <<Len(a), Len(b)>>
    BY <2>1, NothingLeft
  <2>2. CASE p # <<Len(a), Len(b)>>
    <3>1. G[Behind(a, b, p)] = Max(Seen(a, b, Behind(a, b, p)))
      BY <2>2, BehindIs DEF Greatest
    <3> QED
      BY <2>2, <3>1, GreatestStep
  <2> QED
    BY <2>1, <2>2
<1> QED
  BY <1>1 DEF Walks, Greatest

\* And nothing else walks: of the places where another W differs take one
\* whose next place is furthest on; W then differs there too.
LEMMA OnlyGreatestWalks ==
    ASSUME NEW a \in Seq(Nat), NEW b \in Seq(Nat), Ascending(a), Ascending(b),
           NEW W, Walks(a, b, W), NEW s \in Places(a, b)
    PROVE  W[s] = Max(Seen(a, b, s))
<1> DEFINE end == <<Len(a), Len(b)>>
           Bad == {p \in Places(a, b) : p # end /\ W[p] # Max(Seen(a, b, p))}
           ToGo(p) == (Len(a) - Behind(a, b, p)[1]) + (Len(b) - Behind(a, b, p)[2])
<1>1. W[end] = 0 /\ Max(Seen(a, b, end)) = 0
  <2>1. end \in Places(a, b)
    BY LenProperties DEF Places
  <2> QED
    BY <2>1, NothingLeft DEF Walks
<1>2. ASSUME NEW p \in Bad
      PROVE  ToGo(p) \in Nat /\ Behind(a, b, p) \in Bad /\ ToGo(Behind(a, b, p)) < ToGo(p)
  <2> DEFINE q == Behind(a, b, p)
  <2>1. p \in Places(a, b) /\ p # end /\ W[p] # Max(Seen(a, b, p))
    OBVIOUS
  <2>2. q \in Places(a, b)
    BY <2>1, BehindIs
  <2>3. W[p] = Max({Difference(a, b, q), W[q]})
    BY <2>1 DEF Walks
  <2>4. Max(Seen(a, b, p)) = Max({Difference(a, b, q), Max(Seen(a, b, q))})
    BY <2>1, GreatestStep
  <2>5. W[q] # Max(Seen(a, b, q))
    BY <2>1, <2>3, <2>4
  <2>6. q # end
    BY <1>1, <2>5
  <2>7. q \in Bad
    BY <2>2, <2>5, <2>6
  <2>8. Smallest(a, b, q) \in Left(a, b, q) /\ Behind(a, b, q) \in Places(a, b)
    BY <2>2, <2>6, BehindIs
  <2>9. q[1] + q[2] < UpTo(a, Smallest(a, b, q)) + UpTo(b, Smallest(a, b, q))
    BY <2>1, <2>8, SmallestIs DEF Behind
  <2> DEFINE r == Behind(a, b, q)
  <2>10. q[1] + q[2] < r[1] + r[2]
    BY <2>9 DEF Behind, After
  <2>11. /\ Len(a) \in Nat /\ Len(b) \in Nat
         /\ q[1] \in 0..Len(a) /\ q[2] \in 0..Len(b) /\ r[1] \in 0..Len(a) /\ r[2] \in 0..Len(b)
    BY <2>2, <2>8, LenProperties DEF Places
  <2>12. ToGo(p) = (Len(a) - q[1]) + (Len(b) - q[2]) /\ ToGo(q) = (Len(a) - r[1]) + (Len(b) - r[2])
    OBVIOUS
  <2> HIDE DEF q, r, ToGo, Bad
  <2> DEFINE i == q[1]
             j == q[2]
             k == r[1]
             l == r[2]
             m == Len(a)
             n == Len(b)
  <2>13. m \in Nat /\ n \in Nat /\ i \in 0..m /\ j \in 0..n /\ k \in 0..m /\ l \in 0..n /\ i + j < k + l
    BY <2>10, <2>11
  <2>14. ToGo(p) = (m - i) + (n - j) /\ ToGo(q) = (m - k) + (n - l)
    BY <2>12
  <2> HIDE DEF i, j, k, l, m, n
  <2>15. ToGo(p) \in Nat /\ ToGo(q) < ToGo(p)
    BY <2>13, <2>14
  <2> QED
    BY <2>7, <2>15 DEF q
<1>3. Bad = {}
  <2> SUFFICES ASSUME Bad # {} PROVE FALSE
    OBVIOUS
  <2> DEFINE T == {ToGo(p) : p \in Bad}
  <2>0. T \in SUBSET Nat
    <3> HIDE DEF Bad, ToGo
    <3> QED
      BY <1>2
  <2>1. T # {}
    OBVIOUS
  <2>2. PICK n \in T : \A k \in T : n <= k
    <3> HIDE DEF T
    <3> QED
      BY <2>0, <2>1, LeastNat
  <2> HIDE DEF Bad, ToGo
  <2>3. PICK p \in Bad : n = ToGo(p)
    OBVIOUS
  <2>4. Behind(a, b, p) \in Bad /\ ToGo(Behind(a, b, p)) < ToGo(p) /\ ToGo(p) \in Nat
    BY <1>2
  <2>5. ToGo(Behind(a, b, p)) \in T
    BY <2>4
  <2>6. n <= ToGo(Behind(a, b, p)) /\ ToGo(Behind(a, b, p)) \in Nat
    BY <2>0, <2>2, <2>5
  <2> QED
    BY <2>3, <2>4, <2>6
<1> QED
  BY <1>1, <1>3

\* So the walk gives the greatest difference over the values that occur.
LEMMA WalkIs ==
    ASSUME NEW a \in Seq(Nat), NEW b \in Seq(Nat), Ascending(a), Ascending(b)
    PROVE  Walk(a, b) = Max(Seen(a, b, <<0, 0>>))
<1> DEFINE W == CHOOSE w : Walks(a, b, w)
<1>1. Walk(a, b) = W[<<0, 0>>]
  BY DEF Walk, Walks, Behind, After
<1>2. Walks(a, b, W)
  <2> HIDE DEF W
  <2> QED
    BY GreatestWalks DEF W
<1>3. <<0, 0>> \in Places(a, b)
  BY LenProperties DEF Places
<1> HIDE DEF W
<1>4. W[<<0, 0>>] = Max(Seen(a, b, <<0, 0>>))
  BY <1>2, <1>3, OnlyGreatestWalks
<1> QED
  BY <1>1, <1>4

-----------------------------------------------------------------------------
(* The greatest distance at any value                                      *)

Apart(a, b, x) == Difference(a, b, After(a, b, x))

\* Values that no score of a sample tells apart.
LEMMA UpToAlike ==
    ASSUME NEW s \in Seq(Nat), NEW x, NEW y,
           \A i \in 1..Len(s) : s[i] <= x <=> s[i] <= y
    PROVE  UpTo(s, x) = UpTo(s, y)
<1>1. DOMAIN s = 1..Len(s)
  BY LenProperties
<1>2. {i \in DOMAIN s : s[i] <= x} = {i \in DOMAIN s : s[i] <= y}
  BY <1>1
<1> QED
  BY <1>2 DEF UpTo

\* Between two values that occur nothing changes.
LEMMA NearestBelow ==
    ASSUME NEW a \in Seq(Nat), NEW b \in Seq(Nat), NEW x \in Nat
    PROVE  \/ /\ \A i \in 1..Len(a) : ~(a[i] <= x)
              /\ \A i \in 1..Len(b) : ~(b[i] <= x)
           \/ \E y \in Occurring(a, b) : After(a, b, y) = After(a, b, x)
<1> DEFINE T == {y \in Occurring(a, b) : y <= x}
<1>1. Occurring(a, b) \subseteq Nat
  BY LenProperties, ElementOfSeq DEF Occurring
<1>2. /\ \A i \in 1..Len(a) : a[i] \in Occurring(a, b)
      /\ \A i \in 1..Len(b) : b[i] \in Occurring(a, b)
  BY DEF Occurring
<1>3. T \in SUBSET (0..x)
  BY <1>1
<1>4. CASE T = {}
  BY <1>2, <1>4
<1>5. CASE T # {}
  <2>1. PICK y \in T : \A z \in T : z <= y
    BY <1>3, <1>5, GreatestIs
  <2>2. y \in Occurring(a, b) /\ y \in Nat /\ y <= x
    BY <1>1, <2>1
  <2>3. \A z \in Occurring(a, b) : z <= x <=> z <= y
    <3>1. \A z \in Occurring(a, b) : z <= x => z <= y
      BY <2>1
    <3>2. \A z \in Nat : z <= y => z <= x
      BY <2>2
    <3> QED
      BY <1>1, <3>1, <3>2
  <2>4. UpTo(a, y) = UpTo(a, x)
    <3>1. \A i \in 1..Len(a) : a[i] <= y <=> a[i] <= x
      BY <1>2, <2>3
    <3> QED
      BY <3>1, UpToAlike
  <2>5. UpTo(b, y) = UpTo(b, x)
    <3>1. \A i \in 1..Len(b) : b[i] <= y <=> b[i] <= x
      BY <1>2, <2>3
    <3> QED
      BY <3>1, UpToAlike
  <2> QED
    BY <2>2, <2>4, <2>5 DEF After
<1> QED
  BY <1>4, <1>5

\* A value that occurs is seen from the start.
LEMMA OccurringIsLeft ==
    ASSUME NEW a \in Seq(Nat), NEW b \in Seq(Nat), Ascending(a), Ascending(b),
           NEW x \in Occurring(a, b)
    PROVE  x \in Left(a, b, <<0, 0>>)
<1>1. x \in Nat
  BY LenProperties, ElementOfSeq DEF Occurring
<1>2. /\ UpTo(a, x) \in 0..Len(a) /\ UpTo(b, x) \in 0..Len(b)
      /\ \A i \in 1..Len(a) : a[i] <= x <=> i <= UpTo(a, x)
      /\ \A i \in 1..Len(b) : b[i] <= x <=> i <= UpTo(b, x)
  <2>0. x \in Int
    BY <1>1
  <2>1. UpTo(a, x) \in 0..Len(a) /\ \A i \in 1..Len(a) : a[i] <= x <=> i <= UpTo(a, x)
    BY <2>0, UpToIs
  <2>2. UpTo(b, x) \in 0..Len(b) /\ \A i \in 1..Len(b) : b[i] <= x <=> i <= UpTo(b, x)
    BY <2>0, UpToIs
  <2> QED
    BY <2>1, <2>2
<1>3. (\E i \in 1..Len(a) : x = a[i]) \/ (\E i \in 1..Len(b) : x = b[i])
  BY DEF Occurring
<1>4. ASSUME NEW i \in 1..Len(a), x = a[i] PROVE 0 < UpTo(a, x)
  <2>1. a[i] <= x
    BY <1>1, <1>4
  <2>2. i <= UpTo(a, x)
    BY <1>2, <2>1
  <2> QED
    BY <1>2, <2>2
<1>5. ASSUME NEW i \in 1..Len(b), x = b[i] PROVE 0 < UpTo(b, x)
  <2>1. b[i] <= x
    BY <1>1, <1>5
  <2>2. i <= UpTo(b, x)
    BY <1>2, <2>1
  <2> QED
    BY <1>2, <2>2
<1>6. 0 < UpTo(a, x) \/ 0 < UpTo(b, x)
  BY <1>3, <1>4, <1>5
<1> QED
  BY <1>6 DEF Left

\* The walk gives the greatest distance there is, and it is one at a value that
\* occurs.
LEMMA WalkIsGreatest ==
    ASSUME NEW a \in Seq(Nat), NEW b \in Seq(Nat), Ascending(a), Ascending(b), Len(a) # 0
    PROVE  /\ \A x \in Nat : Apart(a, b, x) <= Walk(a, b)
           /\ \E x \in Occurring(a, b) : Apart(a, b, x) = Walk(a, b)
           /\ Walk(a, b) \in Nat
<1> DEFINE S == Seen(a, b, <<0, 0>>)
<1>0. Len(a) \in Nat /\ Len(b) \in Nat /\ Len(a) * Len(b) \in Nat
  BY LenProperties
<1>1. /\ S \in SUBSET (0..(Len(a) * Len(b)))
      /\ Walk(a, b) \in S /\ \A d \in S : d <= Walk(a, b)
  BY SeenIs, WalkIs
<1>2. \A x \in Occurring(a, b) : Apart(a, b, x) \in S
  BY OccurringIsLeft DEF Seen, Apart
<1>3. Walk(a, b) \in Nat /\ S \subseteq Nat
  BY <1>0, <1>1
<1>4. Walk(a, b) = 0 \/ \E x \in Occurring(a, b) : Apart(a, b, x) = Walk(a, b)
  BY <1>1 DEF Seen, Left, Apart
<1> HIDE DEF S
<1>5. \E x \in Occurring(a, b) : Apart(a, b, x) = Walk(a, b)
  <2>1. CASE Walk(a, b) = 0
    <3>1. 1 \in 1..Len(a)
      BY <1>0
    <3>2. PICK x \in Occurring(a, b) : TRUE
      BY <3>1 DEF Occurring
    <3>3. Apart(a, b, x) <= 0 /\ Apart(a, b, x) \in Nat
      BY <1>1, <1>2, <1>3, <2>1
    <3>4. Apart(a, b, x) = 0
      BY <3>3
    <3> QED
      BY <2>1, <3>4
  <2> QED
    BY <1>4, <2>1
<1>6. ASSUME NEW x \in Nat PROVE Apart(a, b, x) <= Walk(a, b)
  <2>1. CASE \E y \in Occurring(a, b) : After(a, b, y) = After(a, b, x)
    BY <1>1, <1>2, <2>1 DEF Apart
  <2>2. CASE /\ \A i \in 1..Len(a) : ~(a[i] <= x)
             /\ \A i \in 1..Len(b) : ~(b[i] <= x)
    <3>1. DOMAIN a = 1..Len(a) /\ DOMAIN b = 1..Len(b)
      BY LenProperties
    <3>2. {i \in DOMAIN a : a[i] <= x} = {} /\ {i \in DOMAIN b : b[i] <= x} = {}
      BY <2>2, <3>1
    <3>3. UpTo(a, x) = 0 /\ UpTo(b, x) = 0
      BY <3>2, FS_EmptySet DEF UpTo
    <3>4. Apart(a, b, x) = Abs(0 * Len(b) - 0 * Len(a))
      BY <3>3 DEF Apart, Difference, After
    <3>5. Apart(a, b, x) = 0
      BY <1>0, <3>4 DEF Abs
    <3> QED
      BY <1>3, <3>5
  <2> QED
    BY <1>0, <2>1, <2>2, NearestBelow
<1> QED
  BY <1>3, <1>5, <1>6

-----------------------------------------------------------------------------
(* The scores in order                                                     *)

\* A finite set of runs with scores that are percentages.
Scored(rs) == IsFiniteSet(rs) /\ \A r \in rs : runs[r].score \in 0..100

\* The two counts, and how they grow.
LEMMA Counts ==
    ASSUME NEW rs, Scored(rs), NEW x \in Int, NEW y \in Int
    PROVE  /\ Below(rs, x) \in 0..Cardinality(rs) /\ NotAbove(rs, x) \in 0..Cardinality(rs)
           /\ Below(rs, x) <= NotAbove(rs, x)
           /\ x <= y => NotAbove(rs, x) <= NotAbove(rs, y)
           /\ x < y => NotAbove(rs, x) <= Below(rs, y)
<1> DEFINE B(v) == {r \in rs : runs[r].score < v}
           N(v) == {r \in rs : runs[r].score <= v}
<1>1. \A r \in rs : runs[r].score \in Int
  BY DEF Scored
<1>2. Cardinality(rs) \in Nat /\ IsFiniteSet(rs)
  BY FS_CardinalityType DEF Scored
<1>3. \A v : B(v) \in SUBSET rs /\ N(v) \in SUBSET rs
  OBVIOUS
<1>4. B(x) \subseteq N(x)
  BY <1>1
<1>5. x <= y => N(x) \subseteq N(y)
  BY <1>1
<1>6. x < y => N(x) \subseteq B(y)
  BY <1>1
<1>7. \A v : Below(rs, v) = Cardinality(B(v)) /\ NotAbove(rs, v) = Cardinality(N(v))
  BY DEF Below, NotAbove
<1> HIDE DEF B, N
<1>8. \A v : /\ IsFiniteSet(B(v)) /\ Cardinality(B(v)) \in Nat /\ Cardinality(B(v)) <= Cardinality(rs)
             /\ IsFiniteSet(N(v)) /\ Cardinality(N(v)) \in Nat /\ Cardinality(N(v)) <= Cardinality(rs)
  BY <1>2, <1>3, FS_Subset, FS_CardinalityType
<1>9. /\ Cardinality(B(x)) <= Cardinality(N(x))
      /\ x <= y => Cardinality(N(x)) <= Cardinality(N(y))
      /\ x < y => Cardinality(N(x)) <= Cardinality(B(y))
  BY <1>4, <1>5, <1>6, <1>8, FS_Subset
<1> QED
  BY <1>2, <1>7, <1>8, <1>9

\* The extremes of the scale.
LEMMA CountsAtEnds ==
    ASSUME NEW rs, Scored(rs)
    PROVE  Below(rs, 0) = 0 /\ NotAbove(rs, 100) = Cardinality(rs)
<1>1. {r \in rs : runs[r].score < 0} = {} /\ {r \in rs : runs[r].score <= 100} = rs
  BY DEF Scored
<1> QED
  BY <1>1, FS_EmptySet DEF Below, NotAbove

\* What Below does not count and NotAbove does has that score.
LEMMA Between ==
    ASSUME NEW rs, Scored(rs), NEW x \in Int, Below(rs, x) # NotAbove(rs, x)
    PROVE  x \in {runs[r].score : r \in rs}
<1> SUFFICES ASSUME x \notin {runs[r].score : r \in rs} PROVE FALSE
  OBVIOUS
<1>1. \A r \in rs : runs[r].score \in Int /\ runs[r].score # x
  BY DEF Scored
<1>2. {r \in rs : runs[r].score < x} = {r \in rs : runs[r].score <= x}
  BY <1>1
<1> QED
  BY <1>2 DEF Below, NotAbove

\* The value at each place is there, and a value is below it exactly when too
\* few scores are not above that value.
LEMMA PlaceIs ==
    ASSUME NEW rs, Scored(rs), NEW i \in 1..Cardinality(rs)
    PROVE  /\ SortedScores(rs)[i] \in {runs[r].score : r \in rs}
           /\ SortedScores(rs)[i] \in Nat
           /\ \A x \in Int : SortedScores(rs)[i] <= x <=> i <= NotAbove(rs, x)
<1> DEFINE T == {v \in Nat : i <= NotAbove(rs, v)}
           s == SortedScores(rs)[i]
           Is(v) == v \in {runs[r].score : r \in rs} /\ Below(rs, v) < i /\ i <= NotAbove(rs, v)
<1>0. Cardinality(rs) \in Nat /\ i \in Nat \ {0}
  BY FS_CardinalityType DEF Scored
<1>1. 100 \in T
  BY CountsAtEnds
<1>2. PICK v \in T : \A w \in T : v <= w
  BY <1>1, LeastNat
<1>3. v \in Nat /\ i <= NotAbove(rs, v)
  BY <1>2
<1>4. Below(rs, v) < i
  <2>1. CASE v = 0
    BY <1>0, <2>1, CountsAtEnds
  <2>2. CASE v # 0
    <3> DEFINE u == v - 1
    <3>1. u \in Nat /\ ~(v <= u)
      BY <1>3, <2>2
    <3> HIDE DEF u
    <3>2. ~(i <= NotAbove(rs, u))
      BY <1>2, <3>1
    <3>3. {r \in rs : runs[r].score < v} = {r \in rs : runs[r].score <= u}
      BY <1>3, <3>1 DEF Scored, u
    <3>4. Below(rs, v) = NotAbove(rs, u)
      BY <3>3 DEF Below, NotAbove
    <3>5. NotAbove(rs, u) \in 0..Cardinality(rs)
      BY <3>1, Counts
    <3> QED
      BY <1>0, <3>2, <3>4, <3>5
  <2> QED
    BY <2>1, <2>2
<1>5. Below(rs, v) \in Int /\ NotAbove(rs, v) \in Int
  BY <1>0, <1>3, Counts
<1>6. v \in {runs[r].score : r \in rs}
  BY <1>0, <1>3, <1>4, <1>5, Between
<1>7. s = CHOOSE w : Is(w)
  BY DEF SortedScores
<1>8. Is(s)
  <2>1. Is(v)
    BY <1>3, <1>4, <1>6
  <2> HIDE DEF Is, s
  <2> QED
    BY <1>7, <2>1
<1>9. s \in {runs[r].score : r \in rs} /\ Below(rs, s) < i /\ i <= NotAbove(rs, s)
  BY <1>8
<1> HIDE DEF s, Is, T
<1>10. s \in Nat
  BY <1>9 DEF Scored
<1>11. ASSUME NEW x \in Int PROVE s <= x <=> i <= NotAbove(rs, x)
  <2>1. s <= x => NotAbove(rs, s) <= NotAbove(rs, x)
    BY <1>10, Counts
  <2>2. x < s => NotAbove(rs, x) <= Below(rs, s)
    BY <1>10, Counts
  <2>3. NotAbove(rs, x) \in Int /\ NotAbove(rs, s) \in Int /\ Below(rs, s) \in Int
    BY <1>0, <1>10, Counts
  <2> QED
    BY <1>0, <1>9, <1>10, <2>1, <2>2, <2>3
<1> QED
  BY <1>9, <1>10, <1>11 DEF s

\* The sorted scores are a sorted sequence with the counts of the runs.
LEMMA SortedScoresIs ==
    ASSUME NEW rs, Scored(rs)
    PROVE  /\ SortedScores(rs) \in Seq(Nat) /\ Len(SortedScores(rs)) = Cardinality(rs)
           /\ Ascending(SortedScores(rs))
           /\ \A i \in 1..Cardinality(rs) : SortedScores(rs)[i] \in {runs[r].score : r \in rs}
           /\ \A x \in Int : UpTo(SortedScores(rs), x) = NotAbove(rs, x)
<1> DEFINE s == SortedScores(rs)
           n == Cardinality(rs)
<1>1. n \in Nat
  BY FS_CardinalityType DEF Scored
<1>2. DOMAIN s = 1..n /\ s = [i \in 1..n |-> s[i]]
  BY DEF SortedScores
<1>3. \A i \in 1..n : /\ s[i] \in Nat /\ s[i] \in {runs[r].score : r \in rs}
                      /\ \A x \in Int : s[i] <= x <=> i <= NotAbove(rs, x)
  BY PlaceIs
<1> HIDE DEF s, n
<1>4. s \in Seq(Nat) /\ Len(s) = n
  <2>1. s \in [1..n -> Nat]
    BY <1>2, <1>3
  <2> QED
    BY <1>1, <1>2, <2>1, SeqDef, LenProperties
<1>5. \A x \in Int : NotAbove(rs, x) \in 0..n
  BY Counts DEF n
<1>6. Ascending(s)
  <2> SUFFICES ASSUME NEW i \in 1..n, NEW j \in 1..n, i <= j PROVE s[i] <= s[j]
    BY <1>4 DEF Ascending
  <2>1. s[j] \in Int /\ s[j] <= s[j] /\ s[i] \in Int
    BY <1>3
  <2>2. j <= NotAbove(rs, s[j]) /\ NotAbove(rs, s[j]) \in 0..n
    BY <1>3, <1>5, <2>1
  <2>3. i <= NotAbove(rs, s[j])
    BY <1>1, <2>2
  <2> QED
    BY <1>3, <2>1, <2>3
<1>7. ASSUME NEW x \in Int PROVE UpTo(s, x) = NotAbove(rs, x)
  <2> DEFINE k == NotAbove(rs, x)
  <2>1. k \in 0..n
    BY <1>5
  <2>2. \A i \in 1..n : s[i] <= x <=> i <= k
    BY <1>3
  <2> HIDE DEF k
  <2>3. {i \in DOMAIN s : s[i] <= x} = 1..k
    BY <1>1, <1>2, <2>1, <2>2
  <2>4. Cardinality(1..k) = k
    BY <1>1, <2>1, FS_Interval
  <2> QED
    BY <2>3, <2>4 DEF UpTo, k
<1> QED
  BY <1>3, <1>4, <1>6, <1>7 DEF s, n

-----------------------------------------------------------------------------
(* Two samples of runs                                                     *)

\* How far apart the shares of scores up to x are, times both sizes.
Spread(A, B, x) == Abs(NotAbove(A, x) * Cardinality(B) - NotAbove(B, x) * Cardinality(A))

\* The walk over the sorted scores of two sets of runs.
LEMMA WalkOfScores ==
    ASSUME NEW A, NEW B, Scored(A), Scored(B), Cardinality(A) # 0
    PROVE  LET w == Walk(SortedScores(A), SortedScores(B)) IN
           /\ w \in Nat
           /\ \A x \in Nat : Spread(A, B, x) <= w
           /\ \E x \in {runs[r].score : r \in A \cup B} : Spread(A, B, x) = w
<1> DEFINE a == SortedScores(A)
           b == SortedScores(B)
<1>1. /\ a \in Seq(Nat) /\ Len(a) = Cardinality(A) /\ Ascending(a)
      /\ b \in Seq(Nat) /\ Len(b) = Cardinality(B) /\ Ascending(b)
      /\ \A i \in 1..Len(a) : a[i] \in {runs[r].score : r \in A}
      /\ \A i \in 1..Len(b) : b[i] \in {runs[r].score : r \in B}
      /\ \A x \in Int : UpTo(a, x) = NotAbove(A, x) /\ UpTo(b, x) = NotAbove(B, x)
  BY SortedScoresIs
<1> HIDE DEF a, b
<1>2. \A x \in Int : Apart(a, b, x) = Spread(A, B, x)
  BY <1>1 DEF Apart, Difference, After, Spread
<1>3. /\ \A x \in Nat : Apart(a, b, x) <= Walk(a, b)
      /\ \E x \in Occurring(a, b) : Apart(a, b, x) = Walk(a, b)
      /\ Walk(a, b) \in Nat
  BY <1>1, WalkIsGreatest
<1>4. Occurring(a, b) \subseteq {runs[r].score : r \in A \cup B} /\ Occurring(a, b) \subseteq Int
  <2>1. \A x \in Occurring(a, b) : (\E i \in 1..Len(a) : x = a[i]) \/ (\E i \in 1..Len(b) : x = b[i])
    BY DEF Occurring
  <2>2. \A x \in Occurring(a, b) : x \in {runs[r].score : r \in A} \/ x \in {runs[r].score : r \in B}
    BY <1>1, <2>1
  <2>3. \A r \in A \cup B : runs[r].score \in Int
    BY DEF Scored
  <2> QED
    BY <2>2, <2>3
<1>5. \A x \in Nat : Spread(A, B, x) <= Walk(a, b)
  BY <1>2, <1>3
<1>6. \E x \in {runs[r].score : r \in A \cup B} : Spread(A, B, x) = Walk(a, b)
  <2>1. PICK x \in Occurring(a, b) : Apart(a, b, x) = Walk(a, b)
    BY <1>3
  <2> QED
    BY <1>2, <1>4, <2>1
<1> QED
  BY <1>3, <1>5, <1>6 DEF a, b

\* The root is the one before the least number whose square is too great.
LEMMA RootIs ==
    ASSUME NEW x \in Nat
    PROVE  Root(x) \in 0..x /\ Root(x) * Root(x) <= x /\ x < (Root(x) + 1) * (Root(x) + 1)
<1> DEFINE T == {t \in Nat : x < (t + 1) * (t + 1)}
           Is(s) == s \in 0..x /\ s * s <= x /\ x < (s + 1) * (s + 1)
<1>1. x \in T
  <2>1. (x + 1) * (x + 1) = x * x + 2 * x + 1 /\ x * x \in Nat
    OBVIOUS
  <2> QED
    BY <2>1
<1>2. PICK s \in T : \A t \in T : s <= t
  BY <1>1, LeastNat
<1>3. s \in 0..x /\ x < (s + 1) * (s + 1)
  BY <1>1, <1>2
<1>4. s * s <= x
  <2>1. CASE s = 0
    BY <2>1
  <2>2. CASE s # 0
    <3>1. PICK u \in Nat : s = u + 1
      <4>1. s - 1 \in Nat /\ s = (s - 1) + 1
        BY <1>3, <2>2
      <4> QED
        BY <4>1
    <3>2. ~(s <= u)
      BY <3>1
    <3>3. u \notin T
      BY <1>2, <3>2
    <3>4. ~(x < (u + 1) * (u + 1)) /\ (u + 1) * (u + 1) \in Nat
      BY <3>3
    <3> QED
      BY <3>1, <3>4
  <2> QED
    BY <2>1, <2>2
<1>5. Is(s)
  BY <1>3, <1>4
<1>6. Root(x) = CHOOSE t : Is(t)
  BY DEF Root
<1>7. Is(Root(x))
  <2> HIDE DEF Is
  <2> QED
    BY <1>5, <1>6
<1> QED
  BY <1>7

\* A quotient is at least every number whose product with the divisor fits.
LEMMA Quotient ==
    ASSUME NEW x \in Nat, NEW y \in Nat \ {0}, NEW c \in Nat, c * y <= x
    PROVE  x \div y \in Nat /\ c <= x \div y
OBVIOUS

\* All of one sample but at most one below all of the other.
LEMMA ApartIsSignificant ==
    ASSUME NEW na \in Nat, NEW nb \in Nat, 5 <= na, 5 <= nb,
           NEW d \in Nat, (na - 1) * nb <= d
    PROVE  d # 0 /\ Significant(na, nb, d)
<1> DEFINE y == (na * nb * 10000) \div (na + nb)
           s == 10 * Root(y)
           q == 110000 \div s
<1>1. na * nb \in Nat /\ 5 * nb <= na * nb /\ 5 * na <= na * nb
  <2>1. na - 5 \in Nat /\ nb - 5 \in Nat
    OBVIOUS
  <2>2. (na - 5) * nb \in Nat /\ (nb - 5) * na \in Nat /\ na * nb \in Nat
    BY <2>1
  <2>3. (na - 5) * nb = na * nb - 5 * nb /\ (nb - 5) * na = na * nb - 5 * na
    OBVIOUS
  <2> QED
    BY <2>2, <2>3
<1>2. y \in Nat /\ 25000 <= y
  <2>1. na + nb \in Nat \ {0} /\ na * nb * 10000 \in Nat
    BY <1>1
  <2>2. 25000 * (na + nb) <= na * nb * 10000
    <3> DEFINE p == na * nb
    <3>1. p \in Nat /\ 5 * nb <= p /\ 5 * na <= p
      BY <1>1
    <3> HIDE DEF p
    <3>2. 25000 * (na + nb) <= p * 10000
      BY <3>1
    <3> QED
      BY <3>2 DEF p
  <2> QED
    BY <2>1, <2>2, Quotient
<1>3. Root(y) \in Nat /\ 158 <= Root(y)
  <2> HIDE DEF y
  <2>1. Root(y) \in 0..y /\ y < (Root(y) + 1) * (Root(y) + 1)
    BY <1>2, RootIs
  <2> DEFINE t == Root(y)
  <2>2. t \in Nat /\ 25000 < (t + 1) * (t + 1)
    <3>1. t \in Nat /\ (t + 1) * (t + 1) \in Nat
      BY <1>2, <2>1
    <3> QED
      BY <1>2, <2>1, <3>1
  <2> HIDE DEF t
  <2>3. 158 <= t
    <3> SUFFICES ASSUME t <= 157 PROVE FALSE
      BY <2>2
    <3>1. t + 1 <= 158 /\ t + 1 \in Nat /\ 158 - (t + 1) \in Nat
      BY <2>2
    <3>2. (t + 1) * (t + 1) <= 158 * (t + 1)
      <4>1. (158 - (t + 1)) * (t + 1) \in Nat
        BY <3>1
      <4> QED
        BY <2>2, <4>1
    <3>3. 158 * (t + 1) <= 24964
      BY <2>2, <3>1
    <3> QED
      BY <2>2, <3>2, <3>3
  <2> QED
    BY <2>2, <2>3 DEF t
<1>4. s \in Nat \ {0} /\ 1580 <= s
  <2> HIDE DEF y
  <2> QED
    BY <1>3
<1>5. q \in Nat
  <2> HIDE DEF s
  <2> QED
    BY <1>4, Quotient
<1> DEFINE k == s + 120 + q
<1>6. k \in Nat /\ 1700 <= k
  <2> HIDE DEF s, q
  <2> QED
    BY <1>4, <1>5
<1>7. Significant(na, nb, d) <=> k * d > 1358 * na * nb
  BY DEF Significant
<1> HIDE DEF y, s, q, k
<1>8. 1700 * d <= k * d
  <2>1. k - 1700 \in Nat
    BY <1>6
  <2>2. (k - 1700) * d \in Nat /\ (k - 1700) * d = k * d - 1700 * d
    BY <1>6, <2>1
  <2> QED
    BY <1>6, <2>2
<1>9. 1358 * na * nb < 1700 * d
  <2> DEFINE p == na * nb
  <2>1. p \in Nat /\ 5 * nb <= p
    BY <1>1
  <2>2. (na - 1) * nb = p - nb /\ 1358 * na * nb = 1358 * p
    OBVIOUS
  <2> HIDE DEF p
  <2>3. p - nb <= d
    BY <2>2
  <2>4. 1358 * p < 1700 * (p - nb)
    BY <2>1
  <2> QED
    BY <2>1, <2>2, <2>3, <2>4
<1>10. k * d \in Int /\ 1358 * na * nb \in Int
  BY <1>6
<1>11. k * d > 1358 * na * nb
  BY <1>8, <1>9, <1>10
<1>12. d # 0
  BY <1>9, <1>1
<1> QED
  BY <1>7, <1>11, <1>12

-----------------------------------------------------------------------------
(* The detector's result stays that of the rows it saw                     *)

RowTypes == IsFiniteSet(DOMAIN runs) /\ \A r \in DOMAIN runs : runs[r].score \in Scores

Result == KsDrift(SortedScores(Recent), SortedScores(Baseline))

DetectorInv == RowTypes /\ (JustDetected => ks = Result)

\* The result as an operator of the rows.
WindowOf(rn, from, to) == {r \in DOMAIN rn : from <= rn[r].started_at /\ rn[r].started_at <= to}
SortedOf(rn, rs) ==
    [i \in 1..Cardinality(rs) |->
        CHOOSE x \in {rn[r].score : r \in rs} :
            /\ Cardinality({r \in rs : rn[r].score < x}) < i
            /\ i <= Cardinality({r \in rs : rn[r].score <= x})]
ResultOf(rn) ==
    KsDrift(SortedOf(rn, WindowOf(rn, Today - 7, Today)), SortedOf(rn, WindowOf(rn, Today - 37, Today - 7)))

LEMMA ResultInThoseTerms == Result = ResultOf(runs)
  BY DEF Result, ResultOf, SortedScores, SortedOf, Recent, Baseline, Window, WindowOf, Below, NotAbove

LEMMA ResultNextInThoseTerms == Result' = ResultOf(runs')
  BY DEF Result, ResultOf, SortedScores, SortedOf, Recent, Baseline, Window, WindowOf, Below, NotAbove

LEMMA DetectorStart == Init => DetectorInv
<1> SUFFICES ASSUME Init PROVE DetectorInv
  OBVIOUS
<1>1. PICK h \in Histories : runs = h.rows
  BY DEF Init
<1>2. RowTypes
  BY <1>1, MonitoringAssumption DEF RowTypes
<1>3. ~JustDetected
  BY DEF Init, JustDetected
<1> QED
  BY <1>2, <1>3 DEF DetectorInv

\* Only a put changes the rows, and then the history is no longer what it was.
LEMMA DetectorStep == DetectorInv /\ [Next]_vars => DetectorInv'
<1> SUFFICES ASSUME DetectorInv, [Next]_vars PROVE DetectorInv'
  OBVIOUS
<1>1. CASE PutRun
  <2>1. PICK r \in Published, s \in Scores :
          runs' = With(runs, r, [started_at |-> Today, score |-> s])
    BY <1>1 DEF PutRun
  <2>2. DOMAIN runs' = DOMAIN runs \cup {r}
    BY <2>1 DEF With
  <2>3. \A q \in DOMAIN runs' : runs'[q].score \in Scores
    BY <2>1, <2>2 DEF DetectorInv, RowTypes, With
  <2>4. IsFiniteSet(DOMAIN runs')
    BY <2>2, FS_AddElement DEF DetectorInv, RowTypes
  <2>5. ~JustDetected'
    BY <2>2 DEF JustDetected
  <2> QED
    BY <2>3, <2>4, <2>5 DEF DetectorInv, RowTypes
<1>2. CASE runs' = runs /\ ks' = ks
  <2>1. Result' = Result
    BY <1>2, ResultInThoseTerms, ResultNextInThoseTerms
  <2> QED
    BY <1>2, <2>1 DEF DetectorInv, RowTypes, JustDetected
<1>3. CASE Detect
  <2>1. runs' = runs /\ ks' = Result
    BY <1>3 DEF Detect, Result
  <2>2. Result' = Result
    BY <2>1, ResultInThoseTerms, ResultNextInThoseTerms
  <2> QED
    BY <2>1, <2>2 DEF DetectorInv, RowTypes
<1>4. CASE Handle
  BY <1>2, <1>4 DEF Handle, Deliver, SkipRecord, JudgeAgain, PutSignal, EndBatch, FailBatch
<1> QED
  BY <1>1, <1>2, <1>3, <1>4 DEF Next, vars

\* The result says what the walk over the two windows found.
LEMMA DetectorFound ==
    ASSUME DetectorInv, JustDetected, Enough
    PROVE  LET na == Cardinality(Recent)
               nb == Cardinality(Baseline)
               w == Walk(SortedScores(Recent), SortedScores(Baseline))
           IN  /\ Scored(Recent) /\ Scored(Baseline)
               /\ na \in Nat \ {0} /\ nb \in Nat
               /\ ks.statistic = w
               /\ ks.drift <=> w # 0 /\ Significant(na, nb, w)
               /\ Recent \cup Baseline \subseteq DOMAIN runs
<1>1. Recent \cup Baseline \subseteq DOMAIN runs
  BY DEF Recent, Baseline, Window
<1>2. \A r \in DOMAIN runs : runs[r].score \in 0..100
  BY MonitoringAssumption DEF DetectorInv, RowTypes
<1>3. Scored(Recent) /\ Scored(Baseline)
  BY <1>1, <1>2, FS_Subset DEF DetectorInv, RowTypes, Scored
<1>4. /\ Cardinality(Recent) \in Nat \ {0} /\ Cardinality(Baseline) \in Nat
      /\ ~(Cardinality(Recent) < MinSamples) /\ ~(Cardinality(Baseline) < MinSamples)
  BY <1>3, FS_CardinalityType, MonitoringAssumption DEF Scored, Enough
<1>5. /\ Len(SortedScores(Recent)) = Cardinality(Recent)
      /\ Len(SortedScores(Baseline)) = Cardinality(Baseline)
  BY <1>3, SortedScoresIs
<1>6. ks = Result
  BY DEF DetectorInv
<1>7. ks = [statistic |-> Walk(SortedScores(Recent), SortedScores(Baseline)),
            drift |-> /\ Walk(SortedScores(Recent), SortedScores(Baseline)) # 0
                      /\ Significant(Cardinality(Recent), Cardinality(Baseline),
                                     Walk(SortedScores(Recent), SortedScores(Baseline)))]
  BY <1>4, <1>5, <1>6 DEF Result, KsDrift
<1> QED
  BY <1>1, <1>3, <1>4, <1>7

\* The walk over the two sorted samples gives the two-sample statistic.
LEMMA FoundIsStatistic == DetectorInv => WalkIsStatistic
<1> SUFFICES ASSUME DetectorInv, JustDetected, Enough
             PROVE  /\ \A x \in Scores : Distance(x) <= ks.statistic
                    /\ \E x \in Scores : Distance(x) = ks.statistic
  BY DEF WalkIsStatistic
<1>1. /\ \A x \in Nat : Spread(Recent, Baseline, x) <= ks.statistic
      /\ \E x \in {runs[r].score : r \in Recent \cup Baseline} :
            Spread(Recent, Baseline, x) = ks.statistic
  BY DetectorFound, WalkOfScores
<1>2. \A x : Distance(x) = Spread(Recent, Baseline, x)
  BY DEF Distance, Spread
<1>3. {runs[r].score : r \in Recent \cup Baseline} \subseteq Scores /\ Scores \subseteq Nat
  BY DetectorFound, MonitoringAssumption DEF DetectorInv, RowTypes
<1> QED
  BY <1>1, <1>2, <1>3

\* At the greatest score of the week the shares differ by all but one run.
LEMMA FoundShowsCollapse ==
    ASSUME 5 <= MinSamples
    PROVE  DetectorInv => CollapseIsDetected
<1> SUFFICES ASSUME DetectorInv, JustDetected, Enough, Cardinality(Recent \cap Baseline) <= 1,
                    \A r \in Recent \ Baseline, b \in Baseline : runs[r].score < runs[b].score
             PROVE  ks.drift
  BY DEF CollapseIsDetected
<1> DEFINE A == Recent
           B == Baseline
           na == Cardinality(A)
           nb == Cardinality(B)
           w == Walk(SortedScores(A), SortedScores(B))
           S == {runs[r].score : r \in A \ B}
<1>1. /\ Scored(A) /\ Scored(B) /\ na \in Nat \ {0} /\ nb \in Nat
      /\ (ks.drift <=> w # 0 /\ Significant(na, nb, w))
  BY DetectorFound
<1>2. w \in Nat /\ \A x \in Nat : Spread(A, B, x) <= w
  BY <1>1, WalkOfScores
<1>3. 5 <= na /\ 5 <= nb
  BY <1>1, MonitoringAssumption DEF Enough
<1>4. Cardinality(A \ B) \in Nat /\ na - 1 <= Cardinality(A \ B) /\ IsFiniteSet(A \ B)
  <2>1. IsFiniteSet(A) /\ A \cap B \subseteq A /\ IsFiniteSet(A \cap B) /\ IsFiniteSet(A \ B)
    BY <1>1, FS_Subset, FS_Difference DEF Scored
  <2>2. Cardinality(A \ B) = na - Cardinality(A \cap B)
    BY <2>1, <1>1, FS_Difference DEF Scored
  <2>3. Cardinality(A \cap B) \in Nat /\ Cardinality(A \cap B) <= 1
    BY <2>1, FS_CardinalityType
  <2>4. Cardinality(A \ B) \in Nat
    BY <2>1, FS_CardinalityType
  <2> HIDE DEF na
  <2> QED
    BY <1>1, <2>1, <2>2, <2>3, <2>4
<1>5. A \ B # {}
  BY <1>1, <1>3, <1>4, FS_EmptySet
<1>6. S \in SUBSET (0..100) /\ S # {}
  BY <1>1, <1>5 DEF Scored
<1>7. PICK x \in S : \A y \in S : y <= x
  <2> HIDE DEF S
  <2> QED
    BY <1>6, GreatestIs
<1>8. x \in Nat
  BY <1>6
<1>9. NotAbove(B, x) = 0
  <2>1. \A b \in B : runs[b].score \in Int
    BY <1>1 DEF Scored
  <2>2. \A b \in B : x < runs[b].score
    BY <1>7
  <2>3. {b \in B : runs[b].score <= x} = {}
    BY <1>8, <2>1, <2>2
  <2> QED
    BY <2>3, FS_EmptySet DEF NotAbove
<1>10. NotAbove(A, x) \in Nat /\ na - 1 <= NotAbove(A, x)
  <2> DEFINE N == {r \in A : runs[r].score <= x}
  <2>1. A \ B \subseteq N
    BY <1>7
  <2>2. IsFiniteSet(N) /\ Cardinality(N) \in Nat
    BY <1>1, FS_Subset, FS_CardinalityType DEF Scored
  <2>3. Cardinality(A \ B) <= Cardinality(N)
    BY <2>1, <2>2, FS_Subset
  <2>4. NotAbove(A, x) = Cardinality(N)
    BY DEF NotAbove
  <2> HIDE DEF N, na
  <2> QED
    BY <1>1, <1>4, <2>2, <2>3, <2>4
<1> HIDE DEF A, B, na, nb, w, S
<1>11. Spread(A, B, x) = Abs(NotAbove(A, x) * nb - 0 * na)
  BY <1>9 DEF Spread, na, nb
<1>12. (na - 1) * nb <= w
  <2> DEFINE k == NotAbove(A, x)
  <2>1. k \in Nat /\ na - 1 <= k
    BY <1>10
  <2> HIDE DEF k
  <2>2. k - (na - 1) \in Nat
    BY <1>1, <2>1
  <2>3. (k - (na - 1)) * nb \in Nat /\ (k - (na - 1)) * nb = k * nb - (na - 1) * nb
    BY <1>1, <2>1, <2>2
  <2>4. Abs(k * nb - 0 * na) = k * nb /\ k * nb \in Nat
    BY <1>1, <2>1 DEF Abs
  <2>5. k * nb <= w
    BY <1>2, <1>8, <1>11, <2>4 DEF k
  <2> QED
    BY <1>1, <1>2, <2>3, <2>4, <2>5
<1>13. w # 0 /\ Significant(na, nb, w)
  BY <1>1, <1>2, <1>3, <1>12, ApartIsSignificant
<1> QED
  BY <1>1, <1>13

\* _ks_2samp, whatever the scores, ties between the samples and runs on the
\* window's edges included: its walk over the merged scores ends with the
\* greatest distance there is between the two shares of scores up to a value.
THEOREM WalkComputesStatistic == Spec => []WalkIsStatistic
<1>1. Init => DetectorInv
  BY DetectorStart
<1>2. DetectorInv /\ [Next]_vars => DetectorInv'
  BY DetectorStep
<1>3. DetectorInv => WalkIsStatistic
  BY FoundIsStatistic
<1> QED
  BY <1>1, <1>2, <1>3, PTL DEF Spec

\* ks_test: with five runs or more required in each window, as it does, a week
\* whose scores all lie below those of the month before is reported as drift.
THEOREM CollapseDetected ==
    ASSUME 5 <= MinSamples
    PROVE  Spec => []CollapseIsDetected
<1>1. Init => DetectorInv
  BY DetectorStart
<1>2. DetectorInv /\ [Next]_vars => DetectorInv'
  BY DetectorStep
<1>3. DetectorInv => CollapseIsDetected
  BY FoundShowsCollapse
<1> QED
  BY <1>1, <1>2, <1>3, PTL DEF Spec
=============================================================================
