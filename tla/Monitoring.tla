----------------------------- MODULE Monitoring -----------------------------
(***************************************************************************)
(* What watches the runs table: the shadow evaluation, which the table's   *)
(* stream feeds and which has the judge score each new run again, and the  *)
(* drift detector, which compares the scores of the last week with those   *)
(* of the thirty days before.  Both put rows into drift_signals.  Scores   *)
(* are percentages, times are days.                                        *)
(***************************************************************************)
EXTENDS Integers, Sequences, FiniteSets, TLC, FiniteSetsExt

CONSTANTS
    Published,    \* the runs published while we watch
    Scores,
    Stored,       \* the sets of URIs a run row may carry
    Histories,    \* how it may begin: [rows, puts], the rows of the runs table,
                  \* run -> [started_at, score], and how many puts are done
    Today,
    Threshold,    \* SHADOW_DRIFT_THRESHOLD: 10
    MinSamples,   \* 5
    BatchSize,    \* 10
    MaxAttempts,  \* a batch is delivered once and retried three times
    MaxPuts,      \* bound on the puts of runs
    None

ASSUME MonitoringAssumption ==
    /\ Scores \subseteq 0..100 /\ None \notin Scores
    /\ Threshold \in Nat /\ MinSamples \in Nat \ {0}
    /\ BatchSize \in Nat \ {0} /\ MaxAttempts \in Nat \ {0} /\ MaxPuts \in Nat
    /\ \A h \in Histories :
          IsFiniteSet(DOMAIN h.rows) /\ \A r \in DOMAIN h.rows : h.rows[r].score \in Scores

VARIABLES
    runs,         \* run -> [started_at, score]
    puts,         \* how many runs were put
    stream,       \* the new rows whose records are still in the stream
    size, at,     \* the batch at hand: its records, and how many are done
    attempts,     \* failed deliveries of it
    answer,       \* the judge's drifting answer of which a signal is to be put
    dropped,      \* the runs of dropped batches that no delivery came past
    shadow,       \* the shadow_drift signals, as [run, old, new]
    history,      \* run -> its score as first put, then the judge's answers
    ks            \* the detector's result, None until it has run

batch == <<size, at, attempts>>
vars == <<runs, puts, stream, batch, answer, dropped, shadow, history, ks>>

With(f, k, v) == [x \in DOMAIN f \cup {k} |-> IF x = k THEN v ELSE f[x]]

Init ==
    /\ \E h \in Histories : runs = h.rows /\ puts = h.puts
    /\ stream = <<>> /\ size = 0 /\ at = 0 /\ attempts = 0
    /\ answer = None /\ dropped = {}
    /\ shadow = <<>> /\ history = [r \in Published |-> <<>>]
    /\ ks = None

-----------------------------------------------------------------------------
\* Publish puts a run; the same run id again only changes the row, and the
\* event source passes on records of INSERT only.
PutRun ==
    /\ puts < MaxPuts /\ puts' = puts + 1
    /\ \E r \in Published, s \in Scores, u \in Stored :
          /\ runs' = With(runs, r, [started_at |-> Today, score |-> s])
          /\ stream' = IF r \in DOMAIN runs THEN stream ELSE Append(stream, [run |-> r, old |-> s, uris |-> u])
          /\ history' = IF r \in DOMAIN runs THEN history ELSE [history EXCEPT ![r] = <<s>>]
    /\ UNCHANGED <<batch, answer, dropped, shadow, ks>>

\* The oldest records, as many as a batch holds or fewer.
Deliver ==
    /\ size = 0 /\ stream # <<>>
    /\ size' \in 1..(IF Len(stream) < BatchSize THEN Len(stream) ELSE BatchSize)
    /\ UNCHANGED <<runs, puts, stream, at, attempts, answer, dropped, shadow, history, ks>>

InBatch == at < size
Current == stream[at + 1]
Abs(x) == IF x < 0 THEN -x ELSE x

\* Mutant: only a fall of the score counts.
HasFallen(old, new) == new - old < -Threshold

HasDrifted(old, new) == Abs(new - old) > Threshold

\* A row without both URIs is skipped.
SkipRecord ==
    /\ InBatch /\ Current.uris # {"narrative", "findings"}
    /\ at' = at + 1
    /\ UNCHANGED <<runs, puts, stream, size, attempts, answer, dropped, shadow, history, ks>>

\* An answer without a score counts as 0; no answer writes nothing.
JudgeAgain ==
    /\ InBatch /\ answer = None /\ Current.uris = {"narrative", "findings"}
    /\ \E new \in Scores \cup {0, None} :
          /\ history' = [history EXCEPT ![Current.run] = Append(@, new)]
          /\ IF new # None /\ HasDrifted(Current.old, new)
             THEN answer' = new /\ UNCHANGED at
             ELSE at' = at + 1 /\ UNCHANGED answer
    /\ UNCHANGED <<runs, puts, stream, size, attempts, dropped, shadow, ks>>

PutSignal ==
    /\ answer # None /\ answer' = None
    /\ shadow' = Append(shadow, [run |-> Current.run, old |-> Current.old, new |-> answer])
    /\ at' = at + 1
    /\ UNCHANGED <<runs, puts, stream, size, attempts, dropped, history, ks>>

\* The records of the batch leave the stream.
LeaveBatch ==
    stream' = SubSeq(stream, size + 1, Len(stream)) /\ size' = 0 /\ at' = 0 /\ attempts' = 0

EndBatch ==
    /\ size > 0 /\ at = size
    /\ LeaveBatch
    /\ UNCHANGED <<runs, puts, answer, dropped, shadow, history, ks>>

\* Putting a signal raises, or the Lambda runs out of time: the whole batch is
\* delivered again, and after MaxAttempts deliveries it is dropped.
FailBatch ==
    /\ size > 0
    /\ answer' = None
    /\ IF attempts + 1 < MaxAttempts
       THEN at' = 0 /\ attempts' = attempts + 1 /\ UNCHANGED <<stream, size, dropped>>
       ELSE LeaveBatch /\ dropped' = dropped \cup {stream[i].run : i \in at + 1..size}
    /\ UNCHANGED <<runs, puts, shadow, history, ks>>

-----------------------------------------------------------------------------
(* The Kolmogorov-Smirnov test, on two sorted samples.                     *)

UpTo(s, x) == Cardinality({i \in DOMAIN s : s[i] <= x})

\* Where the walk stands: how many values of each sample it is past.
Places(a, b) == (0..Len(a)) \X (0..Len(b))

\* The smallest value left.
Smallest(a, b, p) ==
    IF p[2] = Len(b) \/ (p[1] < Len(a) /\ a[p[1] + 1] <= b[p[2] + 1])
    THEN a[p[1] + 1] ELSE b[p[2] + 1]

Difference(a, b, p) == Abs(p[1] * Len(b) - p[2] * Len(a))

\* Mutant: at equal values one sample is advanced, not both.
WalkOneByOne(a, b) ==
    LET W[p \in Places(a, b)] ==
          IF p = <<Len(a), Len(b)>> THEN 0
          ELSE LET x == Smallest(a, b, p)
                   q == IF p[1] < Len(a) /\ a[p[1] + 1] = x THEN <<p[1] + 1, p[2]>> ELSE <<p[1], p[2] + 1>>
               IN Max({Difference(a, b, q), W[q]})
    IN W[<<0, 0>>]

\* The walk of _ks_2samp over the merged support, both samples advanced past
\* the smallest value left: the statistic times the product of the sizes.
Walk(a, b) ==
    LET W[p \in Places(a, b)] ==
          IF p = <<Len(a), Len(b)>> THEN 0
          ELSE LET x == Smallest(a, b, p)
                   q == <<UpTo(a, x), UpTo(b, x)>>
               IN Max({Difference(a, b, q), W[q]})
    IN W[<<0, 0>>]

Root(x) == CHOOSE s \in 0..x : s * s <= x /\ x < (s + 1) * (s + 1)

\* Mutant: the level is 0.001.
SignificantAtOnePerMille(na, nb, d) ==
    LET s == 10 * Root((na * nb * 10000) \div (na + nb))
    IN (s + 120 + 110000 \div s) * d > 1949 * na * nb

\* pvalue < 0.05 is lambda > 1.358, lambda in thousandths, its root in hundredths.
Significant(na, nb, d) ==
    LET s == 10 * Root((na * nb * 10000) \div (na + nb))
    IN (s + 120 + 110000 \div s) * d > 1358 * na * nb

KsDrift(a, b) ==
    IF Len(a) < MinSamples \/ Len(b) < MinSamples
    THEN [statistic |-> 0, drift |-> FALSE]
    ELSE LET d == Walk(a, b) IN
         [statistic |-> d, drift |-> d # 0 /\ Significant(Len(a), Len(b), d)]

\* _query_faithfulness: the window has both its ends.
Window(from, to) == {r \in DOMAIN runs : from <= runs[r].started_at /\ runs[r].started_at <= to}
Recent == Window(Today - 7, Today)
Baseline == Window(Today - 37, Today - 7)

\* Their scores, sorted: at place i the score that fewer than i runs are below
\* and at least i are not above.
Below(rs, x) == Cardinality({r \in rs : runs[r].score < x})
NotAbove(rs, x) == Cardinality({r \in rs : runs[r].score <= x})
SortedScores(rs) ==
    [i \in 1..Cardinality(rs) |->
        CHOOSE x \in {runs[r].score : r \in rs} : Below(rs, x) < i /\ i <= NotAbove(rs, x)]

Detect ==
    /\ ks = None
    /\ ks' = KsDrift(SortedScores(Recent), SortedScores(Baseline))
    /\ UNCHANGED <<runs, puts, stream, batch, answer, dropped, shadow, history>>

Handle == Deliver \/ SkipRecord \/ JudgeAgain \/ PutSignal \/ EndBatch \/ FailBatch
Next == PutRun \/ Handle \/ Detect

Spec == Init /\ [][Next]_vars
-----------------------------------------------------------------------------
Enough == Cardinality(Recent) >= MinSamples /\ Cardinality(Baseline) >= MinSamples

\* The detector has run on a history, which is still as it was.
JustDetected == ks # None /\ \A r \in Published : r \notin DOMAIN runs

\* The walk gives the two-sample statistic: the greatest distance between the
\* shares of scores up to x, over all x, ties and window edges included.
Distance(x) ==
    Abs(NotAbove(Recent, x) * Cardinality(Baseline) - NotAbove(Baseline, x) * Cardinality(Recent))
WalkIsStatistic ==
    JustDetected /\ Enough =>
        /\ \A x \in Scores : Distance(x) <= ks.statistic
        /\ \E x \in Scores : Distance(x) = ks.statistic

\* A week of scores that all lie below those of the month before is a drift,
\* from five runs in each on; one run at the cut-off may count in both.
CollapseIsDetected ==
    /\ JustDetected /\ Enough
    /\ Cardinality(Recent \cap Baseline) <= 1
    /\ \A r \in Recent \ Baseline, b \in Baseline : runs[r].score < runs[b].score
    => ks.drift

SignalsOf(r) == {shadow[i].new : i \in {j \in DOMAIN shadow : shadow[j].run = r}}
Answers(r) == {history[r][i] : i \in 2..Len(history[r])}
LastAnswer(r) == history[r][Len(history[r])]
FarAnswers(r) == {a \in Answers(r) \ {None} : Abs(a - history[r][1]) > Threshold}

\* The runs whose records a delivery has still to come past.
Waiting == {stream[i].run : i \in at + 1..Len(stream)}

\* A signal is of an answer of the judge further than the threshold from the
\* first score of its run, up or down.  Where a delivery came past the run's
\* record, the last answer has a signal if it is as far, whatever failed in
\* between; an answer before it, of a delivery that failed, may have none.
DriftIsSignalled ==
    \A r \in Published :
        /\ SignalsOf(r) \subseteq FarAnswers(r)
        /\ /\ r \notin Waiting \cup dropped /\ Answers(r) # {}
           /\ LastAnswer(r) \in FarAnswers(r)
           => LastAnswer(r) \in SignalsOf(r)
=============================================================================
