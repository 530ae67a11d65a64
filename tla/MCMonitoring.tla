---------------------------- MODULE MCMonitoring ----------------------------
(* Two runs published after a history of recent and older runs.            *)
EXTENDS Monitoring

TwoRuns == {<<"run", 1>>, <<"run", 2>>}

\* Days 33 to 40 are the last week: day 33, the cut-off, is in both windows.
OldDay == <<2, 3, 10, 20, 30, 32>>
NewDay == <<34, 36, 38, 39, 40, 33>>
Rising(n) == {s \in [1..n -> Scores] : \A i \in 1..n - 1 : s[i] <= s[i + 1]}
Rows(s, t) == [x \in {<<"old", i>> : i \in DOMAIN s} \cup {<<"new", i>> : i \in DOMAIN t} |->
    IF x[1] = "old" THEN [started_at |-> OldDay[x[2]], score |-> s[x[2]]]
                    ELSE [started_at |-> NewDay[x[2]], score |-> t[x[2]]]]

\* Nothing yet and runs to come, or a history and no more runs.
SmallHistories ==
    {[rows |-> <<>>, puts |-> 0]} \cup
    UNION {{[rows |-> Rows(s, t), puts |-> MaxPuts] : s \in Rising(n), t \in Rising(m)} :
              n \in {4, 6}, m \in {3, 5, 6}}

-----------------------------------------------------------------------------
\* "shadow evals on every prod run": a record the Lambda is done with was
\* judged again.
EveryRunIsJudgedAgain == \A i \in 1..at : Len(history[stream[i].run]) > 1
=============================================================================
