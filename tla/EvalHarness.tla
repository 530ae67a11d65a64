----------------------------- MODULE EvalHarness -----------------------------
(***************************************************************************)
(* The evaluation in CI: a job runs a suite of cases, records a row per    *)
(* case and prints the totals; the job of a pull request then posts them   *)
(* beside a baseline of the main branch, any other job checks them against *)
(* the thresholds.  Metrics are in thousandths.                            *)
(***************************************************************************)
EXTENDS Integers, Sequences, FiniteSets, FiniteSetsExt, Functions

CONSTANTS
    Job,         \* CI jobs: each runs the harness once
    PullRequest, \* the jobs of pull requests
    BranchOf,    \* GITHUB_REF_NAME of a job
    Rule, Principal,
    Suite,       \* job -> sequence of case ids
    Expected,    \* case id -> expected findings, pairs <<rule, principal>>
    None

ASSUME EvalHarnessAssumption ==
    /\ PullRequest \subseteq Job
    /\ \A j \in Job : j \notin PullRequest \/ BranchOf[j] # "main"
    /\ \A j \in Job : Suite[j] \in Seq(DOMAIN Expected)
    /\ IsFiniteSet(Rule) /\ Rule # {} /\ IsFiniteSet(Principal)
    /\ \A c \in DOMAIN Expected : Expected[c] \subseteq Rule \X Principal
    /\ None \notin {0, 1}

VARIABLES
    pc,          \* where a job is
    real,        \* AGENT_NARRATOR_FUNCTION_NAME is set for the job, not STUB_BEDROCK
    results,     \* job -> metrics of the cases it has run
    written,     \* job -> how many rows it has put
    table,       \* eval_results as the branch index gives it: oldest first
    totals,      \* job -> eval_run.json's totals, None before
    baseline,    \* job -> the row its comment compares with, None without
    exit         \* job -> exit code of eval_check

vars == <<pc, real, results, written, table, totals, baseline, exit>>

-----------------------------------------------------------------------------
(* per_rule_precision_recall: matched by rule and principal; 1 where there *)
(* is nothing to be wrong about.                                           *)
OfRule(fs, r) == {f \in fs : f[1] = r}
\* Mutant: nothing found is a score of nothing.
RatioFromZero(n, d) == IF d = 0 THEN 0 ELSE (1000 * n) \div d

Ratio(n, d) == IF d = 0 THEN 1000 ELSE (1000 * n) \div d

Precision(actual, expected, r) ==
    Ratio(Cardinality(OfRule(actual, r) \cap OfRule(expected, r)), Cardinality(OfRule(actual, r)))
Recall(actual, expected, r) ==
    Ratio(Cardinality(OfRule(actual, r) \cap OfRule(expected, r)), Cardinality(OfRule(expected, r)))

Metrics(actual, expected) ==
    [faithfulness |-> 950, answer_relevance |-> 900, context_precision |-> 850, bertscore_f1 |-> 800,
     precision |-> [r \in Rule |-> Precision(actual, expected, r)],
     recall |-> [r \in Rule |-> Recall(actual, expected, r)]]

Average(f) == MapThenSumSet(LAMBDA i : f[i], DOMAIN f) \div Cardinality(DOMAIN f)
OverAll(f) == [p \in (DOMAIN f) \X Rule |-> f[p[1]][p[2]]]
Scalar == {"faithfulness", "answer_relevance", "context_precision", "bertscore_f1"}

Total == Scalar \cup {"precision_avg", "recall_avg"}

\* Mutant: both averages are of the precision.
AggregateOfPrecision(rs) ==
    [m \in Total |->
        IF m \in {"precision_avg", "recall_avg"}
        THEN Average(OverAll([i \in DOMAIN rs |-> rs[i].precision]))
        ELSE Average([i \in DOMAIN rs |-> rs[i][m]])]

\* _aggregate: of each metric the average over the cases, of precision and
\* recall also over the rules.  No cases, no totals.  The averages of single
\* rules, which no threshold is for, are left out.
Aggregate(rs) ==
    IF rs = <<>> THEN <<>>
    ELSE [m \in Total |->
            IF m = "precision_avg" THEN Average(OverAll([i \in DOMAIN rs |-> rs[i].precision]))
            ELSE IF m = "recall_avg" THEN Average(OverAll([i \in DOMAIN rs |-> rs[i].recall]))
            ELSE Average([i \in DOMAIN rs |-> rs[i][m]])]

FailBelow == [faithfulness |-> 850, answer_relevance |-> 800, context_precision |-> 800,
              bertscore_f1 |-> 700, precision_avg |-> 900, recall_avg |-> 900]

\* check: 1 if a total is below its threshold.
Check(ts) == IF \E m \in DOMAIN ts \cap DOMAIN FailBelow : ts[m] < FailBelow[m] THEN 1 ELSE 0
-----------------------------------------------------------------------------
Init ==
    /\ pc = [j \in Job |-> "cases"]
    /\ real \in [Job -> BOOLEAN]
    /\ results = [j \in Job |-> <<>>] /\ written = [j \in Job |-> 0]
    /\ table = <<>>
    /\ totals = [j \in Job |-> None]
    /\ baseline = [j \in Job |-> None]
    /\ exit = [j \in Job |-> None]

To(j, where) == pc' = [pc EXCEPT ![j] = where]
Done(j) == Len(results[j])

\* A case in stub mode finds what is expected; real mode is not implemented
\* and raises, and so may git or a case file that does not load.
RunCase(j) ==
    /\ pc[j] = "cases" /\ Done(j) < Len(Suite[j])
    /\ LET e == Expected[Suite[j][Done(j) + 1]] IN
          \/ /\ ~real[j]
             /\ results' = [results EXCEPT ![j] = Append(@, Metrics(e, e))]
             /\ UNCHANGED pc
          \/ To(j, "raised") /\ UNCHANGED results
    /\ UNCHANGED <<real, written, table, totals, baseline, exit>>

Row(j) == [job |-> j, case |-> Suite[j][written[j] + 1], branch |-> BranchOf[j]]

\* Mutant: the branch is always the default.
PutRowOfMain(j) == table' = Append(table, [Row(j) EXCEPT !.branch = "main"])

PutRow(j) == table' = Append(table, Row(j))

\* Mutant: a case is recorded as soon as it was run.
WriteRowAtOnce(j) ==
    /\ pc[j] = "cases" /\ written[j] < Done(j)
    /\ written' = [written EXCEPT ![j] = @ + 1]
    /\ PutRow(j)
    /\ UNCHANGED <<pc, real, results, totals, baseline, exit>>

\* The rows are put when all cases were run.
WriteRow(j) ==
    /\ pc[j] = "cases" /\ Done(j) = Len(Suite[j]) /\ written[j] < Done(j)
    /\ \/ /\ written' = [written EXCEPT ![j] = @ + 1]
          /\ PutRow(j)
          /\ UNCHANGED pc
       \/ To(j, "raised") /\ UNCHANGED <<written, table>>
    /\ UNCHANGED <<real, results, totals, baseline, exit>>

WriteJson(j) ==
    /\ pc[j] = "cases" /\ written[j] = Len(Suite[j])
    /\ totals' = [totals EXCEPT ![j] = Aggregate(results[j])]
    /\ To(j, IF j \in PullRequest THEN "comment" ELSE "check")
    /\ UNCHANGED <<real, results, written, table, baseline, exit>>

CheckTotals(j) ==
    /\ pc[j] = "check"
    /\ exit' = [exit EXCEPT ![j] = Check(totals[j])]
    /\ To(j, "done")
    /\ UNCHANGED <<real, results, written, table, totals, baseline>>

RowsOf(branch) == {i \in DOMAIN table : table[i].branch = branch}

\* load_baseline_for_branch: the newest row of main, a row of one case; none
\* when the query fails.
PostComment(j) ==
    /\ pc[j] = "comment"
    /\ \/ baseline' = [baseline EXCEPT ![j] = None]
       \/ \E i \in RowsOf("main") :
             /\ \A k \in RowsOf("main") : k <= i
             /\ baseline' = [baseline EXCEPT ![j] = table[i]]
    /\ To(j, "done")
    /\ UNCHANGED <<real, results, written, table, totals, exit>>

JobStep(j) == RunCase(j) \/ WriteRow(j) \/ WriteJson(j) \/ CheckTotals(j) \/ PostComment(j)
Next == \E j \in Job : JobStep(j)
Spec == Init /\ [][Next]_vars

-----------------------------------------------------------------------------
RowsOfJob(j) == {i \in DOMAIN table : table[i].job = j}

\* No partial results: the rows of a job are of a suite that was run to its
\* end, and a job that has told its result has put each of its cases once.
NoPartialResults ==
    \A j \in Job :
        /\ RowsOfJob(j) # {} => Len(results[j]) = Len(Suite[j])
        /\ totals[j] # None =>
              /\ Cardinality(RowsOfJob(j)) = Len(Suite[j])
              /\ {table[i].case : i \in RowsOfJob(j)} = Range(Suite[j])

\* A pull request is compared with the main branch as somebody else left it,
\* never with rows of its own or of another pull request, nor with a job that did
\* not get through its suite.
BaselineIsMains ==
    \A j \in PullRequest : baseline[j] # None =>
        LET source == baseline[j].job IN
            /\ source \notin PullRequest /\ BranchOf[source] = "main"
            /\ Len(results[source]) = Len(Suite[source])

\* What a case is credited with it can have for no other findings: precision
\* and recall of all rules together tell the expected set from every other.
Wanted(j, i) == Expected[Suite[j][i]]
PerfectMeansSameFindings ==
    \A j \in Job : pc[j] = "done" => \A i \in DOMAIN results[j] :
        {a \in SUBSET (Rule \X Principal) : \A r \in Rule :
            /\ Precision(a, Wanted(j, i), r) = results[j][i].precision[r]
            /\ Recall(a, Wanted(j, i), r) = results[j][i].recall[r]} = {Wanted(j, i)}

\* What passes the gate has lost little: the gate of a job would not have passed
\* had it missed every finding of some cases, if those make up more than a tenth
\* of all pairs of a case and a rule, however it rounds and whatever the pairs
\* without findings add to its averages.
Losing(j, lost) == [i \in DOMAIN results[j] |->
                      IF i \in lost THEN Metrics({}, Wanted(j, i)) ELSE results[j][i]]
LostPairs(j, lost) == {p \in lost \X Rule : OfRule(Wanted(j, p[1]), p[2]) # {}}
GateBoundsTheLoss ==
    \A j \in Job : exit[j] = 0 => \A lost \in SUBSET (DOMAIN results[j]) :
        Check(Aggregate(Losing(j, lost))) = 0 =>
            10 * Cardinality(LostPairs(j, lost)) <= Len(Suite[j]) * Cardinality(Rule)
=============================================================================
