# A TLA+ model of the UAR assessor agent

The repository holds a user access review: an AWS pipeline that reads who may do
what on a set of SQL servers, applies six rules, lets an LLM agent narrate the
findings, checks the narrative by three deterministic gates, a judge model and
an adversarial probe, and publishes the run for human reviewers, every month
with a PDF. Around it stand a weekly canary, a drift detector, a shadow
evaluation, the stream that turns reviewers' decisions into candidate test
cases, and an evaluation harness in CI. This directory models all of them,
checks them with TLC and proves with TLAPS every invariant and action property
of the passing runs, for every value of the constants that meets the stated
hypotheses.

Paths such as `pipeline.asl.json` are under `src/infra/step_functions/`, handler
paths under `src/src/`.

## 1. The system

| Component | State it keeps | Operations | Talks to |
|---|---|---|---|
| State machine (`pipeline.asl.json`) | per execution: current state, retries, `$.validated`, `$.rules`, `$.judge`, `$.adversarial` | start; invoke a Lambda; repeat it (Retry, 3 times) or fail; MergeGates and the Choice states; MarkQuarantined | invokes every handler of a run |
| Schedules (EventBridge) | none | start a weekly or monthly execution | state machine |
| Extract UAR | S3 `…/uar.csv` and its manifest | read SQL servers, put CSV, put manifest with row hash | SQL servers, S3 |
| Validate and hash | S3 `validated.json` | read CSV and manifest, compare hashes, put rows | S3 |
| Rules engine (R1–R6) | S3 `findings.json` | evaluate the rules, number the findings, put them | S3, the clock (R2) |
| Agent narrator | S3 `narrative.json` | agent run with tools, self-consistency runs, put report | Bedrock, S3, findings table |
| Gates: citation, reconciliation, entity grounding | none | read findings and narrative, verdict | S3 |
| Judge, adversarial probe | none | read both, ask a model, score | S3, Bedrock |
| Publish | runs table, findings table | read both, put row, batch-put findings | S3, DynamoDB |
| PDF attestation | S3 report | read both, put PDF | S3 |
| Reviewer | `decision` in the findings table | decide on a finding | DynamoDB |
| Reviewer disagreement and digest | candidates table | stream batch -> candidates; weekly mail | DynamoDB stream, SES |
| Canary orchestrator | canary results | start synthetic executions, poll, look up, compare | Step Functions, runs table |
| Drift detector | drift signals | KS test of two windows of the runs table | runs table |
| Shadow evaluation | drift signals | judge a published run again | runs-table stream, judge |
| Evaluation harness | eval results | run cases, put rows, check totals, comment with a baseline; counterfactual pairs; poll adversarial executions | Step Functions, DynamoDB |
| Shared models, ISM catalogue | none | validation of documents | — |
| Data generators | fixture files | write golden cases, demo rows, canary baselines | rules engine |
| Legacy extractor, telemetry, infrastructure | — | — | — |

Components interact through S3 objects and DynamoDB rows **keyed by the run
id**, which is the Sydney date and the cadence (`extract_uar/handler.py:54`).
Step Functions passes URIs, hashes and summaries, never the documents: every
handler reads the documents again.

### What is hard here

* **Sharing.** Nothing enforces "one execution, one run id". A schedule
  delivered twice, a manual re-run, the canaries and the adversarial cases of one
  day have the same run id, and their steps interleave on the same objects.
* **Checked is not published.** The gates, the judge, the probe, Publish and the
  PDF each read the two documents for themselves.
* **Partial effects.** A task repeated after a lost answer runs its effects
  twice; Publish puts the row first and then a batch of items, without a
  transaction, and has no Retry; no state has a Catch.
* **Ordering.** The narrator's tool reads a table that only Publish fills; the
  self-consistency check gives up at its first failed run.
* **Collected failures.** The extractor goes on after a failed server or
  database; the connection is tried three times; what was read before the
  failure stays in the list.
* **Guesses.** What is a login and what a database is told by the letters of a
  quoted name; what is dev and what prod by the name of a database *and of its
  server*.
* **Time.** The rules read the clock of the invocation, fixtures are written for
  one date; canary and adversarial polls end at deadlines that race the
  executions; the canary's Lambda has fifteen minutes for three executions of up
  to ten.
* **Feedback.** Stream batches are redelivered and dropped; digest, drift and
  canary read windows of data that other components write at their own pace.

### What makes each component correct

| Component | Correct when | Here |
|---|---|---|
| State machine | every started execution ends; a task is repeated at most `MaxAttempts` times; no narrative is published as succeeded without every check | `EveryRunEnds`, `TypeOK`, `SucceededWasVerified` |
| Extract | a CSV that is put has every login of every configured database once, and reading it back hides nothing from the rules | `CompleteExtract`, `EncodingHidesNothing` |
| Rules | administrators are raised exactly where they are, breaches of duty are raised, synthetic rows raise what they were written for, counterfactual pairs leave the other rules alone and change their own until they are too old | `AdministratorsAreRaised`, `SodBreachOnPlainServers`, `ScenariosMeetTheirClaims`, `CounterfactualsIsolate` |
| Validate and hash | the hash in the record is the hash of the rows the findings come from | `HashCoversFindings` |
| Narrator | an accepted narrative on critical findings was confirmed by every further run unless one failed, a failed run does not quarantine, the check ends | `AcceptedCriticalRunsAgree`, `BlipsDoNotQuarantine`, `NarrationEnds` |
| Gates | together they accept only complete narratives that invent nothing and clear nobody wrongly, and refuse no well-named faithful one | `AcceptedNarrativeIsSound`, `WellNamedContextIsGrounded` |
| Publish | row and findings agree, the row is first, a row never changes | `CompleteWhenPublished`, `RowBeforeFindings`, `RecordIsFinal` |
| PDF | it attests the published run | `ReportAttestsRun` |
| Reviewer | a decision is never lost | `DecisionsSurvive` |
| The pipeline as a whole | it is an audit ledger | `ImplementsAuditRun` |
| Disagreement and digest | every standing decision against the severity is queued, a bounded number of times, the newest entry last; of a table that fits in a page, two digests leave out at most one candidate put between them; the shard is never blocked | `QueueReflectsTable`, `BoundedDuplicates`, `DigestsLeaveNoGap`, `StreamIsWorkedOff` |
| Canary | nothing unhealthy goes unnoticed, an invocation that returns reports every execution it started, a prompt execution never costs another its report, and it ends | `UnhealthyRunsDrift`, `ReturnedCanaryIsComplete`, `PromptRunsAreAllReported`, `OneAtATime`, `ProbesEnd` |
| Drift detector | the walk computes the KS statistic, and a collapse of the scores is a drift | `WalkIsStatistic`, `CollapseIsDetected` |
| Shadow evaluation | every signal is of an answer far from the first score, and no delivery comes past a run whose last answer is that far without putting one | `DriftIsSignalled` |
| Evaluation harness | no partial suites, comparison only with a job of main that ran its whole suite, perfect scores only for the expected findings, a known bound on what the gate lets pass, adversarial verdicts earned | `NoPartialResults`, `BaselineIsMains`, `PerfectMeansSameFindings`, `GateBoundsTheLoss`, `VerdictsAreEarned` |

## 2. Modules

| Module | Contents |
|---|---|
| `Gates` | findings documents and narratives; the three gates; the thresholds of judge and probe (operators only) |
| `Pipeline` | the executions, handlers, S3 objects and tables |
| `AuditRun` | the abstract specification: a ledger of runs |
| `PipelineRefinement` | the refinement mapping from `Pipeline` to `AuditRun` |
| `SelfConsistency` | the narrator's three-run check, between two steps of `Pipeline` |
| `Narration` | `SelfConsistency` and `Gates` composed: from the agent's first answer to the gates' verdict |
| `Rules` | the six rules on rows (operators only) |
| `Extract` | the extractor, its CSV and the rules that read it, over `Rules` |
| `Scenarios` | the repository's synthetic rows and what is expected of them, over `Extract` |
| `Executions` | Step Functions and the runs table as canary and adversarial runner see them |
| `Canary`, `Adversarial` | the two that start and poll executions, over `Executions` |
| `Probes` | both on one Step Functions, their properties |
| `Monitoring` | shadow evaluation and drift detector on the runs table |
| `EvalHarness` | the evaluation jobs in CI |
| `Feedback` | decisions of reviewers, the stream of the findings table, candidates and digests |
| `MC*` | small instances for TLC |
| `PipelineProofs`, `RecordProofs` | theorems about `Pipeline`: types, checks, what was verified; the record of a run and the refinement |
| `NarrationProofs`, `ExtractProofs`, `ProbesProofs`, `MonitoringProofs`, `EvalProofs`, `FeedbackProofs` | theorems about the module of that name (`EvalHarness` for `EvalProofs`, `Scenarios` too for `ExtractProofs`) |

### `Gates`

A findings document is a function from rules to sequences of findings; the
finding id `F-<run>-<rule>-<n>` is the pair `<<rule, n>>`. A narrative is what
the checks look at: the ids it cites, the total it states, the names it puts in
back-ticks, the names it declares free of findings, its ISM controls and its
self-consistency flag. The text patterns of `entity_extraction.py` and
`negation_check.py` become what they decide about a name: `Quotable` (matches
the back-tick pattern), `DbLike` (contains "db"), `Within` (substring).

### `Pipeline`

One value per execution for what Step Functions holds and for the memory of the
running Lambda; one value per run id for each object and table. `RunOf` maps
executions to run ids and need not be injective.

**Every access of a handler to S3 or DynamoDB is a step of its own**, in the
order of the code. `ExtractUar` is `ReadServers`, `PutCsv`, `PutManifest`;
`ValidateAndHash` is `ReadCsv`, `ReadManifest` or `RejectManifest`,
`PutValidated`; `RulesEngine` is `ReadValidated`, `PutFindings`; `AgentNarrator`
is any number of `GetFinding` and then `PutNarrative`; the gates, judge, probe,
Publish and PDF read by `ReadFindings` and `ReadNarrative` (the probe in the
other order) and end by `MergeGates`, `JudgeNarrative`, `ProbeNarrative`,
`PutRun`/`PutSomeItem`/`EndPublish` and `PutReport`. The Choice states are part
of the step before them, as nothing can come between.

*Failures.* `Interrupt` is an error, time-out or throttle before the last
access, wherever the handler then stands. `Finish` is the last access of a task
whose Retry list may repeat it although its effect stands. Retried tasks are
repeated at most `MaxAttempts` times, then the execution is in `FAILED`; the
gates, Publish and GeneratePdf have no Retry list. A hash mismatch is a
`RuntimeError`, which is not in the list either. Batch writes stop anywhere, in
any order.

*Models.* The agent may write any of `Draft`, the judge give any of `Scores`,
the probe report any of `WeakClaims`; `Evaluate[s]` is the set of findings
documents the rules may raise on rows `s`, a set because R2 reads the clock.

### `AuditRun` and `PipelineRefinement`

`AuditRun` knows executions that begin, enter one findings document, one
narrative and a status in a ledger, list the findings, close and may give up. It
enters "succeeded" only with a narrative all gates accept, and an entry is never
changed. The mapping takes a run's entry from its row **and from the S3 objects
as they are now**: a rewrite of the evidence after publication would be a step
`AuditRun` does not have. The phase "recorded" is `Publish` with `step = 1`.

### `SelfConsistency` and `Narration`

`_self_consistency_check` and its call in `agent_narrator/handler.py`. A further
run is an action that answers with a set of cited ids or fails; `flag` is what
the report written to S3 says. In `Pipeline` its outcome is the choice of
`consistent` in `PutNarrative`, which is made only with a CRITICAL finding.
`Narration` joins it to the gates: `Consult` is a step of `SelfConsistency`,
`WriteNarrative` puts the report with the first run's citations and the flag,
`RunGates` is GatesParallel. What the report says beside its citations is any of
`Draft`, so that the model may contradict itself.

### `Rules`, `Extract` and `Scenarios`

A row is a login in a database; the column `database`, the text
`"<db> (<server>)"`, is the pair. A name is known by the environments its text
contains (`EnvTags`) and by whether R6's pattern matches it (`SharedName`).
Instants are half days: an odd one stands for an instant with a part of a
second, which a CSV cell cannot hold. A finding is its rule, principal and
databases; evidence, severity and ISM controls are fixed by the rule.

`Extract` walks the configuration as `_rows_from_live_servers` does. `pc` is the
step (`connect`, `query`, `connect_db`, `query_db`, `decide`, `put`), `at` and
`db` the loop variables, `tries` the failed attempts of `get_connection`, whose
retry is `ConnectAgain`. Each call that may raise has an action in which it does,
which records a failure as the code's `except` does and goes on where the code's
`continue` goes on. `QueryDatabaseFails` keeps the rows appended so far. `Profile`
is what the queries give for a login: nobody if its SID maps to no *listed* user,
and `dbo` is not listed. `ThroughCsv` is `encode_row` followed by `decode_row`.
`Evaluate` is the rules engine at a later clock. Synthetic input takes the other
branch, `ReadSynthetic`, on the rows of `Scenarios`.

`Scenarios` has one row for each kind of row a generator writes. `Claimed` is
what the generators' comments say of them; `ExpectedFindings` what
`write_outputs` records; `GENERATORS` the counterfactual pairs with
`run_counterfactual`'s two verdicts. `ScenariosAssumption` is what R6's pattern,
the search for an environment and the splitting at commas make of the names in
these rows.

### `Executions`, `Canary` and `Adversarial`

An execution is started under a name, may publish a score under **the run id of
its date**, and ends, or never does. `Canary` is the handler's loop: `NextMonth`
(a missing fixture or a failed start is skipped), `Poll`, `PutResult` with the
look-up under the canary's own id, `Return`; `life` counts polls of the whole
invocation, `CanaryTimesOut` is the Lambda's limit, `CanaryFails` any exception,
and `Over` invokes again up to `Invocations` times, as Lambda does for an
asynchronous call. `Adversarial` runs its cases one after the other: `StartCase`,
`PollCase` to `MaxTries`, `Deadline`, `AssertOutcome`. `Probes` lets one of the
two run, with the executions it starts moving freely.

### `Monitoring`

The runs table with the stream its first puts feed. `PutRun` is Publish; a
second put of the same id is a MODIFY, which the mapping filters out.
`Deliver`, `SkipRecord`, `JudgeAgain`, `PutSignal`, `EndBatch` and `FailBatch` are
the event source and the shadow handler; a failed batch starts over and is dropped
after `MaxAttempts` deliveries. The judge's answer and the put of its signal are
two steps: `JudgeAgain` keeps a drifting answer in `answer`, and `FailBatch` may
come before `PutSignal`, in each delivery, so that an answer far away may never
have a signal. `dropped` remembers the runs of dropped batches that no delivery
came past; of them the property promises nothing. `Detect` is one invocation of the drift detector on the
table as it is. `SortedScores` is what `sorted` makes of the scores of a window,
described by the number of runs below and not above each of them. `Walk` is the
loop of `_ks_2samp` in whole numbers (the statistic times the product of the
sample sizes), a recursive function of the pair `<<i, j>>` of the code's indices;
`Significant` replaces the p-value series by the bound on lambda it amounts to,
in thousandths. The properties say what the walk should give without walking:
`Distance` counts the runs of each window with a score up to x.

### `EvalHarness`

CI jobs on one results table: a job runs its suite case by case (`RunCase`; real
mode is not implemented in the code and raises), puts a row per case after the
last one (`WriteRow`), writes the totals (`WriteJson`), and then, for a pull
request, comments with the newest row of main (`PostComment`), otherwise checks
the totals against the thresholds (`CheckTotals`). Metrics are in thousandths.
`Aggregate` is `_aggregate`: the average of each metric over the cases that have
it, of precision and recall over the rules first (`Total` names what comes out).

### `Feedback`

The findings table as its stream sees it: `Change` writes an item and appends a
record with the old and the new decision. `Publish` puts a whole item (and takes
a decision away), `Decide` is the `update_item` of `simulate_disagreement.py`,
which makes an item where there is none. The stream is never consumed from:
`first` and `last` bound the batch in it, `handled` is how far the running
invocation is. `Deliver` takes up to `BatchSize` records; a turn of the handler's
loop is `SkipRecord`, or `StampCandidate`, which builds the candidate with its
`created_at` in `made`, and `PutCandidate`; `FailBatch` is an error anywhere: the
batch starts over, or is discarded after `MaxRetry` redeliveries. Candidates are
in the order of their puts; their ids are random, so none replaces another. Time
is a day count, and no candidate waits for its put overnight, as the Lambda has a
minute, but a digest may read the table between stamp and put. `SendDigest` looks
back `Week` days from the day it runs, which is up to `MaxDelay` days after it is
due. **Its `table.scan` reads one page**, 1 MB, and the handler asks for no other:
`Pages` is any `PageSize` of the candidates when there are more, since DynamoDB
scans in the order of a hash of their ids, and `Recent` is the filter on them.
`LoseDigest` is a failed scan or mail. The module has one shard, as the items of a run have one partition
key, and is not composed with `Pipeline`: the two share only the puts of
Publish and the reviewer's updates, which `Feedback` takes in any order.

## 3. Runs

| Run | Instance | Shows |
|---|---|---|
| `solo` | one monthly execution, alone with its run id; 2 extractions, 3 findings documents, 6 drafts, 2 scores, 3 probe reports, one decision, 3 repeats | what a succeeded row is worth, that records, evidence and decisions are kept, that the execution ends, and that it implements `AuditRun` |
| `pair` | two weekly executions that share a run id; the rows change between extractions; the gates pass and fail, judge and probe accept, every failure, no repeats | what is left of the guarantees when run ids are shared |
| `narration` | two rules with at most one finding each (one CRITICAL), 4 names, every draft over them, 2 further runs that may cite anything or fail | what an accepted narrative is worth, and what is not refused |
| `feedback` | one CRITICAL and one HIGH finding, each listed at first or not; 2 decisions, 3 changes, batches of 1 or 2, 1 redelivery, three days with a digest every second day, up to a day late; a page of a scan holds 3 candidates | what the candidates table knows of the decisions, and what two digests leave out |
| `rows` | two servers (one named after an environment) with three databases, two logins, of which one has every combination of 4 profiles and the other no user anywhere, 3 connection attempts; the 6 synthetic files; 6 clocks | nothing is lost between the servers and the findings, and the synthetic rows do what they are for |
| `probes` | 3 months, one without its fixture, 3 polls per execution, 4 per invocation, 2 invocations; 2 adversarial cases, 2 polls | what canary results and adversarial verdicts are worth |
| `monitoring` | two runs published up to 3 times, batches of 1 or 2, 2 deliveries; every history of 3 scores in samples of 4 or 6 old and 3, 5 or 6 recent runs | what the drift signals are worth |
| `eval` | a pull request, a push and a nightly job at once; suites of 2 and 5 cases over 2 rules | what rows, comment and exit code are worth |
| `unverified` | as `pair` with unchanged rows | violated: a row says succeeded of a narrative no gate has seen |
| `sod` | as `rows` | violated: a dev database on a server named prod counts as prod, and a breach is not raised |
| `canary` | as `probes` | violated: a healthy run is reported as drift |
| `shadow` | as `monitoring`, with the rows Publish puts | violated: no run is judged again |

**Bounds.** In `solo` the drafts contain, for the gates, a narrative faithful to
each findings document and one with each kind of defect (wrong total, invented
id, ungrounded name with a false denial), so each gate passes and fails for its
own reason; the scores lie on both sides of a threshold; the probe reports are
on the boundary (70), beyond it (71) and empty; `MaxAttempts = 3` is the code's.
Two extractions are enough to tell the rows of one try from those of the next.
In `pair` two executions are the fewest that can share, and more would only
interleave more pairs; repeats are left out there (`MaxAttempts = 0`) since a
repeated task is one more writer of the same object, which the second execution
already is. `Monthly = {}` and one accepting score leave GeneratePdf and the
refusals of judge and probe to `solo`; the proof of `OwnChecks` covers them for
shared run ids. Symmetry swaps the two
executions, in runs without liveness only.

In `narration` two rules give a document with and without a CRITICAL finding and
one with both; of the four names, `dbadmin` is a login that looks like a database
and `payroll` a database that does not. `ExtraRuns = 2` is the code's, and the
proofs take any number. In `rows` the first server has a dev and a prod
database, the second, named prod, a dev one, so that a breach can be on one
server, across two, or be hidden; the profiles are a `dbo`, a granted and denied
administrator, a grant with grant option beside a role whose name is a comma, and
an owner with a role name that splits; instants lie on either side of a whole
second and the clocks on either side of 90 days for each of them
(`MaxRetries = 3` is the code's). In `probes` the proportions matter, not the
numbers: the code has 120 polls per execution in 180 per invocation, the instance
3 in 4, so that one hanging execution costs the next its time in both, and two
prompt ones do not; a second invocation shows repetition. In `monitoring` samples
of 3 and 4 are below the code's minimum of 5 and those of 5 and 6 above it, with
ties, and with a run exactly at the cut-off, which is in both windows; three
scores are enough for a statistic to rise and fall. `MaxAttempts = 2` there,
instead of the mapping's 4, is the least with a redelivery; `Stored` has rows with
and without the findings URI, as the handler's unit test and Publish write them,
and `shadow` only those of Publish. In `eval` the nightly suite contains a case
without findings and 10 pairs of case and rule, so one lost pair is exactly the
tenth the gate forgives. In `feedback` three changes and one redelivery give up to
four candidates: tables that outgrow the page of three and tables that do not, which
`DigestsLeaveNoGap` is about; three days hold two digests, of which the first is on
time or late.

Deadlock checking is off because everything that is modelled ends: executions,
narrations, extractions, canary invocations, jobs, and in `Feedback` and
`Monitoring` because changes, days and puts are bounded.

**Fairness.** `WF_vars(Progress(e))` for each execution: a Lambda answers or
reaches its time-out, Step Functions then takes the next transition, and neither
waits for anything another execution does. `Start`, `Interrupt`, `GetFinding`
and `Review` are not fair: a schedule may never come, a handler need not fail,
the agent need not use its tools and reviewers may stay silent. `GetFinding`
could repeat forever in the model; the agent's loop is bounded by the Lambda
time-out, and weak fairness of `Progress` says just that.
`Narration` has weak fairness of `NarrationNext`: each step is a model call with
an answer or an exception, or the next state of the machine. In `probes` it is of
the canary's steps but not of `CanaryFails`, and of the cases' steps; **the
executions they poll are not fair**, so that `ProbesEnd` says the polling ends
although an execution hangs. `Feedback` has weak fairness of delivery and handling,
which the event source mapping does by itself; reviewers, failures, the clock
and the digests are not fair.

**What the violated runs mean.** `unverified` and `shadow` concern the design
documents' own words, `sod` and `canary` a docstring; each finding in
`PROJECT.json` quotes its line. The passing runs state what remains: with run ids
of their own, checked is published (`solo`, and proved); where no server is named
after an environment, R3 raises every breach (`SodBreachOnPlainServers`); the
canary never misses anything (`UnhealthyRunsDrift`), because it reports
everything; where both URIs are stored, the shadow evaluation comes past no run
whose last answer drifted, by the threshold of the code, without a signal; two
digests of a table that fits in a page leave out at most the candidate that was
being put; a failed further run does not quarantine a narrative that no run
contradicted (`BlipsDoNotQuarantine`), and no run contradicts an accepted one when
none failed (`AcceptedCriticalRunsAgree`); the pairs change their rule for the first
eighty days (`CounterfactualsIsolate`); a gate that passes bounds what is lost on
the whole, if not per rule (`GateBoundsTheLoss`); and the baseline is of a job of
main that ran all its cases.

Where a document, a docstring or a test claims more than a passing property says,
the property is what is left of the claim, and the claim is not true of the code:

* *Digest.* "Weekly cron `digest-reviewer-disagreement` summarises
  golden_set_candidates with status=pending", and of those "added in the last 7
  days" (`docs/superpowers/plans/2026-04-25-plan2-eval-suite.md:1749` and `:1759`).
  The scan (`reviewer_disagreement_digest/handler.py:19`) reads one page of a table
  that nothing is removed from: beyond a page, candidates of the week are in no
  mail. `DigestsLeaveNoGap` is about tables that fit in the page, and even there
  leaves out a candidate stamped before one digest and put after it
  (`reviewer_disagreement/handler.py:57`), if the next is a full week later.
* *Self-consistency.* "Returns False — at least one extra run produced a divergent
  citation set" (`agent_narrator/handler.py:83`), "Any divergence … → quarantine"
  (`docs/superpowers/specs/2026-04-25-irap-uar-agent-design.md:617`). A later run
  that fails ends the check with True before the answers are compared (`:96-102`):
  a narrative is accepted although a further run cited other findings.
  `BlipsDoNotQuarantine` is stated where no run did, `AcceptedCriticalRunsAgree`
  where none failed.
* *Counterfactual pairs.* `assert r.targeted_rule_changed` for each rule
  (`tests/unit/test_eval_harness_counterfactual.py:47`), "set last_active_date to 10
  days ago → R2 does not fire" (`evals/counterfactual/generators.py:76`). The ten
  days are counted from 2026-04-25 (`:25`) and the rule reads the clock of the test:
  from the middle of July 2026 both sides fire, and the test fails.
  `CounterfactualsIsolate` asks R2's pair to change for eighty days only.
* *Thresholds of the gate.* "Recall per rule ≥ 0.98 (R1, R2); ≥ 0.90 (R3 – R6)" and
  precision likewise (`docs/superpowers/specs/2026-04-25-plan2-eval-suite-design.md:238-239`),
  which `eval_harness/reporter.py:3` calls its thresholds. The code has 0.90 on the
  averages over all cases and rules, so a rule may lose more than its own threshold
  allows. `GateBoundsTheLoss` says what a gate that passed bounds: a tenth of all
  pairs of a case and a rule.
* *Baseline.* "Return the most-recent aggregated eval result for `branch`, or None"
  (`eval_harness/ddb_writer.py:41`). It is the newest row, of one case and without
  totals, and perhaps of a job that is still putting its rows or failed among them.
  `BaselineIsMains` says that the job was main's and had run its whole suite.
* *Shadow threshold.* "If `delta > 0.05`, write to `drift_signals` DDB table"
  (`docs/superpowers/specs/2026-04-25-plan2-eval-suite-design.md:403`); the code has
  0.10 (`shadow_eval/handler.py:31`), and Terraform too (`main.tf:226`).
  `DriftIsSignalled` is about the threshold of the code, and of the last answer
  only: when the put of a signal fails in every delivery, an answer of the judge
  that was far away has none.

Divergences seen in the code that have no run either:

* `get_finding` (`agent_narrator/tools.py:24`) reads the findings table, which
  Publish fills after the narrative is written: it returns nothing, or the item
  of an earlier execution of the run id.
* `MarkQuarantined` (`pipeline.asl.json:297`) replaces a score the judge did give
  by "Quarantined upstream — Judge not run".
* An execution that fails after its row is put leaves the row "succeeded"
  (`publish_triage/handler.py:37`).
* A login whose name contains "db" is looked up among the databases
  (`entity_extraction.py:13`), a database without "db" among the principals.
* A candidate made just before a week whose digest is late or lost is in no digest
  (`reviewer_disagreement_digest/handler.py:18`).
* A second publication of a run id puts whole items: decisions are dropped, and
  findings no longer raised stay listed.
* The report's key takes the month from the raw `started_at`, the run id its date
  from Sydney time.
* Canary executions start with `cadence` "weekly" where the design says "canary".
* A decision against a HIGH finding is no disagreement in the code and is one in
  the design, a confirmed LOW finding the other way round (no rule has severity
  LOW).
* `summarize_permissions` takes no account of `GRANT_WITH_GRANT_OPTION`, and an
  owner who maps to `dbo` is no listed user and not raised;
  `AdministratorsAreRaised` says what is.
* The drift detector's level is 0.05 in the code and 0.01 in the design. With one weekly run and one canary a week
  the recent window never has the five rows the test asks for.
* In stub mode every case is perfect; every row of the evaluation has `case_type`
  "golden".
* `narrative_no_findings` looks at a key the pipeline's output does not have: it
  passes on every execution, failed ones too (`adversarial_runner.py:136`).

## 4. Proofs

All theorems are for all values of the constants, under the named assumptions of
the modules they are about:

* `GatesAssumption`, `PipelineAssumption`, `NilAssumption`, `RowAssumption`:
  `RunOf`, `HashOf` and `Evaluate` are functions of their types, the rules are
  finitely many, `Nil` is no value, no row and no report;
* `NarrationAssumption`, `SelfConsistencyAssumption`: types, and at least one
  extra run;
* `ExtractAssumption`: `Config`, `Logins` and the answers of `Estate` have their
  types, instants are integers, role names the code compares with (`db_owner`,
  `sysadmin`) have no comma in them;
* `ScenariosAssumption`: what the patterns make of the names in the synthetic rows;
* `ExecutionsAssumption`, `CanaryAssumption`, `AdversarialAssumption`,
  `FeedbackAssumption`, `MonitoringAssumption`, `EvalHarnessAssumption`: types,
  `None` and `Nil` are no values, limits are positive; no pull request is from a
  branch called main; a digest is late by less than a week; the table the drift
  detector finds is finite and its scores are among `Scores`; there is some rule.

TLC evaluates each of them on the instances. Some theorems have hypotheses of
their own: `Isolated` (no two executions have one run id), `NamedOnce` (the
configuration names a server, its databases, and the servers a login, once),
`Demanding` of each month (its baseline asks for some score above 0),
`MinSamples >= 5` (five is the code's number; the bound on lambda is computed from it),
and for the synthetic rows that they are the ones of the repository
(`Synthetic = Golden`) and read on the day they are written for or later
(`Clock \subseteq Nat`).

| Module | Theorem | States | Argument |
|---|---|---|---|
| `PipelineProofs` | `TypeCorrect` | `Spec => []TypeOK` | `TypeInv` |
| | `OwnChecks` | `Spec => []OwnChecksPassed` | `ChecksInv` |
| | `RowFirst` | `Spec => []RowBeforeFindings` | `TypeInv`, `ChecksInv` |
| | `Verified` | `Isolated` implies `Spec => []SucceededWasVerified` | `ChecksInv`, `ReadsInv` |
| | `RecordKept` | `Isolated` implies `Spec => RecordIsFinal` | `ReadsInv` |
| `RecordProofs` | `HashCovers` | `Isolated` implies `Spec => []HashCoversFindings` | `RecordInv` |
| | `PublishIsComplete` | `Isolated` implies `Spec => []CompleteWhenPublished` | `RecordInv` |
| | `ReportAttests` | `Isolated` implies `Spec => []ReportAttestsRun` | `RecordInv` |
| | `DecisionsKept` | `Isolated` implies `Spec => DecisionsSurvive` | `RecordInv` |
| | `Simulates` | `Isolated` implies `Spec => Audit!Safety` | step simulation |
| | `Implements` | `Isolated` implies `Spec /\ EveryRunEnds => ImplementsAuditRun` | `Simulates` |
| `NarrationProofs` | `AcceptedIsSound`, `AcceptedRunsAgree`, `FailuresDoNotQuarantine` | the first three properties of run `narration` | `NInv` |
| | `WellNamedIsGrounded` | `NarrationSpec => []WellNamedContextIsGrounded` | the gate's operators |
| `ExtractProofs` | `ExtractsAreComplete` | `NamedOnce` implies `Spec => []CompleteExtract` | `ExtractInv`, `NoRowTwice` |
| | `CsvHidesNothing` | `Spec => []EncodingHidesNothing` | `ExtractInv`, rules monotone under the encoding |
| | `AdministratorsReachTheFindings` | `Spec => []AdministratorsAreRaised` | `ExtractInv` |
| | `PlainServersKeepR3` | `Spec => []SodBreachOnPlainServers` | `ExtractInv` |
| | `PairsIsolateTheirRules` | at any later clock, `Spec => []CounterfactualsIsolate` | counts of findings on one login |
| | `ScenariosRaiseTheirClaims` | at any later clock, `Spec => []ScenariosMeetTheirClaims` | `SyntheticInv`, row by row |
| `ProbesProofs` | `ProbesRunAlone` | `Spec => []OneAtATime` | `ProbesInv` |
| | `CanaryReturnsAllResults` | `Spec => []ReturnedCanaryIsComplete` | `ProbesInv` |
| | `PromptCanaryIsInTime` | `Spec => []PromptRunsAreAllReported` | `TimeInv` |
| | `CasesEarnTheirVerdicts` | `Spec => []VerdictsAreEarned` | `CaseInv` |
| | `EveryResultDrifts` | `Demanding` implies `Spec => []UnhealthyRunsDrift` | `DriftInv` |
| `MonitoringProofs` | `DriftSignalled` | `Spec => []DriftIsSignalled` | `MonitoringInv` |
| | `WalkComputesStatistic` | `Spec => []WalkIsStatistic` | `DetectorInv`, induction along the walk |
| | `CollapseDetected` | `MinSamples >= 5` implies `Spec => []CollapseIsDetected` | `DetectorInv`, bound on the root |
| `EvalProofs` | `ResultsAreComplete` | `Spec => []NoPartialResults` | `EvalInv` |
| | `BaselinesAreMains` | `Spec => []BaselineIsMains` | `EvalInv`, `MainsRows` |
| | `PerfectIsExpected` | `Spec => []PerfectMeansSameFindings` | `EvalInv`, the ratios |
| | `PassingBoundsTheLoss` | `Spec => []GateBoundsTheLoss` | `GateInv`, the sum of a fold |
| `FeedbackProofs` | `DuplicatesAreBounded` | `Spec => []BoundedDuplicates` | `CopiesAreBounded` |
| | `DigestsMeet` | `Spec => []DigestsLeaveNoGap` | `DigestsAreExact`, `MadeIsCurrent` |
| | `QueueFollowsTable` | `Spec => []QueueReflectsTable` | `QueueIsInOrder`, `DecisionsAreRecorded` |

*`TypeInv`* strengthens `TypeOK` by `AllPresent`: in each state of the machine,
the objects earlier states have put are there. `TypeOK` alone is not inductive,
because a read would return `Nil`. It holds whoever shares run ids, for objects
are overwritten and never deleted (`ObjectsStay`).

*`ChecksInv`* says how far an execution has come: what it has read when it is
past a check (`Seen`), that the checks it is past were passed unless it was
quarantined (`AllPassed`), and that a row speaks of its writer (`Row`,
`Published`). It concerns the execution's own memory only, so it too holds with
shared run ids. This is why the property of `pair` is about what an execution
**saw**.

*`ReadsInv`* adds that what an execution has read of its objects is what they
still hold, and needs `Isolated`. With it, the objects an execution checked are
those it publishes. Without it the theorem is false, and run `unverified` is the
counterexample. `Isolated` is an assumption about whoever starts executions; no
code enforces it.

*`RecordInv`* links the documents with each other and with the tables. `Chain`
goes from the hash of the manifest over the validated rows and the findings to
the narrative, one link for each state of the machine that is over; `Publishing`
says how many items are put at each step of Publish; `Recorded` says that row,
items and report agree with the objects. None of the four properties is
inductive: each compares things that are written several handlers apart, and a
repeated ValidateAndHash would break the first if it could come after Publish.
A step of an execution leaves the runs of others `Aside`, so each step is shown
for its own run. `DecisionsKept` follows because no item is there when Publish
puts it.

*The refinement.* `InitSim` and `NextSim` map the initial states and every step of
`Pipeline` to one of `AuditRun` or a stutter: starting is `Begin`, putting the row
is `Record`, each item is `List`, the end of Publish `Close`, the report `Attest`,
and an execution that fails gives up (`GiveUp`). That putting the row is a `Record` needs the
whole of `AllInv`: the run was not recorded, its documents are ones the rules
raise and the agent may write, and "succeeded" is said only of a narrative that
the gates accept. `Implements` adds `AuditRun`'s liveness, which is that of
`EveryRunEnds` seen through the mapping; that executions end is TLC's part.

*`NInv`* has three parts: the types; `FlagTellsCheck`, what a flag stands for
(only critical reports are checked, a check is over when all runs are in or one
failed, and TRUE means failed or all agree); and `WrittenFromCheck`, that the
narrative carries the first run's citations and the flag, and the verdict is the
gates' on it. The properties proved from it are not inductive, for each speaks of
the verdict only and the flag is set long before. The proofs hold for any number
of extra runs, any rules and findings, and any drafts.

*`ExtractInv`* follows the two loops by the set of databases they have left behind
(`Asked`): every row is the answer of one of those, and as long as no failure is
recorded each of those has answered for every login. A server left early counts
as asked, at the price of a failure, and `decide` raises on any. That no login has
two rows needs `NamedOnce`: with a configuration that names a database twice the
code extracts it twice. The other theorems hold without it. The CSV may
make a login look older by a fraction of a second and a role name come apart;
`CsvHidesNothing` rests on every rule being monotone in both.

*The synthetic rows.* `RulesAre` and `RaisedAre` reduce each rule to the set of
rows it hits. Of a pair of rows that differ in one attribute, the sets that do
not look at it are the same at any clock (`OneRow`, `EtlCounts`), so the other
rules' counts are; R2 looks at the clock, and changes too up to the day the flipped
row, ten days old when written, is dormant itself. The rows of a scenario pass
through the CSV unchanged, twice (`PlainRow`, `DecodingKeeps`), and are raised
with the clock free (`Meets`): at day 0 what the generators claim, later at most
R2 in addition. TLC's clocks are six days.

*`ProbesInv` and `TimeInv`.* `Alone` and `Complete` say of every execution of the
canary that is not at hand that it is over or given up, and told of. `TimeInv` is
about all bounds at once: for any number no earlier execution of the invocation
was polled more than, the time spent is at most that number for each month. From
that, an invocation that runs out of time has polled some execution for its share.
`UnhealthyRunsDrift` holds because the canary never finds a run under its own id,
so with a demanding baseline everything drifts; the theorem says both.

*`MonitoringInv`* says that a record in the stream shows the score its run was
first put with (`RecordShowsFirst`), that no two records are of one run
(`RecordIsOnly`), that a run not put has no history, and that the answer in hand is
the last one of the run at hand and far away (`AnswerIsLast`). `DriftIsSignalled` is
not inductive without them: the handler compares with the record and puts what it
holds in memory, the property speaks of the run and of what the judge said; and a
run leaves `Waiting` when the handler moves on, by a put, by an answer that is
near, or with its batch into `dropped`. It holds for any table to begin with,
batches of any size, and any number of redeliveries.

*`DetectorInv` and the walk.* `DetectorInv` says that the detector's result is
`KsDrift` of the two windows as long as nothing was put. What a recursive function
computes has no step to do induction on in the specification, and the library's
induction theorems cannot be instantiated by the provers, but the argument by the
*least counterexample* can be written down: of the places where a function that
satisfies the recursion would differ from the greatest difference still to come,
take one whose next place is furthest on; it differs there too (`GreatestWalks`,
`OnlyGreatestWalks`; `LeastNat` rests on `<` being well-founded on the naturals).
`PlaceIs` and `SortedScoresIs` take the places in sorted samples back to counts of
runs, so `WalkIsStatistic` is proved for windows of any size, with any ties.
`CollapseIsDetected` adds what the level is worth: with five runs or more in each
window, of which at most one is in both, the distance is at least four fifths of
the greatest possible, by `WalkIsStatistic`, and `RootIs`, `Quotient` and
`ApartIsSignificant` bound lambda from below. The bound needs the five.

*`EvalInv`* follows the rows of one job among those of the others: the n-th row
of a job is for its n-th case, so the rows are as many as the cases and of the
same cases, although jobs put rows in between. `MainsRows` are the rows
of jobs of main that have put any, which they do after the last case only.

*`GateInv`* adds that a job past its cases has run them all and that only such a
job has an exit code. The total recall is an average of averages, each a fold over
a set; `SumOfMarks` takes the fold apart by the least counterexample again: a sum
of numbers that are 0 or c is c for each that is not 0. With it `TotalsAre` gives
the totals of a suite of any length of which any cases lost their findings, and
`CheckIs` what the thresholds make of them, so that a gate passes exactly as long
as at most a tenth of the pairs of case and rule are lost.

*`FeedbackInv`* describes the queue by the stream: candidates are behind the
records they repeat, a record up to the reader's place is queued if it
contradicts its severity and its batch was not discarded, and what may follow its
last candidate are later records. `MadeIsCurrent` says that the candidate in hand
is of the record at hand, and `DigestsAreExact` what a digest has listed of a table
that fits in its page (`PageIs`), and that of the candidates put after it only the
first can have been stamped on an earlier day. `Deliveries` counts how often a record was
handed over, and so how often it may be queued. `MaxChange` and `Horizon`, which
bound TLC's runs, play no part in the proofs.

Not proved but model-checked:

* `EveryRunEnds`, `NarrationEnds`, `ProbesEnd`, `StreamIsWorkedOff`: liveness
  under fairness, and with the first the hypothesis of `Implements`. The prover
  has no rule for ENABLED, which weak fairness is about.
* Properties under shared run ids, where they hold at all, other than
  `TypeOK`, `OwnChecksPassed` and `RowBeforeFindings`: the others are false there,
  or need `Isolated`.

Every invariant that a passing run checks, and every action property, is the
conclusion of a theorem above.


## 5. Not modelled

* The text of the SQL queries: `Profile` and `Estate` represent what they return
  and what they leave out. `legacy.py`: no handler imports it, and its server list
  is empty.
* Prompts, catalogue tools, Bedrock's answers, PDF layout, logging, tracing:
  they change no state a property looks at. The month in the report's key.
* What costs no poll costs no time in `Probes`: uploads, starts and look-ups take
  nothing of the Lambda's fifteen minutes there.
* `Quotable` says nothing of database texts as the extractor writes them,
  `db (server)`, which the back-tick pattern never matches: of narratives that name
  databases so, `WellNamedContextIsGrounded` says less.
* The p-value series of the KS test (replaced by its bound), and the scores of
  RAGAS and BERTScore: real-number arithmetic and library calls. The pages of the
  detector's scan: the table is read as one page, as the code reads only one.
* The predicates of `evals/property/invariants.py`, which restate rules on
  generated rows; `Rules` and `AdministratorsAreRaised` say the same of rows from
  servers.
* Terraform resources, except Retry lists, table keys, time-outs and stream
  mappings the modules use.
* `Pipeline` takes rows and rules from `Snapshot` and `Evaluate`, not from
  `Extract` and `Rules`: its properties hold for whatever rows and rules there are,
  and the product of both state spaces would show nothing more.

## 6. Plan

1. *Done:* `Gates`, `Pipeline`, `AuditRun`, `PipelineRefinement`,
   `SelfConsistency`, `Feedback`, with the theorems on `Pipeline`.
2. *Done:* `Narration` with its theorems; `Rules`, `Extract`, `Scenarios`;
   `Executions`, `Canary`, `Adversarial`; `Monitoring`; `EvalHarness`.
3. *Done:* the proofs of section 4, in the order in which they rest on each other:
   the record of a run and the refinement, the narration, the probes, the
   feedback, the extractor, the evaluation, the shadow evaluation; then what takes
   an induction over data or the repository's rows: the drift detector's walk, the
   totals of the evaluation, scenarios and counterfactual pairs at any clock.
4. Next: the month of the report's key with its two time zones in `Pipeline`, and
   with it the one hazard of the reports that no property covers; what of
   `CompleteWhenPublished` and `DecisionsSurvive` can be stated and proved of
   executions that share a run id.
