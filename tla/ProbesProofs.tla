---------------------------- MODULE ProbesProofs ----------------------------
(***************************************************************************)
(* Theorems about the canary and the adversarial cases, for any baselines, *)
(* cases, scores and limits: what their reports are worth although the     *)
(* executions they watch may hang, fail or publish at any time.  Started,  *)
(* CaseInv and CanaryInv follow the executions, the cases and the          *)
(* invocations; TimeInv relates the polls of an invocation to its time.    *)
(***************************************************************************)
EXTENDS Probes, TLAPS

-----------------------------------------------------------------------------
(* The invariants                                                          *)

Day == {"today", "2026-04-25"}
Execution == [status : {"RUNNING"} \cup Ends, day : Day, score : Scores \cup {None}]

\* The id of an execution tells who started it, and so its day; and no row is
\* ever under an id of the canary.
ExecutionInv ==
    /\ execution \in [Started -> Execution]
    /\ \A x \in Started : execution[x].day = IF x[1] = 0 THEN "2026-04-25" ELSE "today"
    /\ \A k \in DOMAIN runs : k[1] = "run"

\* The case's execution is over with a score the judge accepts: for good.
Earned(x) ==
    /\ x \in Started /\ execution[x].status = "SUCCEEDED"
    /\ execution[x].score \in PassingScores

JudgePassed(result) == result.judge_passed = TRUE

\* Executions of earlier cases have their verdict, and verdicts are earned.
CaseInv ==
    /\ \A x \in Started : x[1] = 0 => x[2] \in DOMAIN verdicts \/ (apc # "start" /\ x = X)
    /\ apc \in {"start", "poll", "assert"}
    /\ apc # "start" => X \in Started
    /\ apc = "assert" => (JudgePassed(got) => Earned(X))
    /\ \A c \in DOMAIN verdicts :
          verdicts[c] /\ Expects[c] \in {"judge_pass", "agent_quotes_verbatim"} =>
             Earned(<<0, c>>)

Canaries == {x \in Started : x[1] # 0}
InHand == cpc \in {"wait", "compare"}

\* The polls of the execution at hand, and one outcome per invocation.
CanaryTypes ==
    /\ inv \in Nat \ {0} /\ month \in 0..Len(Months) /\ polls \in 0..MaxPolls
    /\ life \in Nat
    /\ cpc \in {"next", "wait", "compare", "ended"}
    /\ outcome \in Seq({"returned", "failed", "timeout"})
    /\ Len(outcome) = IF cpc = "ended" THEN inv ELSE inv - 1
    /\ polled \in [Canaries -> 0..MaxPolls]
    /\ \A x \in Canaries : x[1] \in 1..inv
    /\ InHand => This \in Canaries /\ month # 0 /\ polled[This] = polls

\* Left: given up, with its invocation or after MaxPolls polls.
Left(x) == x[1] < inv \/ polled[x] = MaxPolls

\* Told: its row has its end, unless it was polled MaxPolls times.
Told(x) ==
    /\ x \in DOMAIN results
    /\ \/ ~Running(x) /\ results[x].sfn_status = Status(x)
       \/ polled[x] = MaxPolls

\* An execution of the canary that is not at hand is over, or was given up; of
\* two, at most one is neither.
Alone ==
    /\ cpc # "ended" =>
          \A x \in Canaries : ~(cpc = "wait" /\ x = This) => ~Running(x) \/ Left(x)
    /\ \A x, y \in Canaries :
          Running(x) /\ Running(y) /\ x # y => Left(x) \/ Left(y)

\* The current invocation has told of every execution but the one at hand.
Complete ==
    /\ cpc # "ended" =>
          \A x \in Canaries : x[1] = inv /\ ~(InHand /\ x = This) => Told(x)
    /\ cpc = "compare" => \/ ~Running(This) /\ seen = Status(This)
                          \/ polled[This] = MaxPolls
    /\ \A x \in Canaries :
          x[1] \in DOMAIN outcome /\ outcome[x[1]] = "returned" => Told(x)

\* The time of an invocation is spent on polls: on each month before the one at
\* hand at most as much as on the execution polled most.
SpentOn(i, b, others) == \A x \in Canaries : x[1] = i /\ ~(others /\ x = This) =>
                            polled[x] * Len(Months) <= b
Slow(i) == \E x \in Canaries : x[1] = i /\ polled[x] * Len(Months) >= LambdaPolls
TimeInv ==
    /\ polls <= life
    /\ cpc # "ended" => \A b \in Nat : SpentOn(inv, b, InHand) =>
          IF InHand THEN (life - polls) * Len(Months) <= (month - 1) * b
                    ELSE life * Len(Months) <= month * b
    /\ \A i \in DOMAIN outcome : outcome[i] = "timeout" => Slow(i)

\* Every row reports drift: the run is looked up under an id no row is under,
\* and a baseline with a positive floor for a score is missed by 0.
DriftInv == \A x \in DOMAIN results : results[x].drift

CanaryInv == CanaryTypes /\ Alone /\ Complete
ProbesInv == ExecutionInv /\ CaseInv /\ CanaryInv

-----------------------------------------------------------------------------
(* The executions                                                          *)

\* What any step does to the executions: none goes, and one that has ended
\* stays as it is.
Onward ==
    /\ Started \subseteq Started'
    /\ \A x \in Started : ~Running(x) => execution'[x] = execution[x]

LEMMA StartKeeps ==
    ASSUME ExecutionInv, NEW x, NEW day \in Day, StartExecution(x, day),
           day = IF x[1] = 0 THEN "2026-04-25" ELSE "today"
    PROVE  /\ ExecutionInv' /\ Onward
           /\ x \notin Started /\ Started' = Started \cup {x}
  <1> USE DEF Started
  <1>1. /\ x \notin Started /\ Started' = Started \cup {x}
        /\ \A y \in Started : execution'[y] = execution[y]
        /\ execution'[x] = [status |-> "RUNNING", day |-> day, score |-> None]
        /\ runs' = runs
    BY DEF StartExecution
  <1>2. execution' \in [Started' -> Execution]
    <2>1. execution'[x] \in Execution
      BY <1>1 DEF Execution
    <2>2. execution' = [y \in Started' |-> execution'[y]]
      BY DEF StartExecution
    <2> QED BY <1>1, <2>1, <2>2 DEF ExecutionInv
  <1> QED BY <1>1, <1>2 DEF ExecutionInv, Onward

LEMMA PipelineKeeps ==
    ASSUME ExecutionInv, NEW x \in Started, Pipeline(x)
    PROVE  ExecutionInv' /\ Onward /\ Started' = Started
  <1> USE DEF Started
  <1>1. CASE PublishRun(x)
    <2>1. PICK s \in Scores :
            /\ execution' = [execution EXCEPT ![x].score = s]
            /\ runs' = [k \in DOMAIN runs \cup {<<"run", execution[x].day>>} |->
                           IF k = <<"run", execution[x].day>> THEN s ELSE runs[k]]
      BY <1>1 DEF PublishRun
    <2>2. /\ Started' = Started /\ \A y \in Started \ {x} : execution'[y] = execution[y]
          /\ execution'[x].day = execution[x].day
      BY <2>1 DEF ExecutionInv, Execution
    <2>3. execution' \in [Started' -> Execution]
      BY <2>1, <2>2 DEF ExecutionInv, Execution
    <2>4. \A k \in DOMAIN runs' : k[1] = "run"
      BY <2>1 DEF ExecutionInv
    <2> QED BY <1>1, <2>2, <2>3, <2>4 DEF ExecutionInv, Onward, PublishRun
  <1>2. CASE EndExecution(x)
    <2>1. PICK s \in Ends : execution' = [execution EXCEPT ![x].status = s]
      BY <1>2 DEF EndExecution
    <2>2. /\ Started' = Started /\ \A y \in Started \ {x} : execution'[y] = execution[y]
          /\ execution'[x].day = execution[x].day
      BY <2>1 DEF ExecutionInv, Execution
    <2>3. execution' \in [Started' -> Execution]
      BY <2>1, <2>2 DEF ExecutionInv, Execution
    <2> QED BY <1>2, <2>2, <2>3 DEF ExecutionInv, Onward, EndExecution
  <1> QED BY <1>1, <1>2 DEF Pipeline

LEMMA IdleKeeps ==
    ASSUME ExecutionInv, UNCHANGED executions
    PROVE  ExecutionInv' /\ Onward /\ Started' = Started
  BY DEF ExecutionInv, Onward, Started, executions

LEMMA EarnedStays ==
    ASSUME Onward, NEW x, Earned(x)
    PROVE  Earned(x)'
  BY DEF Onward, Earned, Running

LEMMA EndedStays ==
    ASSUME Onward, NEW x \in Started, ~Running(x)
    PROVE  ~Running(x)' /\ execution'[x] = execution[x] /\ x \in Started'
  BY DEF Onward, Running

-----------------------------------------------------------------------------
(* The adversarial cases                                                   *)

LEMMA CaseElsewhere ==
    ASSUME CaseInv, Onward, UNCHANGED adversarial,
           \A x \in Started' : x[1] = 0 => x \in Started
    PROVE  CaseInv'
  BY EarnedStays DEF CaseInv, adversarial, X, Case, Onward

\* Only the score of an execution seen to succeed makes a result pass.
LEMMA PassedResult ==
    ASSUME NEW status, JudgePassed(Result(status))
    PROVE  status = "SUCCEEDED" /\ execution[X].score \in PassingScores
  <1>1. Result(status).judge_passed =
           IF status = "SUCCEEDED" THEN execution[X].score \in PassingScores ELSE None
    BY Zenon DEF Result
  <1>2. None # TRUE
    BY ExecutionsAssumption
  <1>3. status = "SUCCEEDED"
    BY <1>1, <1>2, Zenon DEF JudgePassed
  <1>4. execution[X].score \in PassingScores
    BY <1>1, <1>3, Zenon DEF JudgePassed
  <1> QED BY <1>3, <1>4

LEMMA CaseStep ==
    ASSUME ExecutionInv, CaseInv, AdversarialNext
    PROVE  /\ ExecutionInv' /\ Onward /\ CaseInv'
           /\ \A x \in Started' : x[1] # 0 => x \in Started
  <1>1. CASE StartCase
    <2>1. StartExecution(X, "2026-04-25") /\ X[1] = 0
      BY <1>1 DEF StartCase, X
    <2>2. /\ ExecutionInv' /\ Onward
          /\ X \notin Started /\ Started' = Started \cup {X}
      BY <2>1, StartKeeps DEF Day
    <2>3. X' = X /\ apc = "start" /\ apc' = "poll" /\ verdicts' = verdicts
      BY <1>1 DEF StartCase, X, Case
    <2>4. CaseInv'
      BY <2>2, <2>3, EarnedStays DEF CaseInv
    <2> QED BY <2>1, <2>2, <2>4
  <1>2. CASE PollCase \/ Deadline
    <2>1. /\ X' = X /\ apc = "poll" /\ verdicts' = verdicts
          /\ UNCHANGED executions
      BY <1>2 DEF PollCase, Deadline, X, Case
    <2>2. ExecutionInv' /\ Onward /\ Started' = Started
      BY <2>1, IdleKeeps
    <2>3. \/ apc' = "poll"
          \/ apc' = "assert" /\ (got' = Result(Status(X)) \/ got' = Result("TIMED_OUT"))
      BY <1>2, <2>1 DEF PollCase, Deadline
    <2>4. apc' = "assert" => (JudgePassed(got') => Earned(X))
      <3> SUFFICES ASSUME apc' = "assert", JudgePassed(got') PROVE Earned(X)
        OBVIOUS
      <3>1. X \in Started
        BY <2>1 DEF CaseInv
      <3>2. ~JudgePassed(Result("TIMED_OUT"))
        BY PassedResult
      <3>3. Status(X) = "SUCCEEDED" /\ execution[X].score \in PassingScores
        BY <2>3, <3>2, PassedResult
      <3> QED BY <3>1, <3>3 DEF Earned, Status
    <2>5. CaseInv'
      BY <2>1, <2>2, <2>3, <2>4, EarnedStays DEF CaseInv
    <2> QED BY <2>2, <2>5
  <1>3. CASE AssertOutcome
    <2>1. /\ apc = "assert" /\ apc' = "start" /\ UNCHANGED executions
          /\ verdicts' = [c \in DOMAIN verdicts \cup {Case} |->
                       IF c = Case THEN Meets(Expects[Case], got) ELSE verdicts[c]]
      BY <1>3 DEF AssertOutcome
    <2>2. ExecutionInv' /\ Onward /\ Started' = Started
      BY <2>1, IdleKeeps
    <2>3. \A x \in Started : x[1] = 0 => x[2] \in DOMAIN verdicts'
      BY <2>1 DEF CaseInv, X
    <2>4. ASSUME NEW c \in DOMAIN verdicts', verdicts'[c],
                 Expects[c] \in {"judge_pass", "agent_quotes_verbatim"}
          PROVE  Earned(<<0, c>>)
      <3>1. CASE c # Case
        BY <2>1, <2>4, <3>1 DEF CaseInv
      <3>2. CASE c = Case
        <4>1. Meets(Expects[Case], got)
          BY <2>1, <2>4, <3>2
        <4>2. JudgePassed(got)
          BY <2>4, <3>2, <4>1 DEF Meets, JudgePassed
        <4> QED BY <2>1, <3>2, <4>2 DEF CaseInv, X
      <3> QED BY <3>1, <3>2
    <2>5. CaseInv'
      BY <2>1, <2>2, <2>3, <2>4, EarnedStays DEF CaseInv
    <2> QED BY <2>2, <2>5
  <1> QED BY <1>1, <1>2, <1>3 DEF AdversarialNext

-----------------------------------------------------------------------------
(* The canary                                                              *)

LEMMA CanaryElsewhere ==
    ASSUME CanaryInv, Onward, UNCHANGED canary,
           \A x \in Started' : x[1] # 0 => x \in Started
    PROVE  CanaryInv'
  <1>1. Canaries' = Canaries /\ This' = This
    BY DEF Onward, Canaries, canary, This, Month
  <1>2. \A x \in Canaries : ~Running(x) => ~Running(x)' /\ Status(x)' = Status(x)
    BY EndedStays DEF Canaries, Status
  <1>3. CanaryTypes'
    BY <1>1 DEF CanaryInv, CanaryTypes, InHand, canary
  <1>4. Alone'
    BY <1>1, <1>2 DEF CanaryInv, Alone, Left, canary
  <1>5. \A x \in Canaries : Told(x) => Told(x)'
    BY <1>2 DEF Told, canary
  <1>6. Complete'
    BY <1>1, <1>2, <1>5 DEF CanaryInv, CanaryTypes, Complete, InHand, canary
  <1> QED BY <1>3, <1>4, <1>6 DEF CanaryInv

\* A month is passed over: nothing is at hand before or after.
LEMMA SkipCanary ==
    ASSUME CanaryInv, NextMonth, cpc' = "next", UNCHANGED <<executions, polled>>
    PROVE  CanaryInv'
  <1>1. /\ cpc = "next" /\ month' = month + 1 /\ month < Len(Months) /\ polls' = 0
        /\ UNCHANGED <<inv, life, results, outcome>>
    BY DEF NextMonth
  <1>2. Canaries' = Canaries /\ \A x \in Canaries : Running(x)' = Running(x) /\ Status(x)' = Status(x)
    BY DEF executions, Canaries, Started, Running, Status
  <1>3. CanaryTypes'
    BY <1>1, <1>2, CanaryAssumption DEF CanaryInv, CanaryTypes, InHand
  <1>4. Alone'
    BY <1>1, <1>2 DEF CanaryInv, Alone, Left
  <1>5. \A x \in Canaries : Told(x) => Told(x)'
    BY <1>1, <1>2 DEF Told
  <1>6. Complete'
    BY <1>1, <1>2, <1>5 DEF CanaryInv, Complete, InHand
  <1> QED BY <1>3, <1>4, <1>6 DEF CanaryInv

\* The month's execution is started, while no other is unsettled.
LEMMA BeginCanary ==
    ASSUME ExecutionInv, CanaryInv, NextMonth,
           StartExecution(<<inv, Months[month']>>, "today"),
           polled' = With(polled, <<inv, Months[month']>>, 0), cpc' = "wait"
    PROVE  /\ CanaryInv' /\ This' \notin Started
           /\ \A x \in Started' : x[1] = 0 => x \in Started
           /\ ExecutionInv' /\ Onward /\ polled' = With(polled, This', 0)
           /\ Canaries' = Canaries \cup {This'}
  <1>1. /\ cpc = "next" /\ month' = month + 1 /\ month < Len(Months) /\ polls' = 0
        /\ UNCHANGED <<inv, life, results, outcome>>
    BY DEF NextMonth
  <1>2. This' = <<inv, Months[month']>> /\ This'[1] = inv
    BY <1>1 DEF This, Month
  <1>3. /\ StartExecution(This', "today") /\ polled' = With(polled, This', 0)
        /\ This'[1] # 0
    BY <1>2 DEF CanaryInv, CanaryTypes
  <1>4. /\ ExecutionInv' /\ Onward /\ This' \notin Started
        /\ Started' = Started \cup {This'}
    BY <1>3, StartKeeps DEF Day
  <1>5. Canaries' = Canaries \cup {This'} /\ This' \notin Canaries
    BY <1>3, <1>4 DEF Canaries
  <1>6. /\ \A x \in Canaries : polled'[x] = polled[x]
        /\ polled'[This'] = 0 /\ polled' \in [Canaries' -> 0..MaxPolls]
    <2>1. polled \in [Canaries -> 0..MaxPolls] /\ DOMAIN polled = Canaries
      BY DEF CanaryInv, CanaryTypes
    <2>2. polled' = [x \in Canaries' |-> IF x = This' THEN 0 ELSE polled[x]]
      BY <1>3, <1>5, <2>1 DEF With
    <2> QED BY <1>5, <2>1, <2>2, CanaryAssumption
  <1>7. \A x \in Canaries : ~Running(x) => ~Running(x)' /\ Status(x)' = Status(x)
    BY <1>4, EndedStays DEF Canaries, Status
  <1>8. CanaryTypes'
    <2>1. \A x \in Canaries' : x[1] \in 1..inv
      BY <1>2, <1>5 DEF CanaryInv, CanaryTypes
    <2>2. month' \in 0..Len(Months) /\ month' # 0
      BY <1>1, CanaryAssumption DEF CanaryInv, CanaryTypes
    <2>3. polls' \in 0..MaxPolls /\ polled'[This'] = polls'
      BY <1>1, <1>6, CanaryAssumption
    <2>4. /\ inv' \in Nat \ {0} /\ life' \in Nat
          /\ outcome' \in Seq({"returned", "failed", "timeout"})
          /\ cpc' = "wait" /\ Len(outcome') = inv' - 1
      BY <1>1 DEF CanaryInv, CanaryTypes
    <2> QED BY <1>1, <1>5, <1>6, <2>1, <2>2, <2>3, <2>4 DEF CanaryTypes
  <1>9. Alone'
    <2>1. \A x \in Canaries : ~Running(x) \/ Left(x)
      BY <1>1 DEF CanaryInv, Alone
    <2>2. \A x \in Canaries : ~Running(x)' \/ Left(x)'
      BY <1>1, <1>6, <1>7, <2>1 DEF Left
    <2> QED BY <1>5, <2>2 DEF Alone
  <1>10. \A x \in Canaries : Told(x) => Told(x)'
    BY <1>1, <1>6, <1>7 DEF Told
  <1>11. Complete'
    <2>1. inv \notin DOMAIN outcome
      BY <1>1 DEF CanaryInv, CanaryTypes
    <2> QED BY <1>1, <1>2, <1>5, <1>10, <2>1 DEF CanaryInv, Complete, InHand
  <1> QED BY <1>3, <1>4, <1>5, <1>8, <1>9, <1>11 DEF CanaryInv

LEMMA PollCanary ==
    ASSUME CanaryInv, Poll
    PROVE  CanaryInv'
  <1>1. /\ cpc = "wait" /\ seen' = Status(This) /\ This' = This
        /\ UNCHANGED <<executions, inv, month, results, outcome>>
    BY DEF Poll, This, Month
  <1>2. Canaries' = Canaries /\ \A x \in Canaries : Running(x)' = Running(x) /\ Status(x)' = Status(x)
    BY <1>1 DEF executions, Canaries, Started, Running, Status
  <1>t. /\ This \in Canaries /\ month # 0 /\ polled[This] = polls /\ polls \in 0..MaxPolls
        /\ life \in Nat /\ polled \in [Canaries -> 0..MaxPolls]
    BY <1>1 DEF CanaryInv, CanaryTypes, InHand
  <1>3. CASE Running(This) /\ polls < MaxPolls
    <2>1. /\ polls' = polls + 1 /\ life' = life + 1 /\ cpc' = "wait"
          /\ polled' = [polled EXCEPT ![This] = @ + 1]
      BY <1>1, <1>3 DEF Poll
    <2>2. /\ polled'[This] = polls' /\ polls' \in 0..MaxPolls
          /\ \A x \in Canaries \ {This} : polled'[x] = polled[x]
          /\ polled' \in [Canaries -> 0..MaxPolls]
      BY <1>3, <1>t, <2>1, CanaryAssumption
    <2>3. CanaryTypes'
      BY <1>1, <1>2, <1>t, <2>1, <2>2 DEF CanaryInv, CanaryTypes, InHand
    <2>4. polled[This] # MaxPolls
      BY <1>3, <1>t, CanaryAssumption
    <2>5. \A x \in Canaries : Left(x) => Left(x)'
      BY <1>1, <2>2, <2>4 DEF Left
    <2>6. Alone'
      BY <1>1, <1>2, <2>1, <2>5 DEF CanaryInv, Alone
    <2>7. \A x \in Canaries : Told(x) => Told(x)'
      BY <1>1, <1>2, <1>3, <2>2, <2>4 DEF Told
    <2>8. Complete'
      BY <1>1, <1>2, <2>1, <2>7 DEF CanaryInv, Complete, InHand
    <2> QED BY <2>3, <2>6, <2>8 DEF CanaryInv
  <1>4. CASE ~(Running(This) /\ polls < MaxPolls)
    <2>1. cpc' = "compare" /\ UNCHANGED <<polls, life, polled>>
      BY <1>1, <1>4 DEF Poll
    <2>2. CanaryTypes'
      BY <1>1, <1>2, <2>1 DEF CanaryInv, CanaryTypes, InHand
    <2>3. ~Running(This) \/ polled[This] = MaxPolls
      BY <1>4, <1>t, CanaryAssumption
    <2>4. Alone'
      BY <1>1, <1>2, <2>1, <2>3 DEF CanaryInv, Alone, Left
    <2>5. \A x \in Canaries : Told(x)' = Told(x)
      BY <1>1, <1>2, <2>1 DEF Told
    <2>6. Complete'
      BY <1>1, <1>2, <1>t, <2>1, <2>3, <2>5 DEF CanaryInv, Complete, InHand
    <2> QED BY <2>2, <2>4, <2>6 DEF CanaryInv
  <1> QED BY <1>3, <1>4

LEMMA ResultCanary ==
    ASSUME CanaryInv, PutResult
    PROVE  CanaryInv'
  <1>1. /\ cpc = "compare" /\ cpc' = "next" /\ This' = This
        /\ UNCHANGED <<executions, inv, month, polls, life, outcome, polled>>
        /\ results' = With(results, This,
              [sfn_status |-> seen, actual |-> ActualMetrics,
               drift |-> Drifted(ActualMetrics, Baseline[Month])])
    BY DEF PutResult, This, Month
  <1>2. Canaries' = Canaries /\ \A x \in Canaries : Running(x)' = Running(x) /\ Status(x)' = Status(x)
    BY <1>1 DEF executions, Canaries, Started, Running, Status
  <1>3. /\ This \in DOMAIN results' /\ results'[This].sfn_status = seen
        /\ \A x \in DOMAIN results : x \in DOMAIN results'
        /\ \A x \in DOMAIN results \ {This} : results'[x] = results[x]
    BY <1>1 DEF With
  <1>4. CanaryTypes'
    BY <1>1, <1>2 DEF CanaryInv, CanaryTypes, InHand
  <1>5. Alone'
    BY <1>1, <1>2 DEF CanaryInv, Alone, Left
  <1>6. Told(This)'
    BY <1>1, <1>2, <1>3 DEF CanaryInv, CanaryTypes, InHand, Complete, Told
  <1>7. \A x \in Canaries : Told(x) => Told(x)'
    BY <1>1, <1>2, <1>3, <1>6 DEF Told
  <1>8. Complete'
    BY <1>1, <1>2, <1>6, <1>7 DEF CanaryInv, Complete, InHand
  <1> QED BY <1>4, <1>5, <1>8 DEF CanaryInv

\* An invocation that is over has left its executions, and returns only when it
\* has told of them all.
LEMMA OverCanary ==
    ASSUME CanaryInv, NEW how \in {"returned", "failed", "timeout"}, Over(how),
           cpc # "ended", how = "returned" => cpc = "next",
           UNCHANGED <<executions, results, polled>>
    PROVE  CanaryInv'
  <1>1. /\ outcome' = Append(outcome, how) /\ month' = 0 /\ polls' = 0 /\ life' = 0
        /\ \/ inv' = inv + 1 /\ cpc' = "next"
           \/ inv' = inv /\ cpc' = "ended"
    BY DEF Over
  <1>2. Canaries' = Canaries /\ \A x \in Canaries : Running(x)' = Running(x) /\ Status(x)' = Status(x)
    BY DEF executions, Canaries, Started, Running, Status
  <1>t. /\ inv \in Nat \ {0} /\ Len(outcome) = inv - 1 /\ \A x \in Canaries : x[1] \in 1..inv
        /\ outcome \in Seq({"returned", "failed", "timeout"})
        /\ polled \in [Canaries -> 0..MaxPolls]
    BY DEF CanaryInv, CanaryTypes
  <1>3. CanaryTypes'
    <2>1. /\ outcome' \in Seq({"returned", "failed", "timeout"})
          /\ Len(outcome') = inv
      BY <1>1, <1>t
    <2>2. \A x \in Canaries : x[1] \in 1..inv'
      BY <1>1, <1>t
    <2> QED BY <1>1, <1>2, <1>t, <2>1, <2>2, CanaryAssumption DEF CanaryTypes, InHand
  <1>4. \A x \in Canaries : Left(x) => Left(x)'
    BY <1>1, <1>t DEF Left
  <1>5. Alone'
    <2>1. inv' = inv + 1 => \A x \in Canaries : Left(x)'
      BY <1>t DEF Left
    <2> QED BY <1>1, <1>2, <1>4, <2>1 DEF CanaryInv, Alone
  <1>6. \A x \in Canaries : Told(x) => Told(x)'
    BY <1>2 DEF Told
  <1>7. Complete'
    <2>1. ASSUME NEW x \in Canaries, x[1] \in DOMAIN outcome',
                 outcome'[x[1]] = "returned"
          PROVE  Told(x)
      <3>1. CASE x[1] = inv
        <4>1. how = "returned"
          BY <1>1, <1>t, <2>1, <3>1
        <4> QED BY <3>1, <4>1 DEF CanaryInv, Complete, InHand
      <3>2. CASE x[1] # inv
        <4>1. x[1] \in DOMAIN outcome /\ outcome[x[1]] = "returned"
          BY <1>1, <1>t, <2>1, <3>2
        <4> QED BY <4>1 DEF CanaryInv, Complete
      <3> QED BY <3>1, <3>2
    <2>2. cpc' # "ended" => \A x \in Canaries : x[1] # inv'
      BY <1>1, <1>t
    <2> QED BY <1>1, <1>2, <1>6, <2>1, <2>2 DEF Complete
  <1> QED BY <1>3, <1>5, <1>7 DEF CanaryInv

\* The two outcomes of NextMonth.
LEMMA NextMonthCases ==
    ASSUME NextMonth
    PROVE  \/ cpc' = "next" /\ UNCHANGED <<executions, polled>>
           \/ /\ StartExecution(<<inv, Months[month']>>, "today")
              /\ polled' = With(polled, <<inv, Months[month']>>, 0)
              /\ cpc' = "wait"
  BY DEF NextMonth

LEMMA CanaryStepKeeps ==
    ASSUME ExecutionInv, CanaryInv, CanaryNext
    PROVE  /\ ExecutionInv' /\ Onward /\ CanaryInv'
           /\ \A x \in Started' : x[1] = 0 => x \in Started
  <1>1. CASE NextMonth
    BY <1>1, NextMonthCases, SkipCanary, BeginCanary, IdleKeeps
  <1>2. CASE ~NextMonth
    <2>1. UNCHANGED executions
      BY <1>2 DEF CanaryNext, CanaryStep, Return, Poll, PutResult, CanaryTimesOut,
                  CanaryFails
    <2>2. CanaryInv'
      <3>1. CASE Return \/ CanaryFails \/ CanaryTimesOut
        BY <3>1, OverCanary DEF Return, CanaryFails, CanaryTimesOut
      <3> QED BY <1>2, <3>1, PollCanary, ResultCanary DEF CanaryNext, CanaryStep
    <2> QED BY <2>1, <2>2, IdleKeeps
  <1> QED BY <1>1, <1>2

-----------------------------------------------------------------------------
(* The time of an invocation                                               *)

LEMMA OneMonthMore ==
    ASSUME NEW spent \in Int, NEW p \in Int, NEW n \in Nat, NEW m \in Int, NEW b \in Nat,
           (spent - p) * n <= (m - 1) * b, p * n <= b
    PROVE  spent * n <= m * b
  <1>1. (spent - p) * n = spent * n - p * n /\ (m - 1) * b = m * b - b
    OBVIOUS
  <1>2. spent * n \in Int /\ p * n \in Int /\ m * b \in Int
    OBVIOUS
  <1> QED BY <1>1, <1>2

LEMMA NoMoreThanMost ==
    ASSUME NEW spent \in Nat, NEW n \in Nat \ {0}, NEW m \in 0..n, NEW b \in Nat,
           spent * n <= m * b
    PROVE  spent <= b
  <1>1. m * b <= n * b
    OBVIOUS
  <1>2. spent * n <= b * n
    BY <1>1
  <1>3. SUFFICES ASSUME spent >= b + 1 PROVE FALSE
    OBVIOUS
  <1>4. spent * n >= (b + 1) * n
    BY <1>3
  <1>5. (b + 1) * n = b * n + n
    OBVIOUS
  <1>6. b * n \in Int /\ spent * n \in Int /\ (b + 1) * n \in Int
    OBVIOUS
  <1> QED BY <1>2, <1>4, <1>5, <1>6

LEMMA TimeStays ==
    ASSUME TimeInv, UNCHANGED <<canary, Canaries>>
    PROVE  TimeInv'
  <1>1. This' = This /\ InHand' = InHand
    BY DEF canary, This, Month, InHand
  <1> QED BY <1>1 DEF TimeInv, SpentOn, Slow, canary

\* A month that is passed over costs nothing.
LEMMA SkipTime ==
    ASSUME CanaryInv, TimeInv, NextMonth, cpc' = "next", UNCHANGED <<executions, polled>>
    PROVE  TimeInv'
  <1>1. /\ cpc = "next" /\ month' = month + 1 /\ polls' = 0
        /\ UNCHANGED <<inv, life, outcome>>
    BY DEF NextMonth
  <1>2. Canaries' = Canaries
    BY DEF executions, Canaries, Started
  <1>3. month \in Int /\ life \in Nat /\ Len(Months) \in Nat
    BY CanaryAssumption DEF CanaryInv, CanaryTypes
  <1>4. ASSUME NEW b \in Nat, SpentOn(inv, b, InHand)'
        PROVE  life' * Len(Months) <= month' * b
    <2>1. SpentOn(inv, b, InHand)
      BY <1>1, <1>2, <1>4 DEF SpentOn, InHand
    <2>2. life * Len(Months) <= month * b
      BY <1>1, <2>1 DEF TimeInv, InHand
    <2>3. (month + 1) * b = month * b + b
      BY <1>3
    <2>4. life * Len(Months) \in Int /\ month * b \in Int
      BY <1>3
    <2> QED BY <1>1, <2>2, <2>3, <2>4
  <1>5. \A i \in DOMAIN outcome' : outcome'[i] = "timeout" => Slow(i)'
    BY <1>1, <1>2 DEF TimeInv, Slow
  <1> QED BY <1>1, <1>3, <1>4, <1>5 DEF TimeInv, InHand

\* An execution that starts has not been polled: the others are those of the
\* months before it.
LEMMA BeginTime ==
    ASSUME ExecutionInv, CanaryInv, TimeInv, NextMonth,
           StartExecution(<<inv, Months[month']>>, "today"),
           polled' = With(polled, <<inv, Months[month']>>, 0), cpc' = "wait"
    PROVE  TimeInv'
  <1>1. /\ cpc = "next" /\ month' = month + 1 /\ polls' = 0
        /\ UNCHANGED <<inv, life, outcome>>
    BY DEF NextMonth
  <1>2. /\ This' \notin Canaries /\ Canaries' = Canaries \cup {This'}
        /\ polled' = With(polled, This', 0)
    BY BeginCanary DEF Canaries
  <1>3. \A x \in Canaries : x # This' /\ x \in Canaries' /\ polled'[x] = polled[x]
    BY <1>2 DEF With, CanaryInv, CanaryTypes
  <1>4. month \in Int /\ life \in Nat
    BY DEF CanaryInv, CanaryTypes
  <1>5. ASSUME NEW b \in Nat, SpentOn(inv, b, InHand)'
        PROVE  (life' - polls') * Len(Months) <= (month' - 1) * b
    <2>1. SpentOn(inv, b, InHand)
      BY <1>1, <1>3, <1>5 DEF SpentOn, InHand
    <2>2. life * Len(Months) <= month * b
      BY <1>1, <2>1 DEF TimeInv, InHand
    <2>3. life' - polls' = life /\ month' - 1 = month
      BY <1>1, <1>4
    <2> QED BY <2>2, <2>3
  <1>6. \A i \in DOMAIN outcome' : outcome'[i] = "timeout" => Slow(i)'
    BY <1>1, <1>3 DEF TimeInv, Slow
  <1> QED BY <1>1, <1>4, <1>5, <1>6 DEF TimeInv, InHand

\* A poll adds as much to the invocation's time as to its execution's polls.
LEMMA PollTime ==
    ASSUME CanaryInv, TimeInv, Poll
    PROVE  TimeInv'
  <1>1. /\ cpc = "wait" /\ This' = This /\ cpc' \in {"wait", "compare"}
        /\ UNCHANGED <<executions, inv, month, outcome>>
    BY DEF Poll, This, Month
  <1>2. Canaries' = Canaries
    BY <1>1 DEF executions, Canaries, Started
  <1>3. /\ This \in Canaries /\ polls \in Nat /\ life \in Nat /\ polled[This] = polls
        /\ polled \in [Canaries -> 0..MaxPolls]
    BY <1>1, CanaryAssumption DEF CanaryInv, CanaryTypes, InHand
  <1>4. /\ life' - polls' = life - polls /\ polls' <= life'
        /\ \A x \in Canaries : polled'[x] \in Nat /\ polled'[x] >= polled[x]
        /\ \A x \in Canaries : x # This => polled'[x] = polled[x]
    <2>1. CASE UNCHANGED <<polls, life, polled>>
      BY <1>3, <2>1, CanaryAssumption DEF TimeInv
    <2>2. CASE /\ polls' = polls + 1 /\ life' = life + 1
               /\ polled' = [polled EXCEPT ![This] = @ + 1]
      BY <1>3, <2>2, CanaryAssumption DEF TimeInv
    <2> QED BY <2>1, <2>2 DEF Poll
  <1>5. ASSUME NEW b \in Nat, SpentOn(inv, b, InHand)'
        PROVE  (life' - polls') * Len(Months) <= (month' - 1) * b
    <2>1. SpentOn(inv, b, InHand)
      BY <1>1, <1>2, <1>4, <1>5 DEF SpentOn, InHand
    <2>2. (life - polls) * Len(Months) <= (month - 1) * b
      BY <1>1, <2>1 DEF TimeInv, InHand
    <2> QED BY <1>1, <1>4, <2>2
  <1>6. \A x \in Canaries : polled'[x] * Len(Months) >= polled[x] * Len(Months)
    <2> SUFFICES ASSUME NEW x \in Canaries
                 PROVE  polled'[x] * Len(Months) >= polled[x] * Len(Months)
      OBVIOUS
    <2>1. polled[x] \in Nat /\ polled'[x] \in Nat /\ polled'[x] >= polled[x]
      BY <1>3, <1>4, CanaryAssumption
    <2>2. \A p, q, n \in Nat : q >= p => q * n >= p * n
      OBVIOUS
    <2> QED BY <2>1, <2>2, CanaryAssumption
  <1>7. ASSUME NEW i \in DOMAIN outcome', outcome'[i] = "timeout"
        PROVE  Slow(i)'
    <2>1. PICK x \in Canaries : x[1] = i /\ polled[x] * Len(Months) >= LambdaPolls
      BY <1>1, <1>7 DEF TimeInv, Slow
    <2>2. \A p, q \in Nat, n \in Nat : q * n \in Int /\ p * n \in Int
      OBVIOUS
    <2>3. polled'[x] * Len(Months) >= LambdaPolls
      BY <1>3, <1>4, <1>6, <2>1, <2>2, CanaryAssumption
    <2> QED BY <1>2, <2>1, <2>3 DEF Slow
  <1> QED BY <1>1, <1>4, <1>5, <1>7 DEF TimeInv, InHand

\* The month's execution joins those before it.
LEMMA ResultTime ==
    ASSUME CanaryInv, TimeInv, PutResult
    PROVE  TimeInv'
  <1>1. /\ cpc = "compare" /\ cpc' = "next" /\ This' = This
        /\ UNCHANGED <<executions, inv, month, polls, life, outcome, polled>>
    BY DEF PutResult, This, Month
  <1>2. Canaries' = Canaries
    BY <1>1 DEF executions, Canaries, Started
  <1>3. /\ This \in Canaries /\ polled[This] = polls /\ polls \in Nat /\ life \in Nat
        /\ month \in Int /\ Len(Months) \in Nat
    BY <1>1, CanaryAssumption DEF CanaryInv, CanaryTypes, InHand
  <1>4. ASSUME NEW b \in Nat, SpentOn(inv, b, InHand)'
        PROVE  life' * Len(Months) <= month' * b
    <2>1. SpentOn(inv, b, InHand) /\ polls * Len(Months) <= b
      BY <1>1, <1>2, <1>3, <1>4 DEF SpentOn, InHand, This
    <2>2. (life - polls) * Len(Months) <= (month - 1) * b
      BY <1>1, <2>1 DEF TimeInv, InHand
    <2> QED BY <1>1, <1>3, <2>1, <2>2, OneMonthMore
  <1>5. \A i \in DOMAIN outcome' : outcome'[i] = "timeout" => Slow(i)'
    BY <1>1, <1>2 DEF TimeInv, Slow
  <1> QED BY <1>1, <1>4, <1>5 DEF TimeInv, InHand

\* When the time of an invocation is up and no execution took its share of it,
\* less than all of it was spent.
LEMMA TimeIsUp ==
    ASSUME CanaryInv, TimeInv, cpc # "ended", ~TimeLeft, cpc = "next" => month < Len(Months)
    PROVE  Slow(inv)
  <1> SUFFICES ASSUME ~Slow(inv) PROVE FALSE
    OBVIOUS
  <1> DEFINE b == LambdaPolls - 1
             n == Len(Months)
  <1>1. /\ b \in Nat /\ n \in Nat \ {0} /\ month \in 0..n /\ life \in Nat /\ polls \in Nat
        /\ polled \in [Canaries -> 0..MaxPolls]
        /\ InHand => This \in Canaries /\ polled[This] = polls
    <2>1. n \in Nat /\ month \in 0..n /\ (InHand => month # 0)
      BY CanaryAssumption DEF CanaryInv, CanaryTypes
    <2>2. cpc = "next" \/ InHand
      BY DEF CanaryInv, CanaryTypes, InHand
    <2>3. n # 0
      BY <2>1, <2>2
    <2> QED BY <2>1, <2>3, CanaryAssumption DEF CanaryInv, CanaryTypes
  <1>2. \A x \in Canaries : x[1] = inv => polled[x] * n <= b
    <2> SUFFICES ASSUME NEW x \in Canaries, x[1] = inv PROVE polled[x] * n <= b
      OBVIOUS
    <2>1. ~(polled[x] * n >= LambdaPolls)
      BY DEF Slow
    <2>2. polled[x] \in Nat
      BY <1>1, CanaryAssumption
    <2>3. polled[x] * n \in Int
      BY <1>1, <2>2
    <2> QED BY <2>1, <2>3, CanaryAssumption
  <1>3. SpentOn(inv, b, InHand)
    BY <1>2 DEF SpentOn
  <1>4. IF InHand THEN (life - polls) * n <= (month - 1) * b ELSE life * n <= month * b
    BY <1>1, <1>3 DEF TimeInv
  <1>5. life * n <= month * b
    <2>1. CASE InHand
      <3>1. polls * n <= b
        BY <1>1, <1>2, <2>1 DEF This
      <3> QED BY <1>1, <1>4, <2>1, <3>1, OneMonthMore
    <2> QED BY <1>4, <2>1
  <1>6. life <= b
    <2> HIDE DEF b, n
    <2> QED BY <1>1, <1>5, NoMoreThanMost
  <1> QED BY <1>1, <1>6, CanaryAssumption DEF TimeLeft

LEMMA OverTime ==
    ASSUME CanaryInv, TimeInv, NEW how \in {"returned", "failed", "timeout"}, Over(how),
           how = "timeout" => Slow(inv), cpc # "ended", UNCHANGED <<executions, polled>>
    PROVE  TimeInv'
  <1>1. /\ outcome' = Append(outcome, how) /\ month' = 0 /\ polls' = 0 /\ life' = 0
        /\ cpc' \in {"next", "ended"}
    BY DEF Over
  <1>2. Canaries' = Canaries
    BY DEF executions, Canaries, Started
  <1>3. outcome \in Seq({"returned", "failed", "timeout"}) /\ Len(outcome) = inv - 1
    BY DEF CanaryInv, CanaryTypes
  <1>4. ASSUME NEW i \in DOMAIN outcome', outcome'[i] = "timeout"
        PROVE  Slow(i)'
    <2>1. Slow(i)
      <3>1. CASE i \in DOMAIN outcome
        BY <1>1, <1>3, <1>4, <3>1 DEF TimeInv
      <3>2. CASE i \notin DOMAIN outcome
        <4>1. i = inv /\ how = "timeout"
          BY <1>1, <1>3, <1>4, <3>2 DEF CanaryInv, CanaryTypes
        <4> QED BY <4>1
      <3> QED BY <3>1, <3>2
    <2> QED BY <1>2, <2>1 DEF Slow
  <1>5. \A b \in Nat : life' * Len(Months) <= month' * b
    BY <1>1, CanaryAssumption
  <1> QED BY <1>1, <1>4, <1>5 DEF TimeInv, InHand

LEMMA CanaryStepTime ==
    ASSUME ExecutionInv, CanaryInv, TimeInv, CanaryNext
    PROVE  TimeInv'
  <1>1. CASE NextMonth
    BY <1>1, NextMonthCases, SkipTime, BeginTime
  <1>2. CASE Return
    BY <1>2, OverTime DEF Return
  <1>3. CASE Poll
    BY <1>3, PollTime
  <1>4. CASE PutResult
    BY <1>4, ResultTime
  <1>5. CASE CanaryTimesOut
    BY <1>5, OverTime, TimeIsUp DEF CanaryTimesOut
  <1>6. CASE CanaryFails
    BY <1>6, OverTime DEF CanaryFails
  <1> QED BY <1>1, <1>2, <1>3, <1>4, <1>5, <1>6 DEF CanaryNext, CanaryStep

-----------------------------------------------------------------------------
(* The theorems                                                            *)

AllInv == ProbesInv /\ TimeInv

LEMMA InitProbes == Init => AllInv
  <1> SUFFICES ASSUME Init PROVE AllInv
    OBVIOUS
  <1> USE DEF Init, NoExecutions, CanaryInit, AdversarialInit
  <1>1. Started = {} /\ DOMAIN runs = {} /\ Canaries = {} /\ DOMAIN verdicts = {}
    BY DEF Started, Canaries
  <1>2. ExecutionInv
    <2>1. execution \in [{} -> Execution]
      OBVIOUS
    <2> QED BY <1>1, <2>1 DEF ExecutionInv
  <1>3. CaseInv
    BY <1>1 DEF CaseInv
  <1>4. CanaryTypes
    <2>1. polled \in [{} -> 0..MaxPolls]
      OBVIOUS
    <2> QED BY <1>1, <2>1, CanaryAssumption DEF CanaryTypes, InHand
  <1>5. Alone /\ Complete
    BY <1>1 DEF Alone, Complete
  <1>6. TimeInv
    BY <1>1, CanaryAssumption DEF TimeInv, InHand
  <1> QED BY <1>2, <1>3, <1>4, <1>5, <1>6 DEF AllInv, ProbesInv, CanaryInv

LEMMA NextProbes == AllInv /\ [Next]_vars => AllInv'
  <1> SUFFICES ASSUME AllInv, [Next]_vars PROVE AllInv'
    OBVIOUS
  <1> USE DEF AllInv, ProbesInv
  <1>1. CASE CanaryNext /\ UNCHANGED adversarial
    <2>1. /\ ExecutionInv' /\ Onward /\ CanaryInv'
          /\ \A x \in Started' : x[1] = 0 => x \in Started
      BY <1>1, CanaryStepKeeps
    <2>2. CaseInv'
      BY <1>1, <2>1, CaseElsewhere
    <2> QED BY <1>1, <2>1, <2>2, CanaryStepTime
  <1>2. CASE AdversarialNext /\ UNCHANGED canary
    <2>1. /\ ExecutionInv' /\ Onward /\ CaseInv'
          /\ \A x \in Started' : x[1] # 0 => x \in Started
      BY <1>2, CaseStep
    <2>2. CanaryInv'
      BY <1>2, <2>1, CanaryElsewhere
    <2>3. Canaries' = Canaries
      BY <2>1 DEF Onward, Canaries
    <2> QED BY <1>2, <2>1, <2>2, <2>3, TimeStays
  <1>3. ASSUME UNCHANGED <<canary, adversarial>>,
               (\E x \in Started : Pipeline(x)) \/ UNCHANGED executions
        PROVE  AllInv'
    <2>1. ExecutionInv' /\ Onward /\ Started' = Started
      BY <1>3, PipelineKeeps, IdleKeeps
    <2>2. CaseInv' /\ CanaryInv'
      BY <1>3, <2>1, CaseElsewhere, CanaryElsewhere
    <2>3. Canaries' = Canaries
      BY <2>1 DEF Canaries
    <2> QED BY <1>3, <2>1, <2>2, <2>3, TimeStays
  <1> QED BY <1>1, <1>2, <1>3 DEF Next, vars

LEMMA AlwaysAllInv == Spec => []AllInv
  BY InitProbes, NextProbes, PTL DEF Spec

\* Two executions that share a run id and a key run at once only when the
\* earlier one was given up: sfn_client.py starts the next after the last poll.
THEOREM ProbesRunAlone == Spec => []OneAtATime
  <1>1. AllInv => OneAtATime
    <2> SUFFICES ASSUME AllInv, NEW x \in Started, NEW y \in Started,
                        Running(x), Running(y), x # y, execution[x].day = execution[y].day
                 PROVE  GivenUp(x) \/ GivenUp(y)
      BY DEF OneAtATime
    <2> USE DEF AllInv, ProbesInv
    <2>1. CASE x[1] = 0 /\ y[1] = 0
      BY <2>1 DEF CaseInv, GivenUp
    <2>2. CASE x[1] # 0 /\ y[1] # 0
      BY <2>2 DEF CanaryInv, Alone, Canaries, Left, GivenUp
    <2>3. (x[1] = 0) <=> (y[1] = 0)
      BY DEF ExecutionInv
    <2> QED BY <2>1, <2>2, <2>3
  <1> QED BY <1>1, AlwaysAllInv, PTL

\* handler.py returns only after a put for every month whose execution it
\* started, with what the execution ended in unless it stopped waiting.
THEOREM CanaryReturnsAllResults == Spec => []ReturnedCanaryIsComplete
  <1>1. AllInv => ReturnedCanaryIsComplete
    <2> SUFFICES ASSUME AllInv, NEW x \in Started,
                        x[1] \in DOMAIN outcome, outcome[x[1]] = "returned"
                 PROVE  /\ x \in DOMAIN results
                        /\ results[x].sfn_status = Status(x) \/ polled[x] = MaxPolls
      BY DEF ReturnedCanaryIsComplete
    <2>1. x \in Canaries
      BY DEF AllInv, ProbesInv, CanaryInv, CanaryTypes, Canaries
    <2> QED BY <2>1 DEF AllInv, ProbesInv, CanaryInv, Complete, Told
  <1> QED BY <1>1, AlwaysAllInv, PTL

\* For any number of months and any Lambda timeout: the invocation that runs
\* out of time polled some execution for its share of the time or more.
THEOREM PromptCanaryIsInTime == Spec => []PromptRunsAreAllReported
  <1>1. AllInv => PromptRunsAreAllReported
    BY DEF AllInv, ProbesInv, CanaryInv, CanaryTypes, TimeInv, Slow,
           PromptRunsAreAllReported
  <1> QED BY <1>1, AlwaysAllInv, PTL

\* A passed case has an execution that succeeded with an accepted score, when
\* the test ended and ever since.
THEOREM CasesEarnTheirVerdicts == Spec => []VerdictsAreEarned
  <1>1. AllInv => VerdictsAreEarned
    BY DEF AllInv, ProbesInv, CaseInv, Earned, VerdictsAreEarned
  <1> QED BY <1>1, AlwaysAllInv, PTL

\* A baseline that asks for some score above 0.
Demanding(baseline) ==
    \E m \in {"judge_faithfulness", "judge_completeness"}
          \cap DOMAIN baseline.tolerance \cap DOMAIN baseline.expected :
       baseline.expected[m] - baseline.tolerance[m] > 0

\* No run is ever found under the id the canary looks up, so with baselines
\* that ask for anything every result reports drift, of unhealthy and of
\* healthy executions alike.
THEOREM EveryResultDrifts ==
    ASSUME \A i \in DOMAIN Months : Demanding(Baseline[Months[i]])
    PROVE  Spec => [](DriftInv /\ UnhealthyRunsDrift)
  <1>1. Init => DriftInv
    BY DEF Init, CanaryInit, DriftInv
  <1>2. AllInv /\ DriftInv /\ [Next]_vars => DriftInv'
    <2> SUFFICES ASSUME AllInv, DriftInv, [Next]_vars PROVE DriftInv'
      OBVIOUS
    <2>1. CASE UNCHANGED results
      BY <2>1 DEF DriftInv
    <2>2. CASE PutResult
      <3>1. month \in DOMAIN Months
        BY <2>2, CanaryAssumption
           DEF PutResult, AllInv, ProbesInv, CanaryInv, CanaryTypes, InHand
      <3>2. RunRecord = None
        BY DEF RunRecord, AllInv, ProbesInv, ExecutionInv
      <3>3. ActualMetrics = [m \in {"judge_faithfulness", "judge_completeness"} |-> 0]
        BY <3>2 DEF ActualMetrics
      <3>4. PICK m \in {"judge_faithfulness", "judge_completeness"}
                       \cap DOMAIN Baseline[Month].tolerance
                       \cap DOMAIN Baseline[Month].expected :
               Baseline[Month].expected[m] - Baseline[Month].tolerance[m] > 0
        BY <3>1 DEF Demanding, Month
      <3>5. Drifted(ActualMetrics, Baseline[Month])
        BY <3>3, <3>4 DEF Drifted
      <3> QED BY <2>2, <3>5 DEF PutResult, With, DriftInv
    <2> QED BY <2>1, <2>2 DEF Next, vars, canary, CanaryNext, CanaryStep, NextMonth, Return,
                              Poll, CanaryTimesOut, CanaryFails
  <1>3. DriftInv => UnhealthyRunsDrift
    BY DEF DriftInv, UnhealthyRunsDrift
  <1> QED BY <1>1, <1>2, <1>3, AlwaysAllInv, PTL DEF Spec
=============================================================================
