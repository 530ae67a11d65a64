---------------------------- MODULE ExtractProofs ----------------------------
(***************************************************************************)
(* From the servers to the findings, for any configuration, estate and     *)
(* text of the CSV: what the extractor puts is what the configured         *)
(* databases answered, and what the rules raise on the rows they read back *)
(* is what the servers hold.  The invariant follows the two nested loops   *)
(* of the extractor by the set of databases already asked.  And what the   *)
(* rules raise on the repository's synthetic rows, at any time.            *)
(***************************************************************************)
EXTENDS Scenarios, FiniteSetTheorems, TLAPS

-----------------------------------------------------------------------------
(* The invariants                                                          *)

Position(a, b) == a \in DOMAIN Config /\ b \in DOMAIN Config[a].databases
SlotAt(a, b) == <<Config[a].databases[b], Config[a].server>>
Answer(a, b, n) == RowOf(Logins[n], Config[a].server, Config[a].databases[b])
Answers ==
    UNION {UNION {{Answer(a, b, n) : n \in DOMAIN Logins} : b \in DOMAIN Config[a].databases} :
              a \in DOMAIN Config}

\* The databases the loops have left behind.
Asked(a, b) ==
    \/ a < at
    \/ a = at /\ b < db

\* Where the loops stand at each step.
LoopInv ==
    /\ pc \in {"start", "connect", "query", "connect_db", "query_db", "decide", "put", "done",
               "failed"}
    /\ pc = "start" => at = 1 /\ db = 1 /\ rows = <<>> /\ failures = {}
    /\ pc \in {"connect", "query"} => at \in DOMAIN Config /\ db = 1
    /\ pc \in {"connect_db", "query_db"} => Position(at, db)
    /\ pc \in {"decide", "put", "done"} => at = Len(Config) + 1
    /\ pc \in {"put", "done"} => failures = {}
    /\ pc \notin {"start", "failed"} => estate \in Estate

\* The rows are answers of the databases asked, and without a failure all of
\* them.
RowsInv ==
    /\ rows \in Seq(Answers)
    /\ \A i \in DOMAIN rows : \E a, b :
          Position(a, b) /\ Asked(a, b) /\ rows[i].database = SlotAt(a, b)
    /\ failures = {} => \A a, b : Position(a, b) /\ Asked(a, b) =>
          \A n \in DOMAIN Logins : \E i \in DOMAIN rows : rows[i] = Answer(a, b, n)

\* No login has two rows of a database.
NoRowTwice ==
    \A i, j \in DOMAIN rows :
        rows[i].login = rows[j].login /\ rows[i].database = rows[j].database => i = j

\* The CSV is that of the rows, the findings are those of the CSV.
DoneInv ==
    /\ csv # None => pc = "done"
    /\ pc = "done" => csv = Decoded(rows)
    /\ found # None => pc = "done" /\ now \in Clock /\ found = RunRules(csv, now)

ExtractInv == DoneInv /\ (Live => LoopInv /\ RowsInv)

\* The configuration names each server and each of its databases once, and a
\* login is listed once.
NamedOnce ==
    /\ \A a, c \in DOMAIN Config : Config[a].server = Config[c].server => a = c
    /\ \A a \in DOMAIN Config : \A b, c \in DOMAIN Config[a].databases :
          Config[a].databases[b] = Config[a].databases[c] => b = c
    /\ \A n, m \in DOMAIN Logins : Logins[n] = Logins[m] => n = m

-----------------------------------------------------------------------------
(* The loops                                                               *)

LEMMA SequenceIs ==
    ASSUME NEW S, NEW s \in Seq(S)
    PROVE  Len(s) \in Nat /\ DOMAIN s = 1..Len(s) /\ \A i \in DOMAIN s : s[i] \in S
  OBVIOUS

LEMMA ConcatIs ==
    ASSUME NEW S, NEW s \in Seq(S), NEW t \in Seq(S)
    PROVE  /\ s \o t \in Seq(S) /\ DOMAIN (s \o t) = 1..Len(s) + Len(t)
           /\ \A i \in 1..Len(s) : (s \o t)[i] = s[i]
           /\ \A n \in 1..Len(t) : (s \o t)[Len(s) + n] = t[n]
  OBVIOUS

LEMMA Configured ==
    /\ Len(Config) \in Nat \ {0} /\ DOMAIN Config = 1..Len(Config)
    /\ Len(Logins) \in Nat /\ DOMAIN Logins = 1..Len(Logins)
    /\ \A a \in DOMAIN Config :
          /\ Len(Config[a].databases) \in Nat
          /\ DOMAIN Config[a].databases = 1..Len(Config[a].databases)
  <1>1. /\ Len(Config) \in Nat /\ DOMAIN Config = 1..Len(Config) /\ Len(Config) # 0
        /\ \A a \in DOMAIN Config : Config[a] \in [server : STRING, databases : Seq(STRING)]
    <2>1. Config \in Seq([server : STRING, databases : Seq(STRING)]) /\ Config # <<>>
      BY ExtractAssumption
    <2>2. Len(Config) # 0
      BY <2>1
    <2> QED BY <2>1, <2>2, SequenceIs
  <1>2. Len(Logins) \in Nat /\ DOMAIN Logins = 1..Len(Logins)
    BY ExtractAssumption
  <1>3. \A a \in DOMAIN Config : Config[a].databases \in Seq(STRING)
    BY <1>1
  <1> QED BY <1>1, <1>2, <1>3

LEMMA LoginsAre == Len(Logins) \in Nat /\ DOMAIN Logins = 1..Len(Logins)
  BY Configured

LEMMA SomeLogins ==
    /\ \A m \in 0..Len(Logins) : \A n \in 1..m : n \in DOMAIN Logins
    /\ \A m \in 0..Len(Logins) - 1 : m \in 0..Len(Logins)
  BY LoginsAre

LEMMA PositionIs ==
    ASSUME NEW a, NEW b, Position(a, b)
    PROVE  a \in Nat \ {0} /\ b \in Nat \ {0} /\ Config[a].databases \in Seq(STRING)
  <1>1. Config \in Seq([server : STRING, databases : Seq(STRING)])
    BY ExtractAssumption
  <1>2. Config[a] \in [server : STRING, databases : Seq(STRING)]
    BY <1>1, SequenceIs DEF Position
  <1>3. a \in Nat \ {0}
    BY <1>1, SequenceIs DEF Position
  <1>4. b \in 1..Len(Config[a].databases) /\ Len(Config[a].databases) \in Nat
    BY <1>2, SequenceIs DEF Position
  <1> QED BY <1>2, <1>3, <1>4

\* The database at hand joins those asked, and no other.
LEMMA DatabaseAsked ==
    ASSUME Position(at, db), NextDatabase
    PROVE  /\ \A a, b : Position(a, b) => (Asked(a, b)' <=> Asked(a, b) \/ (a = at /\ b = db))
           /\ \/ pc' = "connect_db" /\ Position(at', db')
              \/ pc' = "connect" /\ at' \in DOMAIN Config /\ db' = 1
              \/ pc' = "decide" /\ at' = Len(Config) + 1
  <1>1. CASE db < Len(Config[at].databases) /\ db' = db + 1 /\ pc' = "connect_db" /\ at' = at
    <2>1. \A a, b : Position(a, b) => (Asked(a, b)' <=> Asked(a, b) \/ (a = at /\ b = db))
      <3> SUFFICES ASSUME NEW a, NEW b, Position(a, b)
                   PROVE  Asked(a, b)' <=> Asked(a, b) \/ (a = at /\ b = db)
        OBVIOUS
      <3>1. a \in Nat /\ b \in Nat /\ at \in Nat /\ db \in Nat
        BY Configured DEF Position
      <3> QED BY <1>1, <3>1 DEF Asked
    <2>2. Position(at', db')
      BY <1>1, Configured DEF Position
    <2> QED BY <1>1, <2>1, <2>2
  <1>2. CASE db >= Len(Config[at].databases) /\ NextServer
    <2>1. at' = at + 1 /\ db' = 1 /\ pc' = IF at < Len(Config) THEN "connect" ELSE "decide"
      BY <1>2 DEF NextServer
    <2>2. \A a, b : Position(a, b) => (Asked(a, b)' <=> Asked(a, b) \/ (a = at /\ b = db))
      <3> SUFFICES ASSUME NEW a, NEW b, Position(a, b)
                   PROVE  Asked(a, b)' <=> Asked(a, b) \/ (a = at /\ b = db)
        OBVIOUS
      <3>1. /\ a \in Nat /\ b \in 1..Len(Config[a].databases) /\ at \in Nat /\ db \in Nat
            /\ Len(Config[a].databases) \in Nat
        BY Configured DEF Position
      <3>2. a = at => b <= db
        BY <1>2, <3>1
      <3>3. b >= 1
        BY <3>1
      <3> QED BY <2>1, <3>1, <3>2, <3>3 DEF Asked
    <2>3. \/ pc' = "connect" /\ at' \in DOMAIN Config /\ db' = 1
          \/ pc' = "decide" /\ at' = Len(Config) + 1
      <3>1. at \in 1..Len(Config) /\ Len(Config) \in Nat /\ DOMAIN Config = 1..Len(Config)
        BY Configured DEF Position
      <3> QED BY <2>1, <3>1
    <2> QED BY <2>2, <2>3
  <1> QED BY <1>1, <1>2 DEF NextDatabase

\* A server left early: its databases count as asked, at the price of a failure
\* unless it has none.
LEMMA ServerAsked ==
    ASSUME at \in DOMAIN Config, db = 1, NextServer
    PROVE  /\ \A a, b : Position(a, b) => (Asked(a, b)' <=> Asked(a, b) \/ a = at)
           /\ \/ pc' = "connect" /\ at' \in DOMAIN Config /\ db' = 1
              \/ pc' = "decide" /\ at' = Len(Config) + 1
  <1>1. at' = at + 1 /\ db' = 1 /\ pc' = IF at < Len(Config) THEN "connect" ELSE "decide"
    BY DEF NextServer
  <1>2. \A a, b : Position(a, b) => (Asked(a, b)' <=> Asked(a, b) \/ a = at)
    <2> SUFFICES ASSUME NEW a, NEW b, Position(a, b)
                 PROVE  Asked(a, b)' <=> Asked(a, b) \/ a = at
      OBVIOUS
    <2>1. a \in Nat /\ b \in Nat /\ b >= 1 /\ at \in Nat
      BY Configured DEF Position
    <2> QED BY <1>1, <2>1 DEF Asked
  <1>3. \/ pc' = "connect" /\ at' \in DOMAIN Config /\ db' = 1
        \/ pc' = "decide" /\ at' = Len(Config) + 1
    BY <1>1, Configured
  <1> QED BY <1>2, <1>3

-----------------------------------------------------------------------------
(* The rows                                                                *)

LEMMA AnswerIs ==
    ASSUME NEW a, NEW b, NEW n
    PROVE  /\ Answer(a, b, n).login = Logins[n]
           /\ Answer(a, b, n).database = SlotAt(a, b)
  BY DEF Answer, RowOf, SlotAt

\* A database has answered for the first m logins.
LEMMA RowsGrow ==
    ASSUME Live, LoopInv, RowsInv, Position(at, db), UNCHANGED estate, NEW m \in 0..Len(Logins),
           rows' = rows \o SubSeq(RowsOf(Server, Database), 1, m)
    PROVE  \E k \in Nat :
              /\ k = Len(rows) /\ DOMAIN rows = 1..k /\ DOMAIN rows' = 1..k + m
              /\ \A i \in 1..k : rows'[i] = rows[i]
              /\ \A n \in 1..m : rows'[k + n] = Answer(at, db, n)
              /\ rows' \in Seq(Answers)
  <1> DEFINE new == SubSeq(RowsOf(Server, Database), 1, m)
             all == [n \in 1..Len(Logins) |-> Answer(at, db, n)]
  <1>1. RowsOf(Server, Database) = all
    BY DEF RowsOf, Answer, Server, Database
  <1>2. all \in Seq(Answers) /\ Len(all) = Len(Logins)
    <2>1. \A n \in 1..Len(Logins) : Answer(at, db, n) \in Answers
      BY Configured DEF Answers, Position
    <2> QED BY <2>1, Configured
  <1>3. new \in Seq(Answers) /\ Len(new) = m /\ \A n \in 1..m : new[n] = all[n]
    <2> HIDE DEF all
    <2> QED BY <1>1, <1>2, Configured
  <1>4. rows \in Seq(Answers)
    BY DEF RowsInv
  <1> HIDE DEF new
  <1>5. rows' = rows \o new
    BY DEF new
  <1>6. \A n \in 1..m : new[n] = Answer(at, db, n)
    <2>1. \A n \in 1..m : n \in 1..Len(Logins)
      BY Configured
    <2> QED BY <1>3, <2>1
  <1> HIDE DEF all
  <1>7. /\ Len(rows) \in Nat /\ DOMAIN rows = 1..Len(rows) /\ rows' \in Seq(Answers)
        /\ DOMAIN rows' = 1..Len(rows) + m
        /\ \A i \in 1..Len(rows) : rows'[i] = rows[i]
        /\ \A n \in 1..m : rows'[Len(rows) + n] = new[n]
    <2>1. /\ Len(rows) \in Nat /\ DOMAIN rows = 1..Len(rows)
          /\ rows' \in Seq(Answers) /\ DOMAIN rows' = 1..Len(rows) + Len(new)
          /\ \A i \in 1..Len(rows) : rows'[i] = rows[i]
          /\ \A n \in 1..Len(new) : rows'[Len(rows) + n] = new[n]
      <3>1. Len(rows) \in Nat /\ DOMAIN rows = 1..Len(rows)
        BY <1>4, SequenceIs
      <3>2. rows \in Seq(Answers) /\ new \in Seq(Answers)
        BY <1>3, <1>4
      <3>3. /\ rows \o new \in Seq(Answers) /\ DOMAIN (rows \o new) = 1..Len(rows) + Len(new)
            /\ \A i \in 1..Len(rows) : (rows \o new)[i] = rows[i]
            /\ \A n \in 1..Len(new) : (rows \o new)[Len(rows) + n] = new[n]
        BY <3>2, ConcatIs
      <3> QED BY <1>5, <3>1, <3>3
    <2> QED BY <1>3, <2>1
  <1> QED BY <1>6, <1>7

LEMMA AnswersStay ==
    ASSUME UNCHANGED estate
    PROVE  Answers' = Answers /\ \A a, b, n : Answer(a, b, n)' = Answer(a, b, n)
  BY DEF Answers, Answer, RowOf, Profile

LEMMA RowsStep ==
    ASSUME Live, LoopInv, RowsInv, Position(at, db), UNCHANGED estate, NEW m \in 0..Len(Logins),
           rows' = rows \o SubSeq(RowsOf(Server, Database), 1, m), NextDatabase,
           failures' = {} => failures = {} /\ m = Len(Logins)
    PROVE  RowsInv' /\ (NamedOnce /\ NoRowTwice => NoRowTwice')
  <1>1. PICK k \in Nat :
              /\ k = Len(rows) /\ DOMAIN rows = 1..k /\ DOMAIN rows' = 1..k + m
              /\ \A i \in 1..k : rows'[i] = rows[i]
              /\ \A n \in 1..m : rows'[k + n] = Answer(at, db, n)
              /\ rows' \in Seq(Answers)
    BY RowsGrow
  <1>2. \A a, b : Position(a, b) => (Asked(a, b)' <=> Asked(a, b) \/ (a = at /\ b = db))
    BY DatabaseAsked
  <1>3. ~Asked(at, db)
    <2>1. at \in Nat /\ db \in Nat
      BY PositionIs
    <2> QED BY <2>1 DEF Asked
  <1>4. \A i \in 1..k + m : i \in 1..k \/ \E n \in 1..m : i = k + n
    <2> SUFFICES ASSUME NEW i \in 1..k + m, i \notin 1..k
                 PROVE  \E n \in 1..m : i = k + n
      OBVIOUS
    <2>1. i - k \in 1..m /\ i = k + (i - k)
      OBVIOUS
    <2> QED BY <2>1
  <1>5. \A n \in 1..m : n \in DOMAIN Logins
    BY SomeLogins
  <1>6. ASSUME NEW i \in 1..k + m
        PROVE  \E a, b : Position(a, b) /\ Asked(a, b)' /\ rows'[i].database = SlotAt(a, b)
    <2>1. CASE i \in 1..k
      BY <1>1, <1>2, <2>1 DEF RowsInv
    <2>2. CASE \E n \in 1..m : i = k + n
      BY <1>1, <1>2, <2>2, AnswerIs
    <2> QED BY <1>4, <2>1, <2>2
  <1>7. ASSUME failures' = {}, NEW a, NEW b, Position(a, b), Asked(a, b)', NEW n \in DOMAIN Logins
        PROVE  \E i \in 1..k + m : rows'[i] = Answer(a, b, n)
    <2>1. CASE Asked(a, b)
      <3>1. PICK i \in 1..k : rows[i] = Answer(a, b, n)
        BY <1>1, <1>7, <2>1 DEF RowsInv
      <3> QED BY <1>1, <3>1
    <2>2. CASE a = at /\ b = db
      <3>1. n \in 1..m
        BY <1>7, Configured
      <3>2. k + n \in 1..k + m
        BY <3>1
      <3> QED BY <1>1, <2>2, <3>1, <3>2
    <2> QED BY <1>2, <1>7, <2>1, <2>2
  <1>8. RowsInv'
    <2>1. Answers' = Answers /\ \A a, b, n : Answer(a, b, n)' = Answer(a, b, n)
      BY AnswersStay
    <2>2. \A a, b : Position(a, b)' = Position(a, b) /\ SlotAt(a, b)' = SlotAt(a, b)
      BY DEF Position, SlotAt
    <2>3. rows' \in Seq(Answers')
      BY <1>1, <2>1
    <2>4. \A i \in DOMAIN rows' : \E a, b :
             Position(a, b)' /\ Asked(a, b)' /\ rows'[i].database = SlotAt(a, b)'
      BY <1>1, <1>6, <2>2
    <2>5. failures' = {} => \A a, b : Position(a, b)' /\ Asked(a, b)' =>
             \A n \in DOMAIN Logins : \E i \in DOMAIN rows' : rows'[i] = Answer(a, b, n)'
      <3> SUFFICES ASSUME failures' = {}, NEW a, NEW b, Position(a, b)', Asked(a, b)',
                          NEW n \in DOMAIN Logins
                   PROVE  \E i \in DOMAIN rows' : rows'[i] = Answer(a, b, n)'
        OBVIOUS
      <3>1. \E i \in 1..k + m : rows'[i] = Answer(a, b, n)
        BY <1>7, <2>2
      <3>2. Answer(a, b, n)' = Answer(a, b, n)
        BY <2>1
      <3> QED BY <1>1, <3>1, <3>2
    <2> QED BY <2>3, <2>4, <2>5 DEF RowsInv
  <1>9. ASSUME NamedOnce, NoRowTwice
        PROVE  NoRowTwice'
    <2>1. ASSUME NEW i \in 1..k, NEW n \in 1..m
          PROVE  rows'[i].database # rows'[k + n].database
      <3>1. PICK a, b : Position(a, b) /\ Asked(a, b) /\ rows'[i].database = SlotAt(a, b)
        BY <1>1 DEF RowsInv
      <3>2. rows'[k + n].database = SlotAt(at, db)
        BY <1>1, AnswerIs
      <3>3. ~(a = at /\ b = db)
        BY <1>3, <3>1
      <3>4. SlotAt(a, b) # SlotAt(at, db)
        BY <1>9, <3>1, <3>3 DEF NamedOnce, SlotAt, Position
      <3> QED BY <3>1, <3>2, <3>4
    <2>2. ASSUME NEW n \in 1..m, NEW l \in 1..m, rows'[k + n].login = rows'[k + l].login
          PROVE  n = l
      <3>1. rows'[k + n].login = Logins[n] /\ rows'[k + l].login = Logins[l]
        BY <1>1, AnswerIs
      <3> QED BY <1>5, <1>9, <2>2, <3>1 DEF NamedOnce
    <2>3. ASSUME NEW i \in 1..k + m, NEW j \in 1..k + m, rows'[i].login = rows'[j].login,
                 rows'[i].database = rows'[j].database
          PROVE  i = j
      <3>1. CASE i \in 1..k /\ j \in 1..k
        BY <1>1, <1>9, <2>3, <3>1 DEF NoRowTwice
      <3>2. CASE (\E n \in 1..m : i = k + n) /\ (\E n \in 1..m : j = k + n)
        BY <2>2, <2>3, <3>2
      <3>3. CASE i \in 1..k /\ (\E n \in 1..m : j = k + n)
        BY <2>1, <2>3, <3>3
      <3>4. CASE j \in 1..k /\ (\E n \in 1..m : i = k + n)
        BY <2>1, <2>3, <3>4
      <3> QED BY <1>4, <3>1, <3>2, <3>3, <3>4
    <2> QED BY <1>1, <2>3 DEF NoRowTwice
  <1> QED BY <1>8, <1>9

\* No rows come.  Only a failure may leave databases unasked behind.
LEMMA RowsKept ==
    ASSUME RowsInv, UNCHANGED <<rows, estate>>,
           \A a, b : Position(a, b) /\ Asked(a, b) => Asked(a, b)',
           failures' = {} => /\ failures = {}
                             /\ \A a, b : Position(a, b) /\ Asked(a, b)' => Asked(a, b)
    PROVE  RowsInv' /\ (NoRowTwice => NoRowTwice')
  BY AnswersStay DEF RowsInv, NoRowTwice, Position, SlotAt

-----------------------------------------------------------------------------
(* Every step                                                              *)

\* A step that leaves the loops where they are.
LEMMA LoopsRest ==
    ASSUME RowsInv, UNCHANGED <<rows, estate, failures, at, db>>
    PROVE  RowsInv' /\ (NoRowTwice => NoRowTwice')
  BY RowsKept DEF Asked

LEMMA LiveStep ==
    ASSUME Live, LoopInv, RowsInv, Next
    PROVE  LoopInv' /\ RowsInv' /\ (NamedOnce /\ NoRowTwice => NoRowTwice')
  <1>1. CASE ReadSynthetic
    BY <1>1 DEF Live, ReadSynthetic
  <1>2. CASE GetServerConfigs
    <2>1. /\ pc = "start" /\ at = 1 /\ db = 1 /\ rows = <<>> /\ failures = {}
          /\ UNCHANGED <<at, db, rows, failures>>
          /\ pc' = "failed" \/ (pc' = "connect" /\ estate' \in Estate)
      BY <1>2 DEF GetServerConfigs, LoopInv
    <2>2. LoopInv'
      BY <2>1, Configured DEF LoopInv
    <2>3. \A a, b : Position(a, b) => ~Asked(a, b)'
      <3> SUFFICES ASSUME NEW a, NEW b, Position(a, b) PROVE ~Asked(a, b)'
        OBVIOUS
      <3>1. a \in Nat /\ a >= 1 /\ b \in Nat /\ b >= 1
        BY Configured DEF Position
      <3> QED BY <2>1, <3>1 DEF Asked
    <2>4. RowsInv' /\ NoRowTwice'
      <3>1. rows' \in Seq(Answers') /\ DOMAIN rows' = {}
        BY <2>1
      <3> QED BY <2>3, <3>1 DEF RowsInv, NoRowTwice, Position
    <2> QED BY <2>2, <2>4
  <1>3. CASE Connect \/ ConnectAgain \/ ConnectDatabase \/ Decide \/ PutCsv \/ Evaluate
    <2>1. /\ UNCHANGED <<rows, estate, failures, at, db>>
          /\ \/ pc = "connect" /\ pc' = "query"
             \/ pc \in {"connect", "connect_db"} /\ pc' = pc
             \/ pc = "connect_db" /\ pc' = "query_db"
             \/ pc = "decide" /\ pc' = IF failures = {} THEN "put" ELSE "failed"
             \/ pc = "put" /\ pc' = "done"
             \/ pc = "done" /\ pc' = "done"
      BY <1>3 DEF Connect, ConnectAgain, ConnectDatabase, Decide, PutCsv, Evaluate, Rest
    <2>2. LoopInv'
      BY <2>1 DEF LoopInv, Position
    <2> QED BY <2>1, <2>2, LoopsRest
  <1>4. CASE QueryServer
    <2>1. /\ pc = "query" /\ at \in DOMAIN Config /\ db = 1
          /\ UNCHANGED <<rows, estate, failures>>
      BY <1>4 DEF QueryServer, Rest, LoopInv
    <2>2. CASE Config[at].databases = <<>> /\ NextServer
      <3>1. /\ \A a, b : Position(a, b) => (Asked(a, b)' <=> Asked(a, b) \/ a = at)
            /\ \/ pc' = "connect" /\ at' \in DOMAIN Config /\ db' = 1
               \/ pc' = "decide" /\ at' = Len(Config) + 1
        BY <2>1, <2>2, ServerAsked
      <3>2. \A a, b : Position(a, b) => a # at
        BY <2>2 DEF Position
      <3>3. LoopInv'
        BY <2>1, <3>1 DEF LoopInv
      <3> QED BY <2>1, <3>1, <3>2, <3>3, RowsKept
    <2>3. CASE Config[at].databases # <<>> /\ pc' = "connect_db" /\ UNCHANGED <<at, db>>
      <3>1. Position(at, db)
        <4>1. Config[at].databases \in Seq(STRING)
          <5>1. Config \in Seq([server : STRING, databases : Seq(STRING)])
            BY ExtractAssumption
          <5>2. Config[at] \in [server : STRING, databases : Seq(STRING)]
            BY <2>1, <5>1, SequenceIs
          <5> QED BY <5>2
        <4> QED BY <2>1, <2>3, <4>1 DEF Position
      <3>2. LoopInv'
        BY <2>1, <2>3, <3>1 DEF LoopInv, Position
      <3> QED BY <2>1, <2>3, <3>2, LoopsRest
    <2> QED BY <1>4, <2>2, <2>3 DEF QueryServer
  <1>5. CASE ConnectFails \/ QueryServerFails
    <2>1. /\ pc \in {"connect", "query"} /\ at \in DOMAIN Config /\ db = 1 /\ NextServer
          /\ UNCHANGED <<rows, estate>> /\ failures' # {}
      BY <1>5 DEF ConnectFails, QueryServerFails, Rest, LoopInv
    <2>2. /\ \A a, b : Position(a, b) => (Asked(a, b)' <=> Asked(a, b) \/ a = at)
          /\ \/ pc' = "connect" /\ at' \in DOMAIN Config /\ db' = 1
             \/ pc' = "decide" /\ at' = Len(Config) + 1
      BY <2>1, ServerAsked
    <2>3. LoopInv'
      BY <2>1, <2>2 DEF LoopInv
    <2> QED BY <2>1, <2>2, <2>3, RowsKept
  <1>6. CASE ConnectDatabaseFails \/ QueryDatabase \/ QueryDatabaseFails
    <2>1. /\ pc \in {"connect_db", "query_db"} /\ Position(at, db) /\ NextDatabase
          /\ UNCHANGED estate
      BY <1>6 DEF ConnectDatabaseFails, QueryDatabase, QueryDatabaseFails, Rest, LoopInv
    <2>2. /\ \A a, b : Position(a, b) => (Asked(a, b)' <=> Asked(a, b) \/ (a = at /\ b = db))
          /\ \/ pc' = "connect_db" /\ Position(at', db')
             \/ pc' = "connect" /\ at' \in DOMAIN Config /\ db' = 1
             \/ pc' = "decide" /\ at' = Len(Config) + 1
      BY <2>1, DatabaseAsked
    <2>3. LoopInv'
      BY <2>1, <2>2 DEF LoopInv, Position
    <2>4. CASE ConnectDatabaseFails
      <3>1. UNCHANGED rows /\ failures' # {}
        BY <2>4 DEF ConnectDatabaseFails
      <3> QED BY <2>1, <2>2, <2>3, <3>1, RowsKept
    <2>5. CASE QueryDatabase
      <3>1. rows' = rows \o RowsOf(Server, Database) /\ failures' = failures
        BY <2>5 DEF QueryDatabase
      <3>2. RowsOf(Server, Database) = SubSeq(RowsOf(Server, Database), 1, Len(Logins))
        <4> DEFINE all == RowsOf(Server, Database)
        <4>1. all = [n \in 1..Len(Logins) |-> all[n]] /\ Len(Logins) \in Nat
          BY Configured DEF RowsOf
        <4> HIDE DEF all
        <4>2. all \in Seq({all[n] : n \in 1..Len(Logins)}) /\ Len(all) = Len(Logins)
          BY <4>1
        <4>3. SubSeq(all, 1, Len(Logins)) = all
          BY <4>1, <4>2
        <4> QED BY <4>3 DEF all
      <3>3. Len(Logins) \in 0..Len(Logins)
        BY Configured
      <3> QED BY <2>1, <2>3, <3>1, <3>2, <3>3, RowsStep
    <2>6. CASE QueryDatabaseFails
      <3>1. PICK m \in 0..Len(Logins) - 1 :
               rows' = rows \o SubSeq(RowsOf(Server, Database), 1, m)
        BY <2>6 DEF QueryDatabaseFails
      <3>2. m \in 0..Len(Logins) /\ failures' # {}
        BY <2>6, <3>1, SomeLogins DEF QueryDatabaseFails
      <3> QED BY <2>1, <2>3, <3>1, <3>2, RowsStep
    <2> QED BY <1>6, <2>4, <2>5, <2>6
  <1> QED BY <1>1, <1>2, <1>3, <1>4, <1>5, <1>6 DEF Next

LEMMA DoneStep ==
    ASSUME DoneInv, Next
    PROVE  DoneInv'
  <1>1. CASE ReadSynthetic \/ GetServerConfigs \/ Connect \/ ConnectAgain \/ ConnectFails
             \/ QueryServer \/ QueryServerFails \/ ConnectDatabase \/ ConnectDatabaseFails
             \/ QueryDatabase \/ QueryDatabaseFails \/ Decide
    <2>1. pc # "done" /\ pc' # "done" /\ UNCHANGED <<csv, found>>
      BY <1>1 DEF ReadSynthetic, GetServerConfigs, Connect, ConnectAgain, ConnectFails,
           QueryServer, QueryServerFails, ConnectDatabase, ConnectDatabaseFails,
           QueryDatabase, QueryDatabaseFails, Decide, Rest, NextDatabase, NextServer
    <2> QED BY <2>1 DEF DoneInv
  <1>2. CASE PutCsv
    BY <1>2 DEF PutCsv, DoneInv, Decoded
  <1>3. CASE Evaluate
    BY <1>3 DEF Evaluate, DoneInv, Decoded
  <1> QED BY <1>1, <1>2, <1>3 DEF Next

LEMMA InitExtract == Init => ExtractInv /\ NoRowTwice
  <1> SUFFICES ASSUME Init PROVE ExtractInv /\ NoRowTwice
    OBVIOUS
  <1>1. DoneInv
    BY DEF Init, DoneInv
  <1>2. LoopInv
    BY DEF Init, LoopInv
  <1>3. \A a, b : Position(a, b) => ~Asked(a, b)
    <2> SUFFICES ASSUME NEW a, NEW b, Position(a, b) PROVE ~Asked(a, b)
      OBVIOUS
    <2>1. a \in Nat /\ a >= 1 /\ b \in Nat /\ b >= 1
      BY Configured DEF Position
    <2> QED BY <2>1 DEF Init, Asked
  <1>4. rows \in Seq(Answers) /\ DOMAIN rows = {}
    BY DEF Init
  <1> QED BY <1>1, <1>2, <1>3, <1>4 DEF ExtractInv, RowsInv, NoRowTwice

LEMMA NextExtract ==
    ASSUME ExtractInv, [Next]_vars
    PROVE  ExtractInv' /\ (Live /\ NamedOnce /\ NoRowTwice => NoRowTwice')
  <1>1. CASE Next
    <2>1. Live' = Live
      BY <1>1 DEF Next, Live, ReadSynthetic, GetServerConfigs, Connect, ConnectAgain,
           ConnectFails, QueryServer, QueryServerFails, ConnectDatabase, ConnectDatabaseFails,
           QueryDatabase, QueryDatabaseFails, Decide, PutCsv, Evaluate, Rest
    <2> QED BY <1>1, <2>1, LiveStep, DoneStep DEF ExtractInv
  <1>2. CASE UNCHANGED vars
    <2>1. UNCHANGED <<pc, csv, rows, found, now, estate, failures, at, db, file>>
      BY <1>2 DEF vars
    <2>2. DoneInv' /\ (LoopInv => LoopInv') /\ Live' = Live
      BY <2>1 DEF ExtractInv, DoneInv, Decoded, LoopInv, Position, Live
    <2> QED BY <2>1, <2>2, LoopsRest DEF ExtractInv
  <1> QED BY <1>1, <1>2

LEMMA AlwaysExtractInv == Spec => []ExtractInv
  BY InitExtract, NextExtract, PTL DEF Spec

-----------------------------------------------------------------------------
(* The rows of a CSV that was put                                          *)

LEMMA DecodedIs ==
    ASSUME NEW a, NEW b, NEW n, NEW row, row = Answer(a, b, n)
    PROVE  /\ ThroughCsv(row).login = row.login /\ ThroughCsv(row).type = row.type
           /\ ThroughCsv(row).database = row.database /\ ThroughCsv(row).user = row.user
           /\ ThroughCsv(row).explicit = row.explicit /\ ThroughCsv(row).level = row.level
           /\ ThroughCsv(row).created = Whole(row.created)
           /\ ThroughCsv(row).active = IF row.active = None THEN None ELSE Whole(row.active)
           /\ ThroughCsv(row).roles = UNION {RolePart[r] : r \in row.roles}
  BY DEF ThroughCsv, Answer, RowOf

\* Row i of the CSV is the answer of a database for a login.
AnswerOf(i, a, b, n) ==
    Position(a, b) /\ n \in DOMAIN Logins /\ rows[i] = Answer(a, b, n)

LEMMA CsvIs ==
    ASSUME ExtractInv, Live, pc = "done"
    PROVE  /\ estate \in Estate
           /\ DOMAIN csv = DOMAIN rows /\ \A i \in DOMAIN rows : csv[i] = ThroughCsv(rows[i])
           /\ \A i \in DOMAIN rows : \E a, b, n : AnswerOf(i, a, b, n)
           /\ \A a, b : Position(a, b) => \A n \in DOMAIN Logins :
                 \E i \in DOMAIN rows : AnswerOf(i, a, b, n)
  <1>1. /\ pc = "done" /\ csv = Decoded(rows) /\ LoopInv /\ RowsInv
    BY DEF ExtractInv, DoneInv
  <1>2. estate \in Estate /\ at = Len(Config) + 1 /\ failures = {}
    BY <1>1 DEF LoopInv
  <1>3. DOMAIN csv = DOMAIN rows /\ \A i \in DOMAIN rows : csv[i] = ThroughCsv(rows[i])
    BY <1>1 DEF Decoded
  <1>4. \A i \in DOMAIN rows : \E a, b, n : AnswerOf(i, a, b, n)
    <2> SUFFICES ASSUME NEW i \in DOMAIN rows PROVE \E a, b, n : AnswerOf(i, a, b, n)
      OBVIOUS
    <2>1. rows[i] \in Answers
      BY <1>1, SequenceIs DEF RowsInv
    <2> QED BY <2>1 DEF Answers, AnswerOf, Position
  <1>5. ASSUME NEW a, NEW b, Position(a, b)
        PROVE  Asked(a, b)
    <2>1. a \in 1..Len(Config) /\ Len(Config) \in Nat
      BY <1>5, Configured DEF Position
    <2> QED BY <1>2, <2>1 DEF Asked
  <1> QED BY <1>1, <1>2, <1>3, <1>4, <1>5 DEF RowsInv, AnswerOf

LEMMA SlotsAre == \A x : x \in Slot <=> \E a, b : Position(a, b) /\ x = SlotAt(a, b)
  BY DEF Slot, Position, SlotAt

LEMMA LoginIs == \A l : l \in Login <=> \E n \in DOMAIN Logins : l = Logins[n]
  BY DEF Login

\* compute_access_level, on what the database says of a login.
LEMMA AdminIs ==
    ASSUME NEW a, NEW b, NEW n
    PROVE  (Answer(a, b, n).level = "Admin") <=> Holds(Logins[n], SlotAt(a, b))
  <1> DEFINE l == Logins[n]
             s == Config[a].server
             d == Config[a].databases[b]
             p == Profile(l, s, d)
             q == estate.profile[l][<<d, s>>]
  <1>1. Answer(a, b, n).level = AccessLevel(l \in estate.sysadmin[s], p.roles, ExplicitOf(p.perms))
    BY DEF Answer, RowOf
  <1>2. \A S, roles, explicit :
           (AccessLevel(l \in S, roles, explicit) = "Admin")
              <=> l \in S \/ "db_owner" \in roles \/ "admin" \in explicit
    BY DEF AccessLevel
  <1>3. \A perms : "admin" \in ExplicitOf(perms) <=>
           \E e \in perms : e[1] = "GRANT" /\ e[2] \in {"ALTER", "CONTROL", "TAKE OWNERSHIP"}
    BY DEF ExplicitOf, Explicit, PermsOf
  <1>4. (Answer(a, b, n).level = "Admin") <=>
           \/ l \in estate.sysadmin[s] \/ "db_owner" \in p.roles
           \/ \E e \in p.perms : e[1] = "GRANT" /\ e[2] \in {"ALTER", "CONTROL", "TAKE OWNERSHIP"}
    <2> HIDE DEF p
    <2>1. (AccessLevel(l \in estate.sysadmin[s], p.roles, ExplicitOf(p.perms)) = "Admin")
             <=> l \in estate.sysadmin[s] \/ "db_owner" \in p.roles \/ "admin" \in ExplicitOf(p.perms)
      BY <1>2
    <2> QED BY <1>1, <2>1, <1>3, Zenon
  <1>5. CASE q.user \in {None, "dbo"}
    <2>1. p.roles = {} /\ p.perms = {}
      BY <1>5 DEF Profile
    <2>2. Holds(l, <<d, s>>) <=> l \in estate.sysadmin[s]
      BY <1>5 DEF Holds
    <2> HIDE DEF p
    <2> QED BY <1>4, <2>1, <2>2 DEF SlotAt
  <1>6. CASE q.user \notin {None, "dbo"}
    <2>1. p = q
      BY <1>6 DEF Profile
    <2> HIDE DEF p
    <2>2. Holds(l, <<d, s>>) <=>
             \/ l \in estate.sysadmin[s] \/ "db_owner" \in q.roles
             \/ \E e \in q.perms : e[1] = "GRANT" /\ e[2] \in {"ALTER", "CONTROL", "TAKE OWNERSHIP"}
      BY <1>6 DEF Holds
    <2> QED BY <1>4, <2>1, <2>2 DEF SlotAt
  <1> QED BY <1>5, <1>6

-----------------------------------------------------------------------------
(* The rules                                                               *)

\* What a rule that groups by login raises: of a login, the databases of its
\* rows that the rule hits.
LEMMA GroupedBy ==
    ASSUME NEW rule, NEW rs, NEW hits
    PROVE  \A f \in PerPrincipal(rule, rs, hits) : f.rule = rule
  BY DEF PerPrincipal, Finding

DatabasesRaised(fs, l) == UNION {f.databases : f \in {g \in fs : g.principal = l}}
DatabasesHit(rs, hits, l) == {rs[i].database : i \in {j \in hits : rs[j].login = l}}

LEMMA DatabasesAre ==
    ASSUME NEW rule, NEW rs, NEW hits, NEW l
    PROVE  DatabasesRaised(PerPrincipal(rule, rs, hits), l) = DatabasesHit(rs, hits, l)
  <1> SUFFICES UNION {f.databases : f \in {g \in PerPrincipal(rule, rs, hits) : g.principal = l}}
                  = {rs[i].database : i \in {j \in hits : rs[j].login = l}}
    BY Zenon DEF DatabasesRaised, DatabasesHit
  <1> DEFINE F(p) == Finding(rule, p, {rs[i].database : i \in {j \in hits : rs[j].login = p}}, 0)
  <1>1. /\ PerPrincipal(rule, rs, hits) = {F(p) : p \in {rs[i].login : i \in hits}}
        /\ \A p : F(p).principal = p
        /\ \A p : F(p).databases = {rs[i].database : i \in {j \in hits : rs[j].login = p}}
    BY DEF PerPrincipal, Finding
  <1> HIDE DEF F
  <1>2. CASE l \in {rs[i].login : i \in hits}
    <2>1. {g \in PerPrincipal(rule, rs, hits) : g.principal = l} = {F(l)}
      BY <1>1, <1>2
    <2> QED BY <1>1, <2>1
  <1>3. CASE l \notin {rs[i].login : i \in hits}
    <2>1. {g \in PerPrincipal(rule, rs, hits) : g.principal = l} = {}
      BY <1>1, <1>3
    <2> QED BY <1>3, <2>1
  <1> QED BY <1>2, <1>3

R1Hits(rs) == {i \in DOMAIN rs : rs[i].type = "SQL_LOGIN" /\ rs[i].level = "Admin"}
R2Hits(rs, t) ==
    {i \in DOMAIN rs : rs[i].level = "Admin" /\ LastSign(rs[i]) < t - DormantDays * Day}
R3In(rs, env) == {i \in DOMAIN rs : IsPrivileged(rs[i]) /\ Env(rs[i].database) = env}
R3Hits(rs) ==
    {i \in R3In(rs, "dev") \cup R3In(rs, "prod") :
        /\ \E j \in R3In(rs, "dev") : rs[j].login = rs[i].login
        /\ \E j \in R3In(rs, "prod") : rs[j].login = rs[i].login}
R4Hits(rs) ==
    {i \in DOMAIN rs : \A j \in DOMAIN rs : rs[j].login = rs[i].login => rs[j].user = None}
R5Hits(rs) == {i \in DOMAIN rs : rs[i].explicit # {} /\ rs[i].roles = {}}
R6Hits(rs) == {i \in DOMAIN rs : rs[i].login \in SharedName}
LoginsOf(rs, hits) == {rs[i].login : i \in hits}

\* Every rule raises the logins of the rows it hits.
LEMMA RulesAre ==
    ASSUME NEW rs, NEW t
    PROVE  /\ R1SqlLoginAdmin(rs, t) = PerPrincipal("R1", rs, R1Hits(rs))
           /\ R2DormantAdmin(rs, t) = PerPrincipal("R2", rs, R2Hits(rs, t))
           /\ R3SodBreach(rs, t) = PerPrincipal("R3", rs, R3Hits(rs))
           /\ R4OrphanedLogin(rs, t) = PerPrincipal("R4", rs, R4Hits(rs))
           /\ R6SharedAccount(rs, t) = PerPrincipal("R6", rs, R6Hits(rs))
           /\ \A f \in R5RbacBypass(rs, t) : f.rule = "R5"
           /\ {f.principal : f \in R5RbacBypass(rs, t)} = LoginsOf(rs, R5Hits(rs))
  <1>1. R3SodBreach(rs, t) = PerPrincipal("R3", rs, R3Hits(rs))
    <2>1. R3Hits(rs) = {i \in R3In(rs, "dev") \cup R3In(rs, "prod") :
                           rs[i].login \in {rs[j].login : j \in R3In(rs, "dev")}
                                           \cap {rs[j].login : j \in R3In(rs, "prod")}}
      BY DEF R3Hits
    <2> QED BY <2>1 DEF R3SodBreach, R3In
  <1>2. /\ \A f \in R5RbacBypass(rs, t) : f.rule = "R5"
        /\ {f.principal : f \in R5RbacBypass(rs, t)} = LoginsOf(rs, R5Hits(rs))
    <2> DEFINE F(i) == Finding("R5", rs[i].login, {rs[i].database}, i)
    <2>1. R5RbacBypass(rs, t) = {F(i) : i \in R5Hits(rs)}
      BY Zenon DEF R5RbacBypass, R5Hits
    <2>2. \A i : F(i).rule = "R5" /\ F(i).principal = rs[i].login
      BY DEF Finding
    <2> HIDE DEF F
    <2> QED BY <2>1, <2>2 DEF LoginsOf
  <1>3. R1SqlLoginAdmin(rs, t) = PerPrincipal("R1", rs, R1Hits(rs))
    BY Zenon DEF R1SqlLoginAdmin, R1Hits
  <1>4. R2DormantAdmin(rs, t) = PerPrincipal("R2", rs, R2Hits(rs, t))
    BY Zenon DEF R2DormantAdmin, R2Hits
  <1>5. R4OrphanedLogin(rs, t) = PerPrincipal("R4", rs, R4Hits(rs))
    BY Zenon DEF R4OrphanedLogin, R4Hits
  <1>6. R6SharedAccount(rs, t) = PerPrincipal("R6", rs, R6Hits(rs))
    BY Zenon DEF R6SharedAccount, R6Hits
  <1> QED BY <1>1, <1>2, <1>3, <1>4, <1>5, <1>6

LEMMA HitsInRows ==
    ASSUME NEW rs, NEW t
    PROVE  /\ R1Hits(rs) \in SUBSET (DOMAIN rs) /\ R2Hits(rs, t) \in SUBSET (DOMAIN rs)
           /\ R3Hits(rs) \in SUBSET (DOMAIN rs) /\ R4Hits(rs) \in SUBSET (DOMAIN rs)
           /\ R6Hits(rs) \in SUBSET (DOMAIN rs)
  BY DEF R1Hits, R2Hits, R3Hits, R3In, R4Hits, R6Hits

\* Of the findings of all rules, those of one rule are the rule's own.
LEMMA OfOneRule ==
    ASSUME NEW rs, NEW t
    PROVE  \A f : f \in RunRules(rs, t) =>
              /\ f.rule = "R1" <=> f \in R1SqlLoginAdmin(rs, t)
              /\ f.rule = "R2" <=> f \in R2DormantAdmin(rs, t)
              /\ f.rule = "R3" <=> f \in R3SodBreach(rs, t)
              /\ f.rule = "R4" <=> f \in R4OrphanedLogin(rs, t)
              /\ f.rule = "R5" <=> f \in R5RbacBypass(rs, t)
              /\ f.rule = "R6" <=> f \in R6SharedAccount(rs, t)
  <1>1. /\ \A f \in R1SqlLoginAdmin(rs, t) : f.rule = "R1"
        /\ \A f \in R2DormantAdmin(rs, t) : f.rule = "R2"
        /\ \A f \in R3SodBreach(rs, t) : f.rule = "R3"
        /\ \A f \in R4OrphanedLogin(rs, t) : f.rule = "R4"
        /\ \A f \in R5RbacBypass(rs, t) : f.rule = "R5"
        /\ \A f \in R6SharedAccount(rs, t) : f.rule = "R6"
    BY RulesAre, HitsInRows, GroupedBy
  <1> QED BY <1>1 DEF RunRules

LEMMA PrincipalsAre ==
    ASSUME NEW rule, NEW rs, NEW hits \in SUBSET (DOMAIN rs)
    PROVE  {f.principal : f \in PerPrincipal(rule, rs, hits)} = LoginsOf(rs, hits)
  <1> DEFINE F(p) == Finding(rule, p, {rs[i].database : i \in {j \in hits : rs[j].login = p}}, 0)
  <1>1. PerPrincipal(rule, rs, hits) = {F(p) : p \in {rs[i].login : i \in hits}}
    BY Zenon DEF PerPrincipal
  <1>2. \A p : F(p).principal = p
    BY DEF Finding
  <1> HIDE DEF F
  <1> QED BY <1>1, <1>2 DEF LoginsOf

LEMMA RaisedOf ==
    ASSUME NEW rule, NEW all, NEW own, own \subseteq all,
           \A f \in all : f.rule = rule <=> f \in own
    PROVE  Raised(rule, all) = {f.principal : f \in own}
  BY DEF Raised

LEMMA RaisedAre ==
    ASSUME NEW rs, NEW t
    PROVE  /\ Raised("R1", RunRules(rs, t)) = LoginsOf(rs, R1Hits(rs))
           /\ Raised("R2", RunRules(rs, t)) = LoginsOf(rs, R2Hits(rs, t))
           /\ Raised("R3", RunRules(rs, t)) = LoginsOf(rs, R3Hits(rs))
           /\ Raised("R4", RunRules(rs, t)) = LoginsOf(rs, R4Hits(rs))
           /\ Raised("R5", RunRules(rs, t)) = LoginsOf(rs, R5Hits(rs))
           /\ Raised("R6", RunRules(rs, t)) = LoginsOf(rs, R6Hits(rs))
  <1> DEFINE all == RunRules(rs, t)
  <1>1. /\ R1SqlLoginAdmin(rs, t) \subseteq all /\ R2DormantAdmin(rs, t) \subseteq all
        /\ R3SodBreach(rs, t) \subseteq all /\ R4OrphanedLogin(rs, t) \subseteq all
        /\ R5RbacBypass(rs, t) \subseteq all /\ R6SharedAccount(rs, t) \subseteq all
    BY DEF RunRules
  <1>2. \A f \in all :
            /\ f.rule = "R1" <=> f \in R1SqlLoginAdmin(rs, t)
            /\ f.rule = "R2" <=> f \in R2DormantAdmin(rs, t)
            /\ f.rule = "R3" <=> f \in R3SodBreach(rs, t)
            /\ f.rule = "R4" <=> f \in R4OrphanedLogin(rs, t)
            /\ f.rule = "R5" <=> f \in R5RbacBypass(rs, t)
            /\ f.rule = "R6" <=> f \in R6SharedAccount(rs, t)
    BY OfOneRule
  <1>3. /\ {f.principal : f \in R1SqlLoginAdmin(rs, t)} = LoginsOf(rs, R1Hits(rs))
        /\ {f.principal : f \in R2DormantAdmin(rs, t)} = LoginsOf(rs, R2Hits(rs, t))
        /\ {f.principal : f \in R3SodBreach(rs, t)} = LoginsOf(rs, R3Hits(rs))
        /\ {f.principal : f \in R4OrphanedLogin(rs, t)} = LoginsOf(rs, R4Hits(rs))
        /\ {f.principal : f \in R5RbacBypass(rs, t)} = LoginsOf(rs, R5Hits(rs))
        /\ {f.principal : f \in R6SharedAccount(rs, t)} = LoginsOf(rs, R6Hits(rs))
    <2>1. {f.principal : f \in R1SqlLoginAdmin(rs, t)} = LoginsOf(rs, R1Hits(rs))
      <3>1. R1SqlLoginAdmin(rs, t) = PerPrincipal("R1", rs, R1Hits(rs))
        BY RulesAre
      <3> QED BY <3>1, HitsInRows, PrincipalsAre
    <2>2. {f.principal : f \in R2DormantAdmin(rs, t)} = LoginsOf(rs, R2Hits(rs, t))
      <3>1. R2DormantAdmin(rs, t) = PerPrincipal("R2", rs, R2Hits(rs, t))
        BY RulesAre
      <3> QED BY <3>1, HitsInRows, PrincipalsAre
    <2>3. {f.principal : f \in R3SodBreach(rs, t)} = LoginsOf(rs, R3Hits(rs))
      <3>1. R3SodBreach(rs, t) = PerPrincipal("R3", rs, R3Hits(rs))
        BY RulesAre
      <3> QED BY <3>1, HitsInRows, PrincipalsAre
    <2>4. {f.principal : f \in R4OrphanedLogin(rs, t)} = LoginsOf(rs, R4Hits(rs))
      <3>1. R4OrphanedLogin(rs, t) = PerPrincipal("R4", rs, R4Hits(rs))
        BY RulesAre
      <3> QED BY <3>1, HitsInRows, PrincipalsAre
    <2>5. {f.principal : f \in R6SharedAccount(rs, t)} = LoginsOf(rs, R6Hits(rs))
      <3>1. R6SharedAccount(rs, t) = PerPrincipal("R6", rs, R6Hits(rs))
        BY RulesAre
      <3> QED BY <3>1, HitsInRows, PrincipalsAre
    <2> QED BY <2>1, <2>2, <2>3, <2>4, <2>5, RulesAre
  <1>4. /\ Raised("R1", all) = {f.principal : f \in R1SqlLoginAdmin(rs, t)}
        /\ Raised("R2", all) = {f.principal : f \in R2DormantAdmin(rs, t)}
        /\ Raised("R3", all) = {f.principal : f \in R3SodBreach(rs, t)}
        /\ Raised("R4", all) = {f.principal : f \in R4OrphanedLogin(rs, t)}
        /\ Raised("R5", all) = {f.principal : f \in R5RbacBypass(rs, t)}
        /\ Raised("R6", all) = {f.principal : f \in R6SharedAccount(rs, t)}
    BY <1>1, <1>2, RaisedOf
  <1> QED BY <1>3, <1>4 DEF all

-----------------------------------------------------------------------------
(* The theorems                                                            *)

LEMMA OnePerSlot ==
    ASSUME NamedOnce, ExtractInv, Live => NoRowTwice
    PROVE  CompleteExtract
  <1> SUFFICES ASSUME Live, csv # None, NEW l \in Login, NEW x \in Slot
               PROVE  Cardinality({i \in DOMAIN csv : csv[i].login = l /\ csv[i].database = x}) = 1
    BY DEF CompleteExtract
  <1>1. /\ DOMAIN csv = DOMAIN rows /\ \A i \in DOMAIN rows : csv[i] = ThroughCsv(rows[i])
        /\ \A i \in DOMAIN rows : \E a, b, n : AnswerOf(i, a, b, n)
        /\ \A a, b : Position(a, b) => \A n \in DOMAIN Logins :
              \E i \in DOMAIN rows : AnswerOf(i, a, b, n)
    BY CsvIs DEF ExtractInv, DoneInv
  <1>2. \A i \in DOMAIN rows : csv[i].login = rows[i].login /\ csv[i].database = rows[i].database
    BY <1>1, DecodedIs DEF AnswerOf
  <1>3. PICK i \in DOMAIN rows : rows[i].login = l /\ rows[i].database = x
    <2>1. PICK a, b : Position(a, b) /\ x = SlotAt(a, b)
      BY SlotsAre
    <2>2. PICK n \in DOMAIN Logins : l = Logins[n]
      BY LoginIs
    <2>3. PICK i \in DOMAIN rows : AnswerOf(i, a, b, n)
      BY <1>1, <2>1
    <2> QED BY <2>1, <2>2, <2>3, AnswerIs DEF AnswerOf
  <1>4. {j \in DOMAIN csv : csv[j].login = l /\ csv[j].database = x} = {i}
    BY <1>1, <1>2, <1>3 DEF NoRowTwice
  <1> QED BY <1>4, FS_Singleton

\* A CSV of live servers has exactly one row for each enabled login in each
\* configured database, however many connections failed on the way to
\* extractions that were not put: extract() raises on any failure, so no
\* database is missing from a CSV the rules read (extract_uar/handler.py).
THEOREM ExtractsAreComplete ==
    ASSUME NamedOnce
    PROVE  Spec => []CompleteExtract
  <1> DEFINE Inv == ExtractInv /\ (Live => NoRowTwice)
  <1>1. Init => Inv
    BY InitExtract
  <1>2. Inv /\ [Next]_vars => Inv'
    <2>1. [Next]_vars => Live' = Live
      BY DEF Next, Live, ReadSynthetic, GetServerConfigs, Connect, ConnectAgain,
           ConnectFails, QueryServer, QueryServerFails, ConnectDatabase, ConnectDatabaseFails,
           QueryDatabase, QueryDatabaseFails, Decide, PutCsv, Evaluate, Rest, vars
    <2> QED BY <2>1, NextExtract
  <1>3. Inv => CompleteExtract
    BY OnePerSlot
  <1> QED BY <1>1, <1>2, <1>3, PTL DEF Spec

\* The logins of the rows that a rule hits, as sets of the rows read back.
LEMMA AnswersTyped ==
    ASSUME NEW a, NEW b, NEW n \in DOMAIN Logins, Position(a, b), estate \in Estate
    PROVE  /\ Answer(a, b, n).created \in Int /\ Answer(a, b, n).active \in Int \cup {None}
           /\ Answer(a, b, n).roles \subseteq DOMAIN RolePart
           /\ Answer(a, b, n).type = "SQL_LOGIN"
  <1> DEFINE s == Config[a].server
             d == Config[a].databases[b]
  <1>1. /\ estate.created \in Int /\ estate.active[s][Logins[n]] \in Int \cup {None}
        /\ estate.profile[Logins[n]][<<d, s>>].roles \subseteq DOMAIN RolePart
    BY ExtractAssumption DEF Position
  <1>2. Profile(Logins[n], s, d).roles \subseteq DOMAIN RolePart
    BY <1>1 DEF Profile
  <1> QED BY <1>1, <1>2 DEF Answer, RowOf

LEMMA WholeIs == \A t \in Int : Whole(t) \in Int /\ Whole(t) <= t
  BY DEF Whole, Day

\* What a row has for the rules, it still has when it is read back: at most it
\* looks older, and at most its role names have come apart.
LEMMA RowReadBack ==
    ASSUME ExtractInv, Live, pc = "done", NEW i \in DOMAIN rows
    PROVE  /\ csv[i].login = rows[i].login /\ csv[i].type = rows[i].type
           /\ csv[i].database = rows[i].database /\ csv[i].user = rows[i].user
           /\ csv[i].explicit = rows[i].explicit /\ csv[i].level = rows[i].level
           /\ LastSign(csv[i]) \in Int /\ LastSign(rows[i]) \in Int
           /\ LastSign(csv[i]) <= LastSign(rows[i])
           /\ rows[i].roles = {} => csv[i].roles = {}
           /\ IsPrivileged(rows[i]) => IsPrivileged(csv[i])
  <1>1. PICK a, b, n : AnswerOf(i, a, b, n)
    BY CsvIs
  <1>2. csv[i] = ThroughCsv(rows[i]) /\ estate \in Estate
    BY CsvIs
  <1>3. /\ csv[i].login = rows[i].login /\ csv[i].type = rows[i].type
        /\ csv[i].database = rows[i].database /\ csv[i].user = rows[i].user
        /\ csv[i].explicit = rows[i].explicit /\ csv[i].level = rows[i].level
        /\ csv[i].created = Whole(rows[i].created)
        /\ csv[i].active = IF rows[i].active = None THEN None ELSE Whole(rows[i].active)
        /\ csv[i].roles = UNION {RolePart[r] : r \in rows[i].roles}
    BY <1>1, <1>2, DecodedIs DEF AnswerOf
  <1>4. /\ rows[i].created \in Int /\ rows[i].active \in Int \cup {None}
        /\ rows[i].roles \subseteq DOMAIN RolePart
    BY <1>1, <1>2, AnswersTyped DEF AnswerOf
  <1>5. /\ LastSign(csv[i]) \in Int /\ LastSign(rows[i]) \in Int
        /\ LastSign(csv[i]) <= LastSign(rows[i])
    <2>1. CASE rows[i].active = None
      BY <1>3, <1>4, <2>1, WholeIs DEF LastSign
    <2>2. CASE rows[i].active # None
      <3>1. rows[i].active \in Int /\ Whole(rows[i].active) \in Int
        BY <1>4, <2>2, WholeIs
      <3>2. csv[i].active # None
        BY <1>3, <2>2, <3>1, ExtractAssumption
      <3> QED BY <1>3, <2>2, <3>1, <3>2, WholeIs DEF LastSign
    <2> QED BY <2>1, <2>2
  <1>6. rows[i].roles = {} => csv[i].roles = {}
    BY <1>3
  <1>7. IsPrivileged(rows[i]) => IsPrivileged(csv[i])
    <2>1. ASSUME NEW r \in {"db_owner", "sysadmin"}, r \in rows[i].roles
          PROVE  r \in csv[i].roles
      <3>1. RolePart[r] = {r}
        BY <1>4, <2>1, ExtractAssumption
      <3> QED BY <1>3, <2>1, <3>1
    <2> QED BY <1>3, <2>1 DEF IsPrivileged
  <1> QED BY <1>3, <1>5, <1>6, <1>7

\* The rules never hit less on the rows read back.
LEMMA HitsReadBack ==
    ASSUME ExtractInv, Live, pc = "done", NEW t \in Int
    PROVE  /\ R1Hits(rows) \subseteq R1Hits(csv)
           /\ R2Hits(rows, t) \subseteq R2Hits(csv, t)
           /\ R3Hits(rows) \subseteq R3Hits(csv)
           /\ R4Hits(rows) \subseteq R4Hits(csv)
           /\ R5Hits(rows) \subseteq R5Hits(csv)
           /\ R6Hits(rows) \subseteq R6Hits(csv)
  <1>1. DOMAIN csv = DOMAIN rows
    BY CsvIs
  <1>2. \A i \in DOMAIN rows :
           /\ csv[i].login = rows[i].login /\ csv[i].type = rows[i].type
           /\ csv[i].database = rows[i].database /\ csv[i].user = rows[i].user
           /\ csv[i].explicit = rows[i].explicit /\ csv[i].level = rows[i].level
           /\ LastSign(csv[i]) \in Int /\ LastSign(rows[i]) \in Int
           /\ LastSign(csv[i]) <= LastSign(rows[i])
           /\ rows[i].roles = {} => csv[i].roles = {}
           /\ IsPrivileged(rows[i]) => IsPrivileged(csv[i])
    BY RowReadBack
  <1>3. R1Hits(rows) \subseteq R1Hits(csv)
    BY <1>1, <1>2 DEF R1Hits
  <1>4. R2Hits(rows, t) \subseteq R2Hits(csv, t)
    <2> DEFINE oldest == t - DormantDays * Day
    <2>1. oldest \in Int
      BY DEF DormantDays, Day
    <2> HIDE DEF oldest
    <2>2. \A i \in DOMAIN rows : LastSign(rows[i]) < oldest => LastSign(csv[i]) < oldest
      BY <1>2, <2>1
    <2>3. R2Hits(rows, t) = {i \in DOMAIN rows : rows[i].level = "Admin" /\ LastSign(rows[i]) < oldest}
      BY Zenon DEF R2Hits, oldest
    <2>4. R2Hits(csv, t) = {i \in DOMAIN csv : csv[i].level = "Admin" /\ LastSign(csv[i]) < oldest}
      BY Zenon DEF R2Hits, oldest
    <2> QED BY <1>1, <1>2, <2>2, <2>3, <2>4
  <1>5. \A env : R3In(rows, env) \subseteq R3In(csv, env)
    BY <1>1, <1>2 DEF R3In
  <1>6. R3Hits(rows) \subseteq R3Hits(csv)
    <2>1. \A env : R3In(rows, env) \subseteq DOMAIN rows
      BY DEF R3In
    <2>2. ASSUME NEW i \in R3Hits(rows)
          PROVE  i \in R3Hits(csv)
      <3>1. /\ i \in R3In(rows, "dev") \cup R3In(rows, "prod")
            /\ \E j \in R3In(rows, "dev") : rows[j].login = rows[i].login
            /\ \E j \in R3In(rows, "prod") : rows[j].login = rows[i].login
        BY DEF R3Hits
      <3>2. i \in R3In(csv, "dev") \cup R3In(csv, "prod") /\ i \in DOMAIN rows
        BY <1>5, <2>1, <3>1
      <3>3. \E j \in R3In(csv, "dev") : csv[j].login = csv[i].login
        BY <1>2, <1>5, <2>1, <3>1, <3>2
      <3>4. \E j \in R3In(csv, "prod") : csv[j].login = csv[i].login
        BY <1>2, <1>5, <2>1, <3>1, <3>2
      <3> QED BY <3>2, <3>3, <3>4 DEF R3Hits
    <2> QED BY <2>2
  <1>7. R4Hits(rows) \subseteq R4Hits(csv)
    BY <1>1, <1>2 DEF R4Hits
  <1>8. R5Hits(rows) \subseteq R5Hits(csv)
    BY <1>1, <1>2 DEF R5Hits
  <1>9. R6Hits(rows) \subseteq R6Hits(csv)
    BY <1>1, <1>2 DEF R6Hits
  <1> QED BY <1>3, <1>4, <1>6, <1>7, <1>8, <1>9

LEMMA NothingHidden ==
    ASSUME ExtractInv
    PROVE  EncodingHidesNothing
  <1> SUFFICES ASSUME Live, found # None, NEW r \in RuleId
               PROVE  Raised(r, RunRules(rows, now)) \subseteq Raised(r, found)
    BY DEF EncodingHidesNothing
  <1>1. pc = "done" /\ now \in Clock /\ found = RunRules(csv, now) /\ csv = Decoded(rows)
    BY DEF ExtractInv, DoneInv
  <1>2. now \in Int
    BY <1>1, ExtractAssumption
  <1>3. /\ LoginsOf(rows, R1Hits(rows)) \subseteq LoginsOf(csv, R1Hits(csv))
        /\ LoginsOf(rows, R2Hits(rows, now)) \subseteq LoginsOf(csv, R2Hits(csv, now))
        /\ LoginsOf(rows, R3Hits(rows)) \subseteq LoginsOf(csv, R3Hits(csv))
        /\ LoginsOf(rows, R4Hits(rows)) \subseteq LoginsOf(csv, R4Hits(csv))
        /\ LoginsOf(rows, R5Hits(rows)) \subseteq LoginsOf(csv, R5Hits(csv))
        /\ LoginsOf(rows, R6Hits(rows)) \subseteq LoginsOf(csv, R6Hits(csv))
    <2>1. ASSUME NEW hits, NEW more, hits \subseteq more, hits \subseteq DOMAIN rows
          PROVE  LoginsOf(rows, hits) \subseteq LoginsOf(csv, more)
      <3>1. \A i \in hits : csv[i].login = rows[i].login
        BY <1>1, <2>1, RowReadBack
      <3> QED BY <2>1, <3>1 DEF LoginsOf
    <2>2. R5Hits(rows) \subseteq DOMAIN rows
      BY DEF R5Hits
    <2>3. /\ R1Hits(rows) \subseteq DOMAIN rows /\ R2Hits(rows, now) \subseteq DOMAIN rows
          /\ R3Hits(rows) \subseteq DOMAIN rows /\ R4Hits(rows) \subseteq DOMAIN rows
          /\ R6Hits(rows) \subseteq DOMAIN rows
      BY HitsInRows
    <2>4. /\ R1Hits(rows) \subseteq R1Hits(csv) /\ R2Hits(rows, now) \subseteq R2Hits(csv, now)
          /\ R3Hits(rows) \subseteq R3Hits(csv) /\ R4Hits(rows) \subseteq R4Hits(csv)
          /\ R5Hits(rows) \subseteq R5Hits(csv) /\ R6Hits(rows) \subseteq R6Hits(csv)
      BY <1>1, <1>2, HitsReadBack
    <2> QED BY <2>1, <2>2, <2>3, <2>4
  <1>4. r \in {"R1", "R2", "R3", "R4", "R5", "R6"}
    BY DEF RuleId
  <1> QED BY <1>1, <1>3, <1>4, RaisedAre

\* Whatever a rule would raise on the rows as they were extracted, it raises on
\* the rows read back from uar.csv, at whatever instant the rules run: cutting
\* instants to the second and splitting role names at commas (shared/csv.py)
\* hides no finding.
THEOREM CsvHidesNothing == Spec => []EncodingHidesNothing
  <1>1. ExtractInv => EncodingHidesNothing
    BY NothingHidden
  <1> QED BY <1>1, AlwaysExtractInv, PTL

\* A row read back is that of an administrator exactly when the server or the
\* database says so.
LEMMA AdminReadBack ==
    ASSUME ExtractInv, Live, pc = "done"
    PROVE  /\ \A i \in DOMAIN csv : \E l \in Login, x \in Slot :
                 /\ csv[i].login = l /\ csv[i].database = x /\ csv[i].type = "SQL_LOGIN"
                 /\ (csv[i].level = "Admin") <=> Holds(l, x)
           /\ \A l \in Login, x \in Slot : \E i \in DOMAIN csv :
                 /\ csv[i].login = l /\ csv[i].database = x /\ csv[i].type = "SQL_LOGIN"
                 /\ (csv[i].level = "Admin") <=> Holds(l, x)
  <1>1. /\ estate \in Estate /\ DOMAIN csv = DOMAIN rows
        /\ \A i \in DOMAIN rows : \E a, b, n : AnswerOf(i, a, b, n)
        /\ \A a, b : Position(a, b) => \A n \in DOMAIN Logins :
              \E i \in DOMAIN rows : AnswerOf(i, a, b, n)
    BY CsvIs
  <1>2. ASSUME NEW i \in DOMAIN rows, NEW a, NEW b, NEW n, AnswerOf(i, a, b, n)
        PROVE  /\ csv[i].login = Logins[n] /\ csv[i].database = SlotAt(a, b)
               /\ csv[i].type = "SQL_LOGIN"
               /\ (csv[i].level = "Admin") <=> Holds(Logins[n], SlotAt(a, b))
               /\ Logins[n] \in Login /\ SlotAt(a, b) \in Slot
    <2>1. /\ csv[i].login = rows[i].login /\ csv[i].type = rows[i].type
          /\ csv[i].database = rows[i].database /\ csv[i].level = rows[i].level
      BY RowReadBack
    <2>2. rows[i] = Answer(a, b, n) /\ Position(a, b) /\ n \in DOMAIN Logins
      BY <1>2 DEF AnswerOf
    <2>3. rows[i].type = "SQL_LOGIN"
      BY <1>1, <2>2, AnswersTyped
    <2>4. Logins[n] \in Login /\ SlotAt(a, b) \in Slot
      BY <2>2, LoginIs, SlotsAre
    <2>5. (rows[i].level = "Admin") <=> Holds(Logins[n], SlotAt(a, b))
      BY <2>2, AdminIs
    <2>6. rows[i].login = Logins[n] /\ rows[i].database = SlotAt(a, b)
      BY <2>2, AnswerIs
    <2> QED BY <2>1, <2>3, <2>4, <2>5, <2>6
  <1>3. ASSUME NEW i \in DOMAIN csv
        PROVE  \E l \in Login, x \in Slot :
                 /\ csv[i].login = l /\ csv[i].database = x /\ csv[i].type = "SQL_LOGIN"
                 /\ (csv[i].level = "Admin") <=> Holds(l, x)
    BY <1>1, <1>2
  <1>4. ASSUME NEW l \in Login, NEW x \in Slot
        PROVE  \E i \in DOMAIN csv :
                 /\ csv[i].login = l /\ csv[i].database = x /\ csv[i].type = "SQL_LOGIN"
                 /\ (csv[i].level = "Admin") <=> Holds(l, x)
    <2>1. PICK a, b : Position(a, b) /\ x = SlotAt(a, b)
      BY SlotsAre
    <2>2. PICK n \in DOMAIN Logins : l = Logins[n]
      BY LoginIs
    <2>3. PICK i \in DOMAIN rows : AnswerOf(i, a, b, n)
      BY <1>1, <2>1
    <2> QED BY <1>1, <1>2, <2>1, <2>2, <2>3
  <1> QED BY <1>3, <1>4

LEMMA FoundIs ==
    ASSUME ExtractInv, found # None
    PROVE  pc = "done" /\ now \in Clock /\ found = RunRules(csv, now)
  BY DEF ExtractInv, DoneInv

LEMMA AdministratorsFound ==
    ASSUME ExtractInv
    PROVE  AdministratorsAreRaised
  <1> SUFFICES ASSUME Live, found # None, NEW l \in Login
               PROVE  {x \in Slot : Holds(l, x)}
                         = UNION {f.databases : f \in {g \in found : g.rule = "R1" /\ g.principal = l}}
    BY DEF AdministratorsAreRaised
  <1> DEFINE own == PerPrincipal("R1", csv, R1Hits(csv))
             hits == {i \in R1Hits(csv) : csv[i].login = l}
  <1>1. pc = "done" /\ found = RunRules(csv, now)
    BY FoundIs
  <1>2. {g \in found : g.rule = "R1" /\ g.principal = l} = {g \in own : g.principal = l}
    <2>1. R1SqlLoginAdmin(csv, now) = own
      BY RulesAre
    <2>2. \A f \in found : (f.rule = "R1") <=> f \in own
      BY <1>1, <2>1, OfOneRule
    <2>3. own \subseteq found
      BY <1>1, <2>1 DEF RunRules
    <2> HIDE DEF own
    <2> QED BY <2>2, <2>3
  <1>3. UNION {f.databases : f \in {g \in own : g.principal = l}} = {csv[i].database : i \in hits}
    <2>1. DatabasesRaised(own, l) = DatabasesHit(csv, R1Hits(csv), l)
      BY DatabasesAre
    <2> QED BY <2>1, Zenon DEF DatabasesRaised, DatabasesHit
  <1>4. {x \in Slot : Holds(l, x)} = {csv[i].database : i \in hits}
    <2>1. ASSUME NEW x \in Slot, Holds(l, x)
          PROVE  \E i \in hits : csv[i].database = x
      BY <1>1, <2>1, AdminReadBack DEF R1Hits
    <2>2. ASSUME NEW i \in hits
          PROVE  csv[i].database \in Slot /\ Holds(l, csv[i].database)
      <3>1. i \in DOMAIN csv /\ csv[i].level = "Admin" /\ csv[i].login = l
        BY DEF R1Hits
      <3>2. PICK k \in Login, x \in Slot :
               /\ csv[i].login = k /\ csv[i].database = x
               /\ (csv[i].level = "Admin") <=> Holds(k, x)
        BY <1>1, <3>1, AdminReadBack
      <3> QED BY <3>1, <3>2
    <2> HIDE DEF hits
    <2> QED BY <2>1, <2>2
  <1> HIDE DEF own, hits
  <1> QED BY <1>2, <1>3, <1>4

\* R1 raises a login for exactly the configured databases whose servers make it
\* sysadmin, or whose listed user of that login is db_owner or was granted
\* ALTER, CONTROL or TAKE OWNERSHIP: from the answers of the servers through
\* the CSV to the findings no administrator is lost and none is made up
\* (access_logic.py, csv_codec.py, rules/r1_sql_login_admin.py).
THEOREM AdministratorsReachTheFindings == Spec => []AdministratorsAreRaised
  <1>1. ExtractInv => AdministratorsAreRaised
    BY AdministratorsFound
  <1> QED BY <1>1, AlwaysExtractInv, PTL

LEMMA PlainServersBreach ==
    ASSUME ExtractInv
    PROVE  SodBreachOnPlainServers
  <1> DEFINE plain == {x \in Slot : EnvTags[x[2]] = {}}
  <1> SUFFICES ASSUME Live, found # None, BreachOn(plain)
               PROVE  FALSE
    BY DEF SodBreachOnPlainServers
  <1>1. pc = "done" /\ found = RunRules(csv, now)
    BY FoundIs
  <1>2. PICK l \in Login, x \in plain, y \in plain :
           /\ Holds(l, x) /\ "dev" \in EnvTags[x[1]] /\ "prod" \notin EnvTags[x[1]]
           /\ Holds(l, y) /\ "prod" \in EnvTags[y[1]]
           /\ l \notin Raised("R3", found)
    BY DEF BreachOn
  <1>3. Env(x) = "dev" /\ Env(y) = "prod"
    <2>1. Tags(x) = EnvTags[x[1]] /\ Tags(y) = EnvTags[y[1]]
      BY <1>2 DEF Tags
    <2> QED BY <1>2, <2>1 DEF Env
  <1> DEFINE AdminRow(z) ==
                \E k \in DOMAIN csv :
                    csv[k].login = l /\ csv[k].database = z /\ csv[k].level = "Admin"
  <1>a. ASSUME NEW z \in Slot, Holds(l, z)
        PROVE  AdminRow(z)
    <2>1. PICK k \in DOMAIN csv :
             /\ csv[k].login = l /\ csv[k].database = z
             /\ (csv[k].level = "Admin") <=> Holds(l, z)
      BY <1>1, AdminReadBack
    <2> QED BY <1>a, <2>1
  <1>4. PICK i \in DOMAIN csv : csv[i].login = l /\ csv[i].database = x /\ csv[i].level = "Admin"
    BY <1>2, <1>a
  <1>5. PICK j \in DOMAIN csv : csv[j].login = l /\ csv[j].database = y /\ csv[j].level = "Admin"
    BY <1>2, <1>a
  <1>6. i \in R3In(csv, "dev") /\ j \in R3In(csv, "prod")
    BY <1>3, <1>4, <1>5 DEF R3In, IsPrivileged
  <1>7. i \in R3Hits(csv)
    BY <1>4, <1>5, <1>6 DEF R3Hits
  <1>8. l \in Raised("R3", found)
    <2>1. Raised("R3", found) = LoginsOf(csv, R3Hits(csv))
      BY <1>1, RaisedAre
    <2> QED BY <1>4, <1>7, <2>1 DEF LoginsOf
  <1> QED BY <1>2, <1>8

\* On servers whose names carry no environment, R3 raises every login that
\* administers a development and a production database, as its docstring says
\* (rules/r3_sod_breach.py); the code does not keep this on servers named after
\* an environment, because the name is searched with the database's.
THEOREM PlainServersKeepR3 == Spec => []SodBreachOnPlainServers
  <1>1. ExtractInv => SodBreachOnPlainServers
    BY PlainServersBreach
  <1> QED BY <1>1, AlwaysExtractInv, PTL

-----------------------------------------------------------------------------
(* The counterfactual pairs                                                *)

OneIfAny(hits) == IF hits = {} THEN 0 ELSE 1

LEMMA OneFinding ==
    ASSUME NEW rule, NEW rs, NEW l, \A i \in DOMAIN rs : rs[i].login = l,
           NEW hits \in SUBSET (DOMAIN rs)
    PROVE  Cardinality(PerPrincipal(rule, rs, hits)) = OneIfAny(hits)
  <1> DEFINE F(p) == Finding(rule, p, {rs[i].database : i \in {j \in hits : rs[j].login = p}}, 0)
  <1>1. PerPrincipal(rule, rs, hits) = {F(p) : p \in {rs[i].login : i \in hits}}
    BY Zenon DEF PerPrincipal
  <1> HIDE DEF F
  <1>2. CASE hits = {}
    <2>1. PerPrincipal(rule, rs, hits) = {}
      BY <1>1, <1>2
    <2> QED BY <1>2, <2>1, FS_EmptySet DEF OneIfAny
  <1>3. CASE hits # {}
    <2>1. PerPrincipal(rule, rs, hits) = {F(l)}
      BY <1>1, <1>3
    <2> QED BY <1>3, <2>1, FS_Singleton DEF OneIfAny
  <1> QED BY <1>2, <1>3

\* On rows of one login, one of which R5 may hit, a rule that hits at all
\* raises one finding.
LEMMA CountsAre ==
    ASSUME NEW rs, NEW t, NEW l, \A i \in DOMAIN rs : rs[i].login = l,
           \A i, j \in R5Hits(rs) : i = j
    PROVE  /\ Summary(RunRules(rs, t))["R1"] = OneIfAny(R1Hits(rs))
           /\ Summary(RunRules(rs, t))["R2"] = OneIfAny(R2Hits(rs, t))
           /\ Summary(RunRules(rs, t))["R3"] = OneIfAny(R3Hits(rs))
           /\ Summary(RunRules(rs, t))["R4"] = OneIfAny(R4Hits(rs))
           /\ Summary(RunRules(rs, t))["R5"] = OneIfAny(R5Hits(rs))
           /\ Summary(RunRules(rs, t))["R6"] = OneIfAny(R6Hits(rs))
  <1> DEFINE all == RunRules(rs, t)
             Of(rule) == {f \in all : f.rule = rule}
  <1>1. /\ Of("R1") = R1SqlLoginAdmin(rs, t) /\ Of("R2") = R2DormantAdmin(rs, t)
        /\ Of("R3") = R3SodBreach(rs, t) /\ Of("R4") = R4OrphanedLogin(rs, t)
        /\ Of("R5") = R5RbacBypass(rs, t) /\ Of("R6") = R6SharedAccount(rs, t)
    <2>1. /\ R1SqlLoginAdmin(rs, t) \subseteq all /\ R2DormantAdmin(rs, t) \subseteq all
          /\ R3SodBreach(rs, t) \subseteq all /\ R4OrphanedLogin(rs, t) \subseteq all
          /\ R5RbacBypass(rs, t) \subseteq all /\ R6SharedAccount(rs, t) \subseteq all
      BY DEF RunRules
    <2>2. \A f \in all :
            /\ f.rule = "R1" <=> f \in R1SqlLoginAdmin(rs, t)
            /\ f.rule = "R2" <=> f \in R2DormantAdmin(rs, t)
            /\ f.rule = "R3" <=> f \in R3SodBreach(rs, t)
            /\ f.rule = "R4" <=> f \in R4OrphanedLogin(rs, t)
            /\ f.rule = "R5" <=> f \in R5RbacBypass(rs, t)
            /\ f.rule = "R6" <=> f \in R6SharedAccount(rs, t)
      BY OfOneRule
    <2> HIDE DEF all
    <2> QED BY <2>1, <2>2
  <1>2. Summary(all) = [r \in RuleId |-> Cardinality(Of(r))]
    BY DEF Summary
  <1> HIDE DEF Of
  <1>3. /\ Summary(all)["R1"] = Cardinality(Of("R1")) /\ Summary(all)["R2"] = Cardinality(Of("R2"))
        /\ Summary(all)["R3"] = Cardinality(Of("R3")) /\ Summary(all)["R4"] = Cardinality(Of("R4"))
        /\ Summary(all)["R5"] = Cardinality(Of("R5")) /\ Summary(all)["R6"] = Cardinality(Of("R6"))
    BY <1>2 DEF RuleId
  <1>4. Cardinality(R5RbacBypass(rs, t)) = OneIfAny(R5Hits(rs))
    <2> DEFINE F(i) == Finding("R5", rs[i].login, {rs[i].database}, i)
    <2>1. R5RbacBypass(rs, t) = {F(i) : i \in R5Hits(rs)}
      BY Zenon DEF R5RbacBypass, R5Hits
    <2> HIDE DEF F
    <2>2. CASE R5Hits(rs) = {}
      <3>1. R5RbacBypass(rs, t) = {}
        BY <2>1, <2>2
      <3> QED BY <2>2, <3>1, FS_EmptySet DEF OneIfAny
    <2>3. ASSUME NEW i \in R5Hits(rs) PROVE Cardinality(R5RbacBypass(rs, t)) = OneIfAny(R5Hits(rs))
      <3>1. R5RbacBypass(rs, t) = {F(i)}
        BY <2>1, <2>3
      <3>2. R5Hits(rs) # {}
        BY <2>3
      <3> QED BY <3>1, <3>2, FS_Singleton DEF OneIfAny
    <2> QED BY <2>2, <2>3
  <1>5. Cardinality(R1SqlLoginAdmin(rs, t)) = OneIfAny(R1Hits(rs))
    <2>1. R1SqlLoginAdmin(rs, t) = PerPrincipal("R1", rs, R1Hits(rs))
      BY RulesAre
    <2> QED BY <2>1, HitsInRows, OneFinding
  <1>6. Cardinality(R2DormantAdmin(rs, t)) = OneIfAny(R2Hits(rs, t))
    <2>1. R2DormantAdmin(rs, t) = PerPrincipal("R2", rs, R2Hits(rs, t))
      BY RulesAre
    <2> QED BY <2>1, HitsInRows, OneFinding
  <1>7. Cardinality(R3SodBreach(rs, t)) = OneIfAny(R3Hits(rs))
    <2>1. R3SodBreach(rs, t) = PerPrincipal("R3", rs, R3Hits(rs))
      BY RulesAre
    <2> QED BY <2>1, HitsInRows, OneFinding
  <1>8. Cardinality(R4OrphanedLogin(rs, t)) = OneIfAny(R4Hits(rs))
    <2>1. R4OrphanedLogin(rs, t) = PerPrincipal("R4", rs, R4Hits(rs))
      BY RulesAre
    <2> QED BY <2>1, HitsInRows, OneFinding
  <1>9. Cardinality(R6SharedAccount(rs, t)) = OneIfAny(R6Hits(rs))
    <2>1. R6SharedAccount(rs, t) = PerPrincipal("R6", rs, R6Hits(rs))
      BY RulesAre
    <2> QED BY <2>1, HitsInRows, OneFinding
  <1> QED BY <1>1, <1>3, <1>4, <1>5, <1>6, <1>7, <1>8, <1>9

\* What the rules make of a CSV of one row.
LEMMA OneRow ==
    ASSUME NEW row, NEW t
    PROVE  LET rs == <<row>> IN
           /\ Summary(RunRules(rs, t))["R1"]
                 = IF row.type = "SQL_LOGIN" /\ row.level = "Admin" THEN 1 ELSE 0
           /\ Summary(RunRules(rs, t))["R2"]
                 = IF row.level = "Admin" /\ LastSign(row) < t - DormantDays * Day THEN 1 ELSE 0
           /\ Summary(RunRules(rs, t))["R3"] = 0
           /\ Summary(RunRules(rs, t))["R4"] = IF row.user = None THEN 1 ELSE 0
           /\ Summary(RunRules(rs, t))["R5"]
                 = IF row.explicit # {} /\ row.roles = {} THEN 1 ELSE 0
           /\ Summary(RunRules(rs, t))["R6"] = IF row.login \in SharedName THEN 1 ELSE 0
  <1> DEFINE rs == <<row>>
  <1>1. DOMAIN rs = {1} /\ rs[1] = row
    OBVIOUS
  <1> HIDE DEF rs
  <1>2. R1Hits(rs) # {} <=> row.type = "SQL_LOGIN" /\ row.level = "Admin"
    BY <1>1 DEF R1Hits
  <1>3. R2Hits(rs, t) # {} <=> row.level = "Admin" /\ LastSign(row) < t - DormantDays * Day
    <2> DEFINE dormant == LastSign(row) < t - DormantDays * Day
    <2>1. R2Hits(rs, t) = {i \in {1} : row.level = "Admin" /\ dormant}
      BY <1>1 DEF R2Hits
    <2> HIDE DEF dormant
    <2>2. R2Hits(rs, t) # {} <=> row.level = "Admin" /\ dormant
      BY <2>1
    <2> QED BY <2>2 DEF dormant
  <1>4. R3Hits(rs) = {}
    <2>1. ~(\E i \in R3In(rs, "dev") : TRUE) \/ ~(\E i \in R3In(rs, "prod") : TRUE)
      BY <1>1 DEF R3In
    <2> QED BY <2>1 DEF R3Hits
  <1>5. R4Hits(rs) # {} <=> row.user = None
    BY <1>1 DEF R4Hits
  <1>6. R5Hits(rs) # {} <=> row.explicit # {} /\ row.roles = {}
    BY <1>1 DEF R5Hits
  <1>7. R6Hits(rs) # {} <=> row.login \in SharedName
    BY <1>1 DEF R6Hits
  <1>8. \A i, j \in R5Hits(rs) : i = j
    BY <1>1 DEF R5Hits
  <1>9. \A i \in DOMAIN rs : rs[i].login = row.login
    BY <1>1
  <1>10. /\ Summary(RunRules(rs, t))["R1"] = OneIfAny(R1Hits(rs))
         /\ Summary(RunRules(rs, t))["R2"] = OneIfAny(R2Hits(rs, t))
         /\ Summary(RunRules(rs, t))["R3"] = OneIfAny(R3Hits(rs))
         /\ Summary(RunRules(rs, t))["R4"] = OneIfAny(R4Hits(rs))
         /\ Summary(RunRules(rs, t))["R5"] = OneIfAny(R5Hits(rs))
         /\ Summary(RunRules(rs, t))["R6"] = OneIfAny(R6Hits(rs))
    BY <1>8, <1>9, CountsAre
  <1> DEFINE dormant == LastSign(row) < t - DormantDays * Day
  <1>11. R2Hits(rs, t) # {} <=> row.level = "Admin" /\ dormant
    BY <1>3
  <1> HIDE DEF dormant
  <1>12. /\ Summary(RunRules(rs, t))["R1"]
               = IF row.type = "SQL_LOGIN" /\ row.level = "Admin" THEN 1 ELSE 0
         /\ Summary(RunRules(rs, t))["R2"] = IF row.level = "Admin" /\ dormant THEN 1 ELSE 0
         /\ Summary(RunRules(rs, t))["R3"] = 0
         /\ Summary(RunRules(rs, t))["R4"] = IF row.user = None THEN 1 ELSE 0
         /\ Summary(RunRules(rs, t))["R5"]
               = IF row.explicit # {} /\ row.roles = {} THEN 1 ELSE 0
         /\ Summary(RunRules(rs, t))["R6"] = IF row.login \in SharedName THEN 1 ELSE 0
    BY <1>2, <1>4, <1>5, <1>6, <1>7, <1>10, <1>11 DEF OneIfAny
  <1> QED BY <1>12 DEF rs, dormant

LEMMA PairsAre ==
    /\ GENERATORS["R1"].base = <<SqlAdmin>>
    /\ GENERATORS["R1"].mutated = <<[SqlAdmin EXCEPT !.type = "WINDOWS_LOGIN"]>>
    /\ GENERATORS["R2"].base = <<Dormant>>
    /\ GENERATORS["R2"].mutated = <<[Dormant EXCEPT !.active = -10 * Day]>>
    /\ GENERATORS["R3"].base = <<Etl("appdb_dev"), Etl("appdb_prod")>>
    /\ GENERATORS["R3"].mutated = <<Etl("appdb_dev"), Etl("appdb_test")>>
    /\ GENERATORS["R4"].base = <<Orphan>>
    /\ GENERATORS["R4"].mutated = <<[Orphan EXCEPT !.user = "orphan_acct"]>>
    /\ GENERATORS["R5"].base = <<Bypass>>
    /\ GENERATORS["R5"].mutated = <<[Bypass EXCEPT !.explicit = {}]>>
    /\ GENERATORS["R6"].base = <<Row("svc_app")>>
    /\ GENERATORS["R6"].mutated = <<Row("alice_appuser")>>
  BY DEF GENERATORS, GeneratorsFlipping, Single

\* A pair of single rows that differ in one attribute differs in one rule.
LEMMA SqlAdminIsolates ==
    ASSUME NEW t \in Int
    PROVE  OtherRulesUnchanged("R1", t) /\ TargetedRuleChanged("R1", t)
  <1> DEFINE flipped == [SqlAdmin EXCEPT !.type = "WINDOWS_LOGIN"]
  <1>1. /\ SqlAdmin.type = "SQL_LOGIN" /\ SqlAdmin.level = "Admin"
        /\ flipped.type = "WINDOWS_LOGIN" /\ flipped.level = SqlAdmin.level
        /\ flipped.user = SqlAdmin.user /\ flipped.login = SqlAdmin.login
        /\ flipped.explicit = SqlAdmin.explicit /\ flipped.roles = SqlAdmin.roles
        /\ flipped.active = SqlAdmin.active /\ flipped.created = SqlAdmin.created
    BY DEF SqlAdmin, Row
  <1>2. LastSign(flipped) = LastSign(SqlAdmin)
    BY <1>1 DEF LastSign
  <1>3. GENERATORS["R1"].base = <<SqlAdmin>> /\ GENERATORS["R1"].mutated = <<flipped>>
    BY PairsAre
  <1> HIDE DEF flipped
  <1> DEFINE b == Summary(RunRules(<<SqlAdmin>>, t))
             m == Summary(RunRules(<<flipped>>, t))
  <1>4. /\ b["R1"] = 1 /\ m["R1"] = 0 /\ b["R2"] = m["R2"] /\ b["R3"] = m["R3"]
        /\ b["R4"] = m["R4"] /\ b["R5"] = m["R5"] /\ b["R6"] = m["R6"]
    BY <1>1, <1>2, OneRow
  <1> QED BY <1>3, <1>4 DEF OtherRulesUnchanged, TargetedRuleChanged, RuleId

LEMMA OrphanIsolates ==
    ASSUME NEW t \in Int
    PROVE  OtherRulesUnchanged("R4", t) /\ TargetedRuleChanged("R4", t)
  <1> DEFINE flipped == [Orphan EXCEPT !.user = "orphan_acct"]
  <1>1. /\ Orphan.user = None /\ flipped.user # None
        /\ flipped.type = Orphan.type /\ flipped.level = Orphan.level
        /\ flipped.login = Orphan.login /\ flipped.explicit = Orphan.explicit
        /\ flipped.roles = Orphan.roles /\ flipped.active = Orphan.active
        /\ flipped.created = Orphan.created
    BY ScenariosAssumption DEF Orphan, Row, Names
  <1>2. LastSign(flipped) = LastSign(Orphan)
    BY <1>1 DEF LastSign
  <1>3. GENERATORS["R4"].base = <<Orphan>> /\ GENERATORS["R4"].mutated = <<flipped>>
    BY PairsAre
  <1> HIDE DEF flipped
  <1> DEFINE b == Summary(RunRules(<<Orphan>>, t))
             m == Summary(RunRules(<<flipped>>, t))
  <1>4. /\ b["R4"] = 1 /\ m["R4"] = 0 /\ b["R1"] = m["R1"] /\ b["R2"] = m["R2"]
        /\ b["R3"] = m["R3"] /\ b["R5"] = m["R5"] /\ b["R6"] = m["R6"]
    BY <1>1, <1>2, OneRow
  <1> QED BY <1>3, <1>4 DEF OtherRulesUnchanged, TargetedRuleChanged, RuleId

LEMMA BypassIsolates ==
    ASSUME NEW t \in Int
    PROVE  OtherRulesUnchanged("R5", t) /\ TargetedRuleChanged("R5", t)
  <1> DEFINE flipped == [Bypass EXCEPT !.explicit = {}]
  <1>1. /\ Bypass.explicit # {} /\ Bypass.roles = {} /\ flipped.explicit = {}
        /\ flipped.type = Bypass.type /\ flipped.level = Bypass.level
        /\ flipped.login = Bypass.login /\ flipped.user = Bypass.user
        /\ flipped.roles = Bypass.roles /\ flipped.active = Bypass.active
        /\ flipped.created = Bypass.created
    BY DEF Bypass, Row
  <1>2. LastSign(flipped) = LastSign(Bypass)
    BY <1>1 DEF LastSign
  <1>3. GENERATORS["R5"].base = <<Bypass>> /\ GENERATORS["R5"].mutated = <<flipped>>
    BY PairsAre
  <1> HIDE DEF flipped
  <1> DEFINE b == Summary(RunRules(<<Bypass>>, t))
             m == Summary(RunRules(<<flipped>>, t))
  <1>4. /\ b["R5"] = 1 /\ m["R5"] = 0 /\ b["R1"] = m["R1"] /\ b["R2"] = m["R2"]
        /\ b["R3"] = m["R3"] /\ b["R4"] = m["R4"] /\ b["R6"] = m["R6"]
    BY <1>1, <1>2, OneRow
  <1> QED BY <1>3, <1>4 DEF OtherRulesUnchanged, TargetedRuleChanged, RuleId

LEMMA SharedNameIsolates ==
    ASSUME NEW t \in Int
    PROVE  OtherRulesUnchanged("R6", t) /\ TargetedRuleChanged("R6", t)
  <1> DEFINE base == Row("svc_app")
             flipped == Row("alice_appuser")
  <1>1. /\ base.login \in SharedName /\ flipped.login \notin SharedName
        /\ base.user # None /\ flipped.user # None
        /\ flipped.type = base.type /\ flipped.level = base.level
        /\ flipped.explicit = base.explicit /\ flipped.roles = base.roles
        /\ flipped.active = base.active /\ flipped.created = base.created
    BY ScenariosAssumption DEF Row, Names
  <1>2. LastSign(flipped) = LastSign(base)
    BY <1>1 DEF LastSign
  <1>3. GENERATORS["R6"].base = <<base>> /\ GENERATORS["R6"].mutated = <<flipped>>
    BY PairsAre
  <1> HIDE DEF base, flipped
  <1> DEFINE b == Summary(RunRules(<<base>>, t))
             m == Summary(RunRules(<<flipped>>, t))
  <1>4. /\ b["R6"] = 1 /\ m["R6"] = 0 /\ b["R1"] = m["R1"] /\ b["R2"] = m["R2"]
        /\ b["R3"] = m["R3"] /\ b["R4"] = m["R4"] /\ b["R5"] = m["R5"]
    BY <1>1, <1>2, OneRow
  <1> QED BY <1>3, <1>4 DEF OtherRulesUnchanged, TargetedRuleChanged, RuleId

\* The base of R2 was created long before day 0; the flipped row was active
\* ten days before it.
LEMMA DormantIsolates ==
    ASSUME NEW t \in Nat
    PROVE  /\ OtherRulesUnchanged("R2", t)
           /\ TargetedRuleChanged("R2", t) <=> t <= (DormantDays - 10) * Day
  <1> DEFINE flipped == [Dormant EXCEPT !.active = -10 * Day]
  <1>1. /\ Dormant.level = "Admin" /\ Dormant.active = None
        /\ Dormant.created = -2306 * Day /\ flipped.active = -10 * Day
        /\ flipped.type = Dormant.type /\ flipped.level = Dormant.level
        /\ flipped.login = Dormant.login /\ flipped.user = Dormant.user
        /\ flipped.explicit = Dormant.explicit /\ flipped.roles = Dormant.roles
    BY DEF Dormant, Row
  <1>2. LastSign(Dormant) = -2306 * Day /\ LastSign(flipped) = -10 * Day
    BY <1>1, ExtractAssumption DEF LastSign, Day
  <1>3. GENERATORS["R2"].base = <<Dormant>> /\ GENERATORS["R2"].mutated = <<flipped>>
    BY PairsAre
  <1> HIDE DEF flipped
  <1> DEFINE b == Summary(RunRules(<<Dormant>>, t))
             m == Summary(RunRules(<<flipped>>, t))
  <1>4. /\ b["R1"] = m["R1"] /\ b["R3"] = m["R3"] /\ b["R4"] = m["R4"]
        /\ b["R5"] = m["R5"] /\ b["R6"] = m["R6"]
    BY <1>1, OneRow
  <1>5. b["R2"] = 1 /\ m["R2"] = IF -10 * Day < t - DormantDays * Day THEN 1 ELSE 0
    <2>1. -2306 * Day < t - DormantDays * Day
      BY DEF Day, DormantDays
    <2>2. flipped.level = "Admin" /\ Dormant.level = "Admin"
      BY <1>1
    <2>3. b["R2"] = 1
      BY <1>2, <2>1, <2>2, OneRow
    <2>4. m["R2"] = IF -10 * Day < t - DormantDays * Day THEN 1 ELSE 0
      BY <1>2, <2>2, OneRow
    <2> QED BY <2>3, <2>4
  <1>6. b["R2"] > m["R2"] <=> t <= (DormantDays - 10) * Day
    BY <1>5 DEF Day, DormantDays
  <1> HIDE DEF b, m
  <1>7. TargetedRuleChanged("R2", t) <=> b["R2"] > m["R2"]
    BY <1>3 DEF TargetedRuleChanged, b, m
  <1>8. OtherRulesUnchanged("R2", t)
    BY <1>3, <1>4 DEF OtherRulesUnchanged, RuleId, b, m
  <1> QED BY <1>6, <1>7, <1>8

\* The rows of one administrator in two databases: every rule but R3 makes the
\* same of them whatever the second database is.
LEMMA EtlRows ==
    ASSUME NEW name, NEW rs, rs = <<Etl("appdb_dev"), Etl(name)>>
    PROVE  /\ DOMAIN rs = {1, 2} /\ rs[1].database = <<"appdb_dev", "sql01">>
           /\ rs[2].database = <<name, "sql01">>
           /\ \A i \in DOMAIN rs :
                 /\ rs[i].login = "etl_batch" /\ rs[i].user = "etl_batch"
                 /\ rs[i].type = "WINDOWS_LOGIN" /\ rs[i].level = "Admin"
                 /\ rs[i].explicit = {} /\ LastSign(rs[i]) = -10 * Day
  <1>1. DOMAIN rs = {1, 2} /\ rs[1] = Etl("appdb_dev") /\ rs[2] = Etl(name)
    OBVIOUS
  <1>2. \A x : /\ Etl(x).login = "etl_batch" /\ Etl(x).user = "etl_batch"
               /\ Etl(x).type = "WINDOWS_LOGIN" /\ Etl(x).level = "Admin"
               /\ Etl(x).explicit = {} /\ Etl(x).active = -10 * Day
               /\ Etl(x).database = <<x, "sql01">>
    BY DEF Etl, Row
  <1>3. \A x : LastSign(Etl(x)) = -10 * Day
    BY <1>2, ExtractAssumption DEF LastSign, Day
  <1> QED BY <1>1, <1>2, <1>3

LEMMA EtlCounts ==
    ASSUME NEW t \in Int, NEW name, NEW rs, rs = <<Etl("appdb_dev"), Etl(name)>>
    PROVE  /\ Summary(RunRules(rs, t))["R1"] = 0
           /\ Summary(RunRules(rs, t))["R2"]
                 = IF -10 * Day < t - DormantDays * Day THEN 1 ELSE 0
           /\ Summary(RunRules(rs, t))["R3"] = OneIfAny(R3Hits(rs))
           /\ Summary(RunRules(rs, t))["R4"] = 0
           /\ Summary(RunRules(rs, t))["R5"] = 0
           /\ Summary(RunRules(rs, t))["R6"]
                 = IF "etl_batch" \in SharedName THEN 1 ELSE 0
  <1>1. DOMAIN rs = {1, 2}
    BY EtlRows
  <1>2. \A i \in DOMAIN rs :
           /\ rs[i].login = "etl_batch" /\ rs[i].user = "etl_batch"
           /\ rs[i].type = "WINDOWS_LOGIN" /\ rs[i].level = "Admin"
           /\ rs[i].explicit = {} /\ LastSign(rs[i]) = -10 * Day
    BY EtlRows
  <1>3. R1Hits(rs) = {} /\ R5Hits(rs) = {}
    BY <1>2 DEF R1Hits, R5Hits
  <1>4. R4Hits(rs) = {}
    BY <1>2, ScenariosAssumption DEF R4Hits, Names
  <1>5. R6Hits(rs) # {} <=> "etl_batch" \in SharedName
    BY <1>1, <1>2 DEF R6Hits
  <1> DEFINE dormant == -10 * Day < t - DormantDays * Day
  <1>6. R2Hits(rs, t) # {} <=> dormant
    <2>1. R2Hits(rs, t) = {i \in {1, 2} : dormant}
      BY <1>1, <1>2 DEF R2Hits
    <2> HIDE DEF dormant
    <2> QED BY <2>1
  <1>7. /\ Summary(RunRules(rs, t))["R1"] = OneIfAny(R1Hits(rs))
        /\ Summary(RunRules(rs, t))["R2"] = OneIfAny(R2Hits(rs, t))
        /\ Summary(RunRules(rs, t))["R3"] = OneIfAny(R3Hits(rs))
        /\ Summary(RunRules(rs, t))["R4"] = OneIfAny(R4Hits(rs))
        /\ Summary(RunRules(rs, t))["R5"] = OneIfAny(R5Hits(rs))
        /\ Summary(RunRules(rs, t))["R6"] = OneIfAny(R6Hits(rs))
    <2>1. \A i, j \in R5Hits(rs) : i = j
      BY <1>3
    <2>2. \A i \in DOMAIN rs : rs[i].login = "etl_batch"
      BY <1>2
    <2> QED BY <2>1, <2>2, CountsAre
  <1> HIDE DEF dormant
  <1>8. Summary(RunRules(rs, t))["R2"] = IF dormant THEN 1 ELSE 0
    BY <1>6, <1>7 DEF OneIfAny
  <1>9. /\ Summary(RunRules(rs, t))["R1"] = 0 /\ Summary(RunRules(rs, t))["R4"] = 0
        /\ Summary(RunRules(rs, t))["R5"] = 0
        /\ Summary(RunRules(rs, t))["R6"] = IF "etl_batch" \in SharedName THEN 1 ELSE 0
    BY <1>3, <1>4, <1>5, <1>7 DEF OneIfAny
  <1> QED BY <1>7, <1>8, <1>9 DEF dormant

LEMMA EtlIsolates ==
    ASSUME NEW t \in Int
    PROVE  OtherRulesUnchanged("R3", t) /\ TargetedRuleChanged("R3", t)
  <1> DEFINE base == <<Etl("appdb_dev"), Etl("appdb_prod")>>
             flipped == <<Etl("appdb_dev"), Etl("appdb_test")>>
             b == Summary(RunRules(base, t))
             m == Summary(RunRules(flipped, t))
  <1>1. /\ Env(<<"appdb_dev", "sql01">>) = "dev" /\ Env(<<"appdb_prod", "sql01">>) = "prod"
        /\ Env(<<"appdb_test", "sql01">>) = "other"
    <2>1. /\ Tags(<<"appdb_dev", "sql01">>) = {"dev"}
          /\ Tags(<<"appdb_prod", "sql01">>) = {"prod"}
          /\ Tags(<<"appdb_test", "sql01">>) = {}
      BY ScenariosAssumption DEF Tags
    <2> QED BY <2>1 DEF Env
  <1>2. R3Hits(base) # {}
    <2>1. /\ DOMAIN base = {1, 2} /\ base[1].database = <<"appdb_dev", "sql01">>
          /\ base[2].database = <<"appdb_prod", "sql01">>
          /\ \A i \in DOMAIN base : base[i].login = "etl_batch" /\ base[i].level = "Admin"
      BY EtlRows
    <2> HIDE DEF base
    <2>2. 1 \in R3In(base, "dev") /\ 2 \in R3In(base, "prod")
      BY <1>1, <2>1 DEF R3In, IsPrivileged
    <2>3. 1 \in R3Hits(base)
      BY <2>1, <2>2 DEF R3Hits
    <2> QED BY <2>3
  <1>3. R3Hits(flipped) = {}
    <2>1. /\ DOMAIN flipped = {1, 2} /\ flipped[1].database = <<"appdb_dev", "sql01">>
          /\ flipped[2].database = <<"appdb_test", "sql01">>
      BY EtlRows
    <2> HIDE DEF flipped
    <2>2. R3In(flipped, "prod") = {}
      BY <1>1, <2>1 DEF R3In
    <2> QED BY <2>2 DEF R3Hits
  <1>4. /\ b["R1"] = 0 /\ b["R4"] = 0 /\ b["R5"] = 0 /\ b["R3"] = OneIfAny(R3Hits(base))
        /\ b["R2"] = IF -10 * Day < t - DormantDays * Day THEN 1 ELSE 0
        /\ b["R6"] = IF "etl_batch" \in SharedName THEN 1 ELSE 0
    <2> HIDE DEF base
    <2> QED BY EtlCounts DEF base
  <1>5. /\ m["R1"] = 0 /\ m["R4"] = 0 /\ m["R5"] = 0 /\ m["R3"] = OneIfAny(R3Hits(flipped))
        /\ m["R2"] = IF -10 * Day < t - DormantDays * Day THEN 1 ELSE 0
        /\ m["R6"] = IF "etl_batch" \in SharedName THEN 1 ELSE 0
    <2> HIDE DEF flipped
    <2> QED BY EtlCounts DEF flipped
  <1>6. GENERATORS["R3"].base = base /\ GENERATORS["R3"].mutated = flipped
    BY PairsAre
  <1> HIDE DEF base, flipped
  <1>7. b["R3"] = 1 /\ m["R3"] = 0
    BY <1>2, <1>3, <1>4, <1>5 DEF OneIfAny
  <1>8. /\ b["R1"] = m["R1"] /\ b["R2"] = m["R2"] /\ b["R4"] = m["R4"]
        /\ b["R5"] = m["R5"] /\ b["R6"] = m["R6"]
    BY <1>4, <1>5
  <1> QED BY <1>6, <1>7, <1>8 DEF OtherRulesUnchanged, TargetedRuleChanged, RuleId

\* At every time from day 0 on the flip of a counterfactual pair leaves the other
\* rules as they are, and it changes its own: R2's up to the day when the flipped
\* row is dormant too.
THEOREM PairsIsolateTheirRules ==
    ASSUME Clock \subseteq Nat
    PROVE  Spec => []CounterfactualsIsolate
  <1>1. ASSUME ExtractInv PROVE CounterfactualsIsolate
    <2> SUFFICES ASSUME found # None, NEW r \in RuleId
                 PROVE  /\ OtherRulesUnchanged(r, now)
                        /\ (r = "R2" => now <= (DormantDays - 10) * Day)
                              => TargetedRuleChanged(r, now)
      BY DEF CounterfactualsIsolate
    <2>1. now \in Nat /\ now \in Int
      <3>1. DoneInv
        BY <1>1 DEF ExtractInv
      <3>2. now \in Clock
        BY <3>1 DEF DoneInv
      <3> QED BY <3>2
    <2>2. CASE r = "R2"
      BY <2>1, <2>2, DormantIsolates
    <2>3. CASE r # "R2"
      <3>1. r \in {"R1", "R3", "R4", "R5", "R6"}
        BY <2>3 DEF RuleId
      <3>2. OtherRulesUnchanged(r, now) /\ TargetedRuleChanged(r, now)
        BY <2>1, <3>1, SqlAdminIsolates, EtlIsolates, OrphanIsolates, BypassIsolates,
             SharedNameIsolates
      <3> QED BY <2>3, <3>2
    <2> QED BY <2>2, <2>3
  <1> QED BY <1>1, AlwaysExtractInv, PTL

-----------------------------------------------------------------------------
(* The golden scenarios and the demo CSV                                   *)

WholeDays == {k * Day : k \in Int}

\* A row that the cells of a CSV hold as it is: whole seconds, roles without commas.
PlainRow ==
    [login : Names, type : {"SQL_LOGIN", "WINDOWS_LOGIN"}, created : WholeDays,
     active : WholeDays, database : {App}, user : Names,
     roles : {{}, {"db_datareader"}, {"db_owner"}}, explicit : SUBSET Explicit,
     level : {"Admin", "Write", "ReadOnly"}]

LEMMA PlainRowKept ==
    ASSUME NEW row \in PlainRow
    PROVE  ThroughCsv(row) = row
  <1>1. \A k \in Int : Whole(k * Day) = k * Day /\ k * Day \in Int
    BY DEF Whole, Day
  <1>2. Whole(row.created) = row.created /\ Whole(row.active) = row.active /\ row.active # None
    BY <1>1, ExtractAssumption DEF PlainRow, WholeDays
  <1>3. UNION {RolePart[r] : r \in row.roles} = row.roles
    <2>1. CASE row.roles = {}
      BY <2>1
    <2>2. CASE row.roles = {"db_datareader"}
      BY <2>2, ScenariosAssumption
    <2>3. CASE row.roles = {"db_owner"}
      BY <2>3, ScenariosAssumption
    <2> QED BY <2>1, <2>2, <2>3 DEF PlainRow
  <1>4. ThroughCsv(row) = [row EXCEPT !.created = row.created, !.active = row.active,
                                      !.roles = row.roles]
    BY <1>2, <1>3 DEF ThroughCsv
  <1> QED BY <1>4 DEF PlainRow

LEMMA DecodingKeeps ==
    ASSUME NEW rs \in Seq(PlainRow)
    PROVE  Decoded(rs) = rs
  <1>1. DOMAIN rs = 1..Len(rs) /\ \A i \in DOMAIN rs : rs[i] \in PlainRow
    OBVIOUS
  <1>2. \A i \in DOMAIN rs : ThroughCsv(rs[i]) = rs[i]
    BY <1>1, PlainRowKept
  <1>3. Decoded(rs) = [i \in DOMAIN rs |-> rs[i]]
    BY <1>2 DEF Decoded
  <1> QED BY <1>1, <1>3


LEMMA WholeDaysAre == \A k \in Int : -k * Day \in WholeDays
  BY DEF WholeDays, Day

\* What the rules look at in a row of the scenarios.
Looks(row, login, type, level, days, bypass) ==
    /\ row \in PlainRow
    /\ row.login = login /\ row.type = type /\ row.level = level
    /\ row.active = -days * Day
    /\ (row.explicit # {} /\ row.roles = {}) <=> bypass

LEMMA RowIsPlain == \A l \in Names : Row(l) \in PlainRow
  <1>1. -845 * Day \in WholeDays /\ -10 * Day \in WholeDays
    BY WholeDaysAre
  <1>2. \A l \in Names : \A c, a \in WholeDays :
           [login |-> l, type |-> "WINDOWS_LOGIN", created |-> c,
            active |-> a, database |-> App, user |-> l,
            roles |-> {"db_datareader"}, explicit |-> {}, level |-> "ReadOnly"] \in PlainRow
    BY DEF PlainRow
  <1> QED BY <1>1, <1>2 DEF Row

LEMMA ChangedIsPlain ==
    ASSUME NEW row \in PlainRow
    PROVE  /\ [row EXCEPT !.level = "Admin"] \in PlainRow
           /\ [row EXCEPT !.type = "SQL_LOGIN"] \in PlainRow
           /\ \A x \in WholeDays : [row EXCEPT !.active = x] \in PlainRow
           /\ \A x \in WholeDays : [row EXCEPT !.created = x] \in PlainRow
  BY DEF PlainRow

LEMMA BypassIsPlain ==
    ASSUME NEW row \in PlainRow
    PROVE  [row EXCEPT !.level = "Write", !.roles = {}, !.explicit = {"write"}] \in PlainRow
  <1> DEFINE writer == [row EXCEPT !.level = "Write"]
             bare == [writer EXCEPT !.roles = {}]
  <1>1. writer \in PlainRow
    BY DEF PlainRow
  <1>2. [row EXCEPT !.level = "Write", !.roles = {}, !.explicit = {"write"}]
           = [bare EXCEPT !.explicit = {"write"}]
    OBVIOUS
  <1> HIDE DEF writer
  <1>3. bare \in PlainRow
    BY <1>1 DEF PlainRow
  <1> HIDE DEF bare
  <1>4. [bare EXCEPT !.explicit = {"write"}] \in PlainRow
    BY <1>3 DEF PlainRow, Explicit
  <1> QED BY <1>2, <1>4, Zenon

LEMMA BoundaryLooks ==
    ASSUME NEW days \in Nat
    PROVE  Looks(Boundary(days), "boundary_admin", "WINDOWS_LOGIN", "Admin", days, FALSE)
  <1>1. Row("boundary_admin") \in PlainRow
    BY RowIsPlain DEF Names
  <1>2. -days * Day \in WholeDays /\ -400 * Day \in WholeDays
    BY WholeDaysAre
  <1> DEFINE admin == [Row("boundary_admin") EXCEPT !.level = "Admin"]
             active == [admin EXCEPT !.active = -days * Day]
  <1>3. Boundary(days) \in PlainRow
    <2>1. admin \in PlainRow
      BY <1>1, ChangedIsPlain
    <2>2. Boundary(days) = [active EXCEPT !.created = -400 * Day]
      BY DEF Boundary
    <2> HIDE DEF admin
    <2>3. active \in PlainRow
      BY <1>2, <2>1, ChangedIsPlain
    <2> HIDE DEF active
    <2>4. [active EXCEPT !.created = -400 * Day] \in PlainRow
      BY <1>2, <2>3, ChangedIsPlain
    <2> QED BY <2>2, <2>4, Zenon
  <1>4. /\ Boundary(days).login = "boundary_admin" /\ Boundary(days).type = "WINDOWS_LOGIN"
        /\ Boundary(days).level = "Admin" /\ Boundary(days).active = -days * Day
        /\ Boundary(days).explicit = {}
    BY DEF Boundary, Row
  <1> QED BY <1>3, <1>4 DEF Looks


\* Of plain rows, all of one database and all mapped to a user, R3 and R4 hit
\* none, and R2 those of administrators that were active too long ago.
LEMMA PlainHits ==
    ASSUME NEW rs \in Seq(PlainRow), NEW t \in Int
    PROVE  /\ R3Hits(rs) = {} /\ R4Hits(rs) = {}
           /\ R2Hits(rs, t) =
                 {i \in DOMAIN rs : rs[i].level = "Admin" /\ rs[i].active < t - DormantDays * Day}
  <1>1. DOMAIN rs = 1..Len(rs) /\ \A i \in DOMAIN rs : rs[i] \in PlainRow
    OBVIOUS
  <1>2. \A i \in DOMAIN rs : rs[i].user # None /\ rs[i].active # None /\ rs[i].database = App
    <2>1. \A d \in WholeDays : d \in Int
      BY DEF WholeDays, Day
    <2> QED BY <1>1, <2>1, ExtractAssumption, ScenariosAssumption DEF PlainRow
  <1>3. R4Hits(rs) = {}
    BY <1>2 DEF R4Hits
  <1>4. R3Hits(rs) = {}
    <2>1. R3In(rs, "dev") = {} \/ R3In(rs, "prod") = {}
      BY <1>2 DEF R3In
    <2> QED BY <2>1 DEF R3Hits
  <1>5. \A i \in DOMAIN rs : LastSign(rs[i]) = rs[i].active
    BY <1>2 DEF LastSign
  <1>6. R2Hits(rs, t) =
           {i \in DOMAIN rs : rs[i].level = "Admin" /\ rs[i].active < t - DormantDays * Day}
    BY <1>5 DEF R2Hits
  <1> QED BY <1>3, <1>4, <1>6

\* What the rules raise on rows, as <<rule, login>>.
Got(rs, t) == {<<f.rule, f.principal>> : f \in RunRules(rs, t)}
Of(rule, logins) == {<<rule, l>> : l \in logins}

LEMMA GotIs ==
    ASSUME NEW rs \in Seq(PlainRow), NEW t \in Int
    PROVE  Got(rs, t) =
              Of("R1", LoginsOf(rs, R1Hits(rs))) \cup Of("R2", LoginsOf(rs, R2Hits(rs, t)))
              \cup Of("R5", LoginsOf(rs, R5Hits(rs))) \cup Of("R6", LoginsOf(rs, R6Hits(rs)))
  <1> DEFINE all == RunRules(rs, t)
  <1>1. \A f \in all : f.rule \in {"R1", "R2", "R3", "R4", "R5", "R6"}
    BY OfOneRule DEF RunRules
  <1>2. /\ Raised("R1", all) = LoginsOf(rs, R1Hits(rs))
        /\ Raised("R2", all) = LoginsOf(rs, R2Hits(rs, t))
        /\ Raised("R3", all) = {} /\ Raised("R4", all) = {}
        /\ Raised("R5", all) = LoginsOf(rs, R5Hits(rs))
        /\ Raised("R6", all) = LoginsOf(rs, R6Hits(rs))
    <2>1. LoginsOf(rs, {}) = {}
      BY DEF LoginsOf
    <2> QED BY <2>1, RaisedAre, PlainHits
  <1> HIDE DEF all
  <1>3. {<<f.rule, f.principal>> : f \in all} =
           Of("R1", Raised("R1", all)) \cup Of("R2", Raised("R2", all))
           \cup Of("R3", Raised("R3", all)) \cup Of("R4", Raised("R4", all))
           \cup Of("R5", Raised("R5", all)) \cup Of("R6", Raised("R6", all))
    BY <1>1 DEF Raised, Of
  <1>4. Of("R3", {}) = {} /\ Of("R4", {}) = {}
    BY DEF Of
  <1>5. Got(rs, t) = {<<f.rule, f.principal>> : f \in all}
    BY DEF Got, all
  <1> QED BY <1>2, <1>3, <1>4, <1>5

\* A scenario meets its claim at t: dormancy may add to it, but not on day 0.
Meets(rs, claimed, t) ==
    /\ claimed \subseteq Got(rs, t)
    /\ \A x \in Got(rs, t) \ claimed : x[1] = "R2" /\ t > 0

LEMMA MeetsIf ==
    ASSUME NEW rs \in Seq(PlainRow), NEW t \in Nat, NEW claimed, NEW dormant,
           claimed = Of("R1", LoginsOf(rs, R1Hits(rs))) \cup Of("R2", dormant)
              \cup Of("R5", LoginsOf(rs, R5Hits(rs))) \cup Of("R6", LoginsOf(rs, R6Hits(rs))),
           dormant \subseteq LoginsOf(rs, R2Hits(rs, t)),
           t = 0 => LoginsOf(rs, R2Hits(rs, t)) = dormant
    PROVE  Meets(rs, claimed, t)
  <1>1. Of("R2", dormant) \subseteq Of("R2", LoginsOf(rs, R2Hits(rs, t)))
    BY DEF Of
  <1>2. \A x \in Of("R2", LoginsOf(rs, R2Hits(rs, t))) : x[1] = "R2"
    BY DEF Of
  <1>3. Got(rs, t) =
           Of("R1", LoginsOf(rs, R1Hits(rs))) \cup Of("R2", LoginsOf(rs, R2Hits(rs, t)))
           \cup Of("R5", LoginsOf(rs, R5Hits(rs))) \cup Of("R6", LoginsOf(rs, R6Hits(rs)))
    BY GotIs
  <1> QED BY <1>1, <1>2, <1>3 DEF Meets

LEMMA ClaimOfPrincipals500 ==
    ASSUME NEW t \in Nat
    PROVE  /\ Golden.synth_500_principals \in Seq(PlainRow)
           /\ Meets(Golden.synth_500_principals, Claimed.synth_500_principals, t)
  <1> DEFINE row1 == [Row("svc_etl") EXCEPT !.type = "SQL_LOGIN", !.level = "Admin"]
             row2 == [Row("old_admin") EXCEPT !.level = "Admin", !.active = -120 * Day]
             row3 == [Row("app_40") EXCEPT !.active = -5 * Day]
             row4 == [Row("user_050") EXCEPT !.active = -60 * Day]
  <1>1. Looks(row1, "svc_etl", "SQL_LOGIN", "Admin", 10, FALSE)
    <2>1. Row("svc_etl") \in PlainRow /\ -10 * Day \in WholeDays
      BY RowIsPlain, WholeDaysAre DEF Names
    <2>2. row1 \in PlainRow
      <3> DEFINE x == [Row("svc_etl") EXCEPT !.type = "SQL_LOGIN"]
      <3>1. x \in PlainRow
        BY <2>1, ChangedIsPlain
      <3>2. row1 = [x EXCEPT !.level = "Admin"]
        OBVIOUS
      <3> HIDE DEF x
      <3> QED BY <2>1, <3>1, <3>2, ChangedIsPlain
    <2>3. /\ row1.login = "svc_etl" /\ row1.type = "SQL_LOGIN" /\ row1.level = "Admin"
          /\ row1.active = -10 * Day /\ (row1.explicit # {} /\ row1.roles = {}) = FALSE
      BY DEF Row
    <2> QED BY <2>2, <2>3 DEF Looks
  <1>2. Looks(row2, "old_admin", "WINDOWS_LOGIN", "Admin", 120, FALSE)
    <2>1. Row("old_admin") \in PlainRow /\ -120 * Day \in WholeDays
      BY RowIsPlain, WholeDaysAre DEF Names
    <2>2. row2 \in PlainRow
      <3> DEFINE x == [Row("old_admin") EXCEPT !.level = "Admin"]
      <3>1. x \in PlainRow
        BY <2>1, ChangedIsPlain
      <3>2. row2 = [x EXCEPT !.active = -120 * Day]
        OBVIOUS
      <3> HIDE DEF x
      <3> QED BY <2>1, <3>1, <3>2, ChangedIsPlain
    <2>3. /\ row2.login = "old_admin" /\ row2.type = "WINDOWS_LOGIN" /\ row2.level = "Admin"
          /\ row2.active = -120 * Day /\ (row2.explicit # {} /\ row2.roles = {}) = FALSE
      BY DEF Row
    <2> QED BY <2>2, <2>3 DEF Looks
  <1>3. Looks(row3, "app_40", "WINDOWS_LOGIN", "ReadOnly", 5, FALSE)
    <2>1. Row("app_40") \in PlainRow /\ -5 * Day \in WholeDays
      BY RowIsPlain, WholeDaysAre DEF Names
    <2>2. row3 \in PlainRow
      BY <2>1 DEF PlainRow, Names, Explicit
    <2>3. /\ row3.login = "app_40" /\ row3.type = "WINDOWS_LOGIN" /\ row3.level = "ReadOnly"
          /\ row3.active = -5 * Day /\ (row3.explicit # {} /\ row3.roles = {}) = FALSE
      BY DEF Row
    <2> QED BY <2>2, <2>3 DEF Looks
  <1>4. Looks(row4, "user_050", "WINDOWS_LOGIN", "ReadOnly", 60, FALSE)
    <2>1. Row("user_050") \in PlainRow /\ -60 * Day \in WholeDays
      BY RowIsPlain, WholeDaysAre DEF Names
    <2>2. row4 \in PlainRow
      BY <2>1 DEF PlainRow, Names, Explicit
    <2>3. /\ row4.login = "user_050" /\ row4.type = "WINDOWS_LOGIN" /\ row4.level = "ReadOnly"
          /\ row4.active = -60 * Day /\ (row4.explicit # {} /\ row4.roles = {}) = FALSE
      BY DEF Row
    <2> QED BY <2>2, <2>3 DEF Looks
  <1> DEFINE rs == <<row1, row2, row3, row4>>
  <1>5. Golden.synth_500_principals = rs
    BY DEF Golden
  <1> HIDE DEF row1, row2, row3, row4
  <1>6. /\ rs \in Seq(PlainRow) /\ DOMAIN rs = {1, 2, 3, 4}
        /\ rs[1] = row1 /\ rs[2] = row2 /\ rs[3] = row3 /\ rs[4] = row4
    BY <1>1, <1>2, <1>3, <1>4 DEF Looks
  <1> HIDE DEF rs
  <1>7. LoginsOf(rs, R1Hits(rs)) = {"svc_etl"}
    BY <1>1, <1>2, <1>3, <1>4, <1>6 DEF Looks, LoginsOf, R1Hits
  <1>8. LoginsOf(rs, R5Hits(rs)) = {}
    BY <1>1, <1>2, <1>3, <1>4, <1>6 DEF Looks, LoginsOf, R5Hits
  <1>9. LoginsOf(rs, R6Hits(rs)) = {"svc_etl", "app_40"}
    BY <1>1, <1>2, <1>3, <1>4, <1>6, ScenariosAssumption DEF Looks, LoginsOf, R6Hits, Names
  <1>10. /\ {"old_admin"} \subseteq LoginsOf(rs, R2Hits(rs, t))
         /\ t = 0 => LoginsOf(rs, R2Hits(rs, t)) = {"old_admin"}
    <2>1. R2Hits(rs, t) =
             {i \in DOMAIN rs : rs[i].level = "Admin" /\ rs[i].active < t - DormantDays * Day}
      BY <1>6, PlainHits
    <2> QED BY <2>1, <1>1, <1>2, <1>3, <1>4, <1>6 DEF Looks, LoginsOf, DormantDays, Day
  <1> DEFINE claimed == Claimed.synth_500_principals
  <1>11. claimed = Of("R1", {"svc_etl"}) \cup Of("R2", {"old_admin"})
                     \cup Of("R5", {}) \cup Of("R6", {"svc_etl", "app_40"})
    BY DEF Claimed, Of
  <1> HIDE DEF claimed
  <1>12. claimed = Of("R1", LoginsOf(rs, R1Hits(rs))) \cup Of("R2", {"old_admin"})
             \cup Of("R5", LoginsOf(rs, R5Hits(rs))) \cup Of("R6", LoginsOf(rs, R6Hits(rs)))
    BY <1>7, <1>8, <1>9, <1>11
  <1>13. Meets(rs, claimed, t)
    BY <1>6, <1>10, <1>12, MeetsIf
  <1> QED BY <1>5, <1>6, <1>13 DEF claimed

LEMMA ClaimOfBoundary89d ==
    ASSUME NEW t \in Nat
    PROVE  /\ Golden.synth_boundary_89d \in Seq(PlainRow)
           /\ Meets(Golden.synth_boundary_89d, Claimed.synth_boundary_89d, t)
  <1> DEFINE row1 == Boundary(89)
  <1>1. Looks(row1, "boundary_admin", "WINDOWS_LOGIN", "Admin", 89, FALSE)
    BY BoundaryLooks
  <1> DEFINE rs == <<row1>>
  <1>2. Golden.synth_boundary_89d = rs
    BY DEF Golden
  <1> HIDE DEF row1
  <1>3. /\ rs \in Seq(PlainRow) /\ DOMAIN rs = {1}
        /\ rs[1] = row1
    BY <1>1 DEF Looks
  <1> HIDE DEF rs
  <1>4. LoginsOf(rs, R1Hits(rs)) = {}
    BY <1>1, <1>3 DEF Looks, LoginsOf, R1Hits
  <1>5. LoginsOf(rs, R5Hits(rs)) = {}
    BY <1>1, <1>3 DEF Looks, LoginsOf, R5Hits
  <1>6. LoginsOf(rs, R6Hits(rs)) = {}
    BY <1>1, <1>3, ScenariosAssumption DEF Looks, LoginsOf, R6Hits, Names
  <1>7. /\ {} \subseteq LoginsOf(rs, R2Hits(rs, t))
        /\ t = 0 => LoginsOf(rs, R2Hits(rs, t)) = {}
    <2>1. R2Hits(rs, t) =
             {i \in DOMAIN rs : rs[i].level = "Admin" /\ rs[i].active < t - DormantDays * Day}
      BY <1>3, PlainHits
    <2> QED BY <2>1, <1>1, <1>3 DEF Looks, LoginsOf, DormantDays, Day
  <1> DEFINE claimed == Claimed.synth_boundary_89d
  <1>8. claimed = Of("R1", {}) \cup Of("R2", {})
                     \cup Of("R5", {}) \cup Of("R6", {})
    BY DEF Claimed, Of
  <1> HIDE DEF claimed
  <1>9. claimed = Of("R1", LoginsOf(rs, R1Hits(rs))) \cup Of("R2", {})
             \cup Of("R5", LoginsOf(rs, R5Hits(rs))) \cup Of("R6", LoginsOf(rs, R6Hits(rs)))
    BY <1>4, <1>5, <1>6, <1>8
  <1>10. Meets(rs, claimed, t)
    BY <1>3, <1>7, <1>9, MeetsIf
  <1> QED BY <1>2, <1>3, <1>10 DEF claimed

LEMMA ClaimOfBoundary91d ==
    ASSUME NEW t \in Nat
    PROVE  /\ Golden.synth_boundary_91d \in Seq(PlainRow)
           /\ Meets(Golden.synth_boundary_91d, Claimed.synth_boundary_91d, t)
  <1> DEFINE row1 == Boundary(91)
  <1>1. Looks(row1, "boundary_admin", "WINDOWS_LOGIN", "Admin", 91, FALSE)
    BY BoundaryLooks
  <1> DEFINE rs == <<row1>>
  <1>2. Golden.synth_boundary_91d = rs
    BY DEF Golden
  <1> HIDE DEF row1
  <1>3. /\ rs \in Seq(PlainRow) /\ DOMAIN rs = {1}
        /\ rs[1] = row1
    BY <1>1 DEF Looks
  <1> HIDE DEF rs
  <1>4. LoginsOf(rs, R1Hits(rs)) = {}
    BY <1>1, <1>3 DEF Looks, LoginsOf, R1Hits
  <1>5. LoginsOf(rs, R5Hits(rs)) = {}
    BY <1>1, <1>3 DEF Looks, LoginsOf, R5Hits
  <1>6. LoginsOf(rs, R6Hits(rs)) = {}
    BY <1>1, <1>3, ScenariosAssumption DEF Looks, LoginsOf, R6Hits, Names
  <1>7. /\ {"boundary_admin"} \subseteq LoginsOf(rs, R2Hits(rs, t))
        /\ t = 0 => LoginsOf(rs, R2Hits(rs, t)) = {"boundary_admin"}
    <2>1. R2Hits(rs, t) =
             {i \in DOMAIN rs : rs[i].level = "Admin" /\ rs[i].active < t - DormantDays * Day}
      BY <1>3, PlainHits
    <2> QED BY <2>1, <1>1, <1>3 DEF Looks, LoginsOf, DormantDays, Day
  <1> DEFINE claimed == Claimed.synth_boundary_91d
  <1>8. claimed = Of("R1", {}) \cup Of("R2", {"boundary_admin"})
                     \cup Of("R5", {}) \cup Of("R6", {})
    BY DEF Claimed, Of
  <1> HIDE DEF claimed
  <1>9. claimed = Of("R1", LoginsOf(rs, R1Hits(rs))) \cup Of("R2", {"boundary_admin"})
             \cup Of("R5", LoginsOf(rs, R5Hits(rs))) \cup Of("R6", LoginsOf(rs, R6Hits(rs)))
    BY <1>4, <1>5, <1>6, <1>8
  <1>10. Meets(rs, claimed, t)
    BY <1>3, <1>7, <1>9, MeetsIf
  <1> QED BY <1>2, <1>3, <1>10 DEF claimed

LEMMA ClaimOfDupSids ==
    ASSUME NEW t \in Nat
    PROVE  /\ Golden.synth_dup_sids \in Seq(PlainRow)
           /\ Meets(Golden.synth_dup_sids, Claimed.synth_dup_sids, t)
  <1> DEFINE row1 == [Row("svc_app_alpha") EXCEPT !.user = "shared_svc_user", !.active = -3 * Day]
             row2 == [Row("svc_app_beta") EXCEPT !.user = "shared_svc_user", !.active = -3 * Day]
             row3 == Row("normal_user_01")
  <1>1. Looks(row1, "svc_app_alpha", "WINDOWS_LOGIN", "ReadOnly", 3, FALSE)
    <2>1. Row("svc_app_alpha") \in PlainRow /\ -3 * Day \in WholeDays
      BY RowIsPlain, WholeDaysAre DEF Names
    <2>2. row1 \in PlainRow
      BY <2>1 DEF PlainRow, Names, Explicit
    <2>3. /\ row1.login = "svc_app_alpha" /\ row1.type = "WINDOWS_LOGIN" /\ row1.level = "ReadOnly"
          /\ row1.active = -3 * Day /\ (row1.explicit # {} /\ row1.roles = {}) = FALSE
      BY DEF Row
    <2> QED BY <2>2, <2>3 DEF Looks
  <1>2. Looks(row2, "svc_app_beta", "WINDOWS_LOGIN", "ReadOnly", 3, FALSE)
    <2>1. Row("svc_app_beta") \in PlainRow /\ -3 * Day \in WholeDays
      BY RowIsPlain, WholeDaysAre DEF Names
    <2>2. row2 \in PlainRow
      BY <2>1 DEF PlainRow, Names, Explicit
    <2>3. /\ row2.login = "svc_app_beta" /\ row2.type = "WINDOWS_LOGIN" /\ row2.level = "ReadOnly"
          /\ row2.active = -3 * Day /\ (row2.explicit # {} /\ row2.roles = {}) = FALSE
      BY DEF Row
    <2> QED BY <2>2, <2>3 DEF Looks
  <1>3. Looks(row3, "normal_user_01", "WINDOWS_LOGIN", "ReadOnly", 10, FALSE)
    <2>1. Row("normal_user_01") \in PlainRow /\ -10 * Day \in WholeDays
      BY RowIsPlain, WholeDaysAre DEF Names
    <2>2. row3 \in PlainRow
      BY <2>1 DEF PlainRow, Names, Explicit
    <2>3. /\ row3.login = "normal_user_01" /\ row3.type = "WINDOWS_LOGIN" /\ row3.level = "ReadOnly"
          /\ row3.active = -10 * Day /\ (row3.explicit # {} /\ row3.roles = {}) = FALSE
      BY DEF Row
    <2> QED BY <2>2, <2>3 DEF Looks
  <1> DEFINE rs == <<row1, row2, row3>>
  <1>4. Golden.synth_dup_sids = rs
    BY DEF Golden
  <1> HIDE DEF row1, row2, row3
  <1>5. /\ rs \in Seq(PlainRow) /\ DOMAIN rs = {1, 2, 3}
        /\ rs[1] = row1 /\ rs[2] = row2 /\ rs[3] = row3
    BY <1>1, <1>2, <1>3 DEF Looks
  <1> HIDE DEF rs
  <1>6. LoginsOf(rs, R1Hits(rs)) = {}
    BY <1>1, <1>2, <1>3, <1>5 DEF Looks, LoginsOf, R1Hits
  <1>7. LoginsOf(rs, R5Hits(rs)) = {}
    BY <1>1, <1>2, <1>3, <1>5 DEF Looks, LoginsOf, R5Hits
  <1>8. LoginsOf(rs, R6Hits(rs)) = {"svc_app_alpha", "svc_app_beta"}
    BY <1>1, <1>2, <1>3, <1>5, ScenariosAssumption DEF Looks, LoginsOf, R6Hits, Names
  <1>9. /\ {} \subseteq LoginsOf(rs, R2Hits(rs, t))
        /\ t = 0 => LoginsOf(rs, R2Hits(rs, t)) = {}
    <2>1. R2Hits(rs, t) =
             {i \in DOMAIN rs : rs[i].level = "Admin" /\ rs[i].active < t - DormantDays * Day}
      BY <1>5, PlainHits
    <2> QED BY <2>1, <1>1, <1>2, <1>3, <1>5 DEF Looks, LoginsOf, DormantDays, Day
  <1> DEFINE claimed == Claimed.synth_dup_sids
  <1>10. claimed = Of("R1", {}) \cup Of("R2", {})
                     \cup Of("R5", {}) \cup Of("R6", {"svc_app_alpha", "svc_app_beta"})
    BY DEF Claimed, Of
  <1> HIDE DEF claimed
  <1>11. claimed = Of("R1", LoginsOf(rs, R1Hits(rs))) \cup Of("R2", {})
             \cup Of("R5", LoginsOf(rs, R5Hits(rs))) \cup Of("R6", LoginsOf(rs, R6Hits(rs)))
    BY <1>6, <1>7, <1>8, <1>10
  <1>12. Meets(rs, claimed, t)
    BY <1>5, <1>9, <1>11, MeetsIf
  <1> QED BY <1>4, <1>5, <1>12 DEF claimed

LEMMA ClaimOfHighExplicit ==
    ASSUME NEW t \in Nat
    PROVE  /\ Golden.synth_high_explicit \in Seq(PlainRow)
           /\ Meets(Golden.synth_high_explicit, Claimed.synth_high_explicit, t)
  <1> DEFINE row1 == [Row("explicit_user_00") EXCEPT !.level = "Write", !.roles = {},
                                                     !.explicit = {"write"}]
             row2 == [Row("explicit_user_01") EXCEPT !.level = "Write", !.roles = {},
                                                     !.explicit = {"write"}]
  <1>1. Looks(row1, "explicit_user_00", "WINDOWS_LOGIN", "Write", 10, TRUE)
    <2>1. Row("explicit_user_00") \in PlainRow /\ -10 * Day \in WholeDays
      BY RowIsPlain, WholeDaysAre DEF Names
    <2>2. row1 \in PlainRow
      BY <2>1, BypassIsPlain
    <2>3. /\ row1.login = "explicit_user_00" /\ row1.type = "WINDOWS_LOGIN" /\ row1.level = "Write"
          /\ row1.active = -10 * Day /\ (row1.explicit # {} /\ row1.roles = {}) = TRUE
      BY DEF Row
    <2> QED BY <2>2, <2>3 DEF Looks
  <1>2. Looks(row2, "explicit_user_01", "WINDOWS_LOGIN", "Write", 10, TRUE)
    <2>1. Row("explicit_user_01") \in PlainRow /\ -10 * Day \in WholeDays
      BY RowIsPlain, WholeDaysAre DEF Names
    <2>2. row2 \in PlainRow
      BY <2>1, BypassIsPlain
    <2>3. /\ row2.login = "explicit_user_01" /\ row2.type = "WINDOWS_LOGIN" /\ row2.level = "Write"
          /\ row2.active = -10 * Day /\ (row2.explicit # {} /\ row2.roles = {}) = TRUE
      BY DEF Row
    <2> QED BY <2>2, <2>3 DEF Looks
  <1> DEFINE rs == <<row1, row2>>
  <1>3. Golden.synth_high_explicit = rs
    BY DEF Golden
  <1> HIDE DEF row1, row2
  <1>4. /\ rs \in Seq(PlainRow) /\ DOMAIN rs = {1, 2}
        /\ rs[1] = row1 /\ rs[2] = row2
    BY <1>1, <1>2 DEF Looks
  <1> HIDE DEF rs
  <1>5. LoginsOf(rs, R1Hits(rs)) = {}
    BY <1>1, <1>2, <1>4 DEF Looks, LoginsOf, R1Hits
  <1>6. LoginsOf(rs, R5Hits(rs)) = {"explicit_user_00", "explicit_user_01"}
    BY <1>1, <1>2, <1>4 DEF Looks, LoginsOf, R5Hits
  <1>7. LoginsOf(rs, R6Hits(rs)) = {}
    BY <1>1, <1>2, <1>4, ScenariosAssumption DEF Looks, LoginsOf, R6Hits, Names
  <1>8. /\ {} \subseteq LoginsOf(rs, R2Hits(rs, t))
        /\ t = 0 => LoginsOf(rs, R2Hits(rs, t)) = {}
    <2>1. R2Hits(rs, t) =
             {i \in DOMAIN rs : rs[i].level = "Admin" /\ rs[i].active < t - DormantDays * Day}
      BY <1>4, PlainHits
    <2> QED BY <2>1, <1>1, <1>2, <1>4 DEF Looks, LoginsOf, DormantDays, Day
  <1> DEFINE claimed == Claimed.synth_high_explicit
  <1>9. claimed = Of("R1", {}) \cup Of("R2", {})
                     \cup Of("R5", {"explicit_user_00", "explicit_user_01"}) \cup Of("R6", {})
    BY DEF Claimed, Of
  <1> HIDE DEF claimed
  <1>10. claimed = Of("R1", LoginsOf(rs, R1Hits(rs))) \cup Of("R2", {})
             \cup Of("R5", LoginsOf(rs, R5Hits(rs))) \cup Of("R6", LoginsOf(rs, R6Hits(rs)))
    BY <1>5, <1>6, <1>7, <1>9
  <1>11. Meets(rs, claimed, t)
    BY <1>4, <1>8, <1>10, MeetsIf
  <1> QED BY <1>3, <1>4, <1>11 DEF claimed

LEMMA ClaimOfDemo ==
    ASSUME NEW t \in Nat
    PROVE  /\ Golden.synth_data \in Seq(PlainRow)
           /\ Meets(Golden.synth_data, Claimed.synth_data, t)
  <1> DEFINE row1 == [Row("user512") EXCEPT !.explicit = {"read"}, !.active = -5 * Day]
             row2 == [Row("injection") EXCEPT !.explicit = {"read"}, !.active = -5 * Day,
                                       !.level = "Admin", !.roles = {"db_owner"}]
  <1>1. Looks(row1, "user512", "WINDOWS_LOGIN", "ReadOnly", 5, FALSE)
    <2>1. Row("user512") \in PlainRow /\ -5 * Day \in WholeDays
      BY RowIsPlain, WholeDaysAre DEF Names
    <2>2. row1 \in PlainRow
      BY <2>1 DEF PlainRow, Names, Explicit
    <2>3. /\ row1.login = "user512" /\ row1.type = "WINDOWS_LOGIN" /\ row1.level = "ReadOnly"
          /\ row1.active = -5 * Day /\ (row1.explicit # {} /\ row1.roles = {}) = FALSE
      BY DEF Row
    <2> QED BY <2>2, <2>3 DEF Looks
  <1>2. Looks(row2, "injection", "WINDOWS_LOGIN", "Admin", 5, FALSE)
    <2> DEFINE row == [Row("injection") EXCEPT !.explicit = {"read"}, !.active = -5 * Day]
    <2>1. Row("injection") \in PlainRow /\ -5 * Day \in WholeDays
      BY RowIsPlain, WholeDaysAre DEF Names
    <2>2. row \in PlainRow
      BY <2>1 DEF PlainRow, Explicit
    <2>3. row2 = [row EXCEPT !.level = "Admin", !.roles = {"db_owner"}]
      OBVIOUS
    <2> HIDE DEF row
    <2>4. row2 \in PlainRow
      BY <2>2, <2>3 DEF PlainRow
    <2>5. /\ row2.login = "injection" /\ row2.type = "WINDOWS_LOGIN" /\ row2.level = "Admin"
          /\ row2.active = -5 * Day /\ row2.roles = {"db_owner"}
      BY DEF Row
    <2> QED BY <2>4, <2>5 DEF Looks
  <1> DEFINE rs == <<row1, row2>>
  <1>3. Golden.synth_data = rs
    BY DEF Golden
  <1> HIDE DEF row1, row2
  <1>4. /\ rs \in Seq(PlainRow) /\ DOMAIN rs = {1, 2}
        /\ rs[1] = row1 /\ rs[2] = row2
    BY <1>1, <1>2 DEF Looks
  <1> HIDE DEF rs
  <1>5. LoginsOf(rs, R1Hits(rs)) = {}
    BY <1>1, <1>2, <1>4 DEF Looks, LoginsOf, R1Hits
  <1>6. LoginsOf(rs, R5Hits(rs)) = {}
    BY <1>1, <1>2, <1>4 DEF Looks, LoginsOf, R5Hits
  <1>7. LoginsOf(rs, R6Hits(rs)) = {"user512"}
    BY <1>1, <1>2, <1>4, ScenariosAssumption DEF Looks, LoginsOf, R6Hits, Names
  <1>8. /\ {} \subseteq LoginsOf(rs, R2Hits(rs, t))
        /\ t = 0 => LoginsOf(rs, R2Hits(rs, t)) = {}
    <2>1. R2Hits(rs, t) =
             {i \in DOMAIN rs : rs[i].level = "Admin" /\ rs[i].active < t - DormantDays * Day}
      BY <1>4, PlainHits
    <2> QED BY <2>1, <1>1, <1>2, <1>4 DEF Looks, LoginsOf, DormantDays, Day
  <1> DEFINE claimed == Claimed.synth_data
  <1>9. claimed = Of("R1", {}) \cup Of("R2", {})
                     \cup Of("R5", {}) \cup Of("R6", {"user512"})
    BY DEF Claimed, Of
  <1> HIDE DEF claimed
  <1>10. claimed = Of("R1", LoginsOf(rs, R1Hits(rs))) \cup Of("R2", {})
             \cup Of("R5", LoginsOf(rs, R5Hits(rs))) \cup Of("R6", LoginsOf(rs, R6Hits(rs)))
    BY <1>5, <1>6, <1>7, <1>9
  <1>11. Meets(rs, claimed, t)
    BY <1>4, <1>8, <1>10, MeetsIf
  <1> QED BY <1>3, <1>4, <1>11 DEF claimed

\* The rows of a synthetic CSV are read, written and read back.
SyntheticInv ==
    ~Live =>
        /\ file \in DOMAIN Synthetic
        /\ pc \in {"start", "put", "done"}
        /\ pc # "start" => rows = Decoded(Synthetic[file])

LEMMA InitSynthetic == Init => SyntheticInv
  BY DEF Init, SyntheticInv, Live

LEMMA NextSynthetic ==
    ASSUME SyntheticInv, [Next]_vars
    PROVE  SyntheticInv'
  <1> SUFFICES ASSUME ~Live PROVE SyntheticInv'
    BY DEF SyntheticInv, Live, Next, ReadSynthetic, GetServerConfigs, Connect, ConnectAgain,
       ConnectFails, QueryServer, QueryServerFails, ConnectDatabase, ConnectDatabaseFails,
       QueryDatabase, QueryDatabaseFails, Decide, PutCsv, Evaluate, Rest, vars
  <1> USE DEF SyntheticInv, Live
  <1>1. CASE ReadSynthetic
    BY <1>1 DEF ReadSynthetic, Rest, Decoded
  <1>2. CASE PutCsv
    BY <1>2 DEF PutCsv, Decoded
  <1>3. CASE Evaluate
    BY <1>3 DEF Evaluate, Decoded
  <1>4. CASE GetServerConfigs
    BY <1>4 DEF GetServerConfigs
  <1>5. CASE Connect \/ ConnectAgain \/ ConnectFails \/ QueryServer \/ QueryServerFails
             \/ ConnectDatabase \/ ConnectDatabaseFails \/ QueryDatabase \/ QueryDatabaseFails
             \/ Decide
    BY <1>5 DEF Connect, ConnectAgain, ConnectFails, QueryServer, QueryServerFails,
         ConnectDatabase, ConnectDatabaseFails, QueryDatabase, QueryDatabaseFails, Decide
  <1>6. CASE UNCHANGED vars
    BY <1>6 DEF vars, Decoded
  <1> QED BY <1>1, <1>2, <1>3, <1>4, <1>5, <1>6 DEF Next

LEMMA AlwaysSyntheticInv == Spec => []SyntheticInv
  BY InitSynthetic, NextSynthetic, PTL DEF Spec

\* The golden scenarios and the demo CSV raise what their generators say at
\* every time from day 0 on, and on day 0 nothing else; later only dormancy is
\* added to it.
THEOREM ScenariosRaiseTheirClaims ==
    ASSUME Synthetic = Golden, Clock \subseteq Nat
    PROVE  Spec => []ScenariosMeetTheirClaims
  <1>1. ASSUME NEW f \in DOMAIN Golden, NEW t \in Nat
        PROVE  Golden[f] \in Seq(PlainRow) /\ Meets(Golden[f], Claimed[f], t)
    <2>1. f \in {"synth_500_principals", "synth_boundary_89d", "synth_boundary_91d",
                 "synth_dup_sids", "synth_high_explicit", "synth_data"}
      BY <1>1 DEF Golden
    <2> QED BY <2>1, ClaimOfPrincipals500, ClaimOfBoundary89d, ClaimOfBoundary91d,
               ClaimOfDupSids, ClaimOfHighExplicit, ClaimOfDemo
  <1>2. ExtractInv /\ SyntheticInv => ScenariosMeetTheirClaims
    <2> SUFFICES ASSUME ExtractInv, SyntheticInv, ~Live, found # None
                 PROVE  LET got == {<<f.rule, f.principal>> : f \in found}
                            claimed == Claimed[file]
                        IN /\ claimed \subseteq got
                           /\ \A x \in got \ claimed : x[1] = "R2" /\ now > 0
                           /\ now = 0 => ExpectedFindings(file, now) = claimed
      BY DEF ScenariosMeetTheirClaims
    <2>1. pc = "done" /\ now \in Clock /\ found = RunRules(csv, now) /\ csv = Decoded(rows)
      <3>1. DoneInv
        BY DEF ExtractInv
      <3> QED BY <3>1 DEF DoneInv
    <2>2. file \in DOMAIN Golden /\ rows = Decoded(Golden[file])
      BY <2>1 DEF SyntheticInv
    <2>3. Golden[file] \in Seq(PlainRow) /\ Meets(Golden[file], Claimed[file], now)
      BY <1>1, <2>1, <2>2
    <2>4. csv = Golden[file]
      BY <2>1, <2>2, <2>3, DecodingKeeps
    <2>5. {<<f.rule, f.principal>> : f \in found} = Got(Golden[file], now)
      BY <2>1, <2>4 DEF Got
    <2>6. ExpectedFindings(file, now) = Got(Golden[file], now)
      BY DEF ExpectedFindings, Got
    <2>7. /\ Claimed[file] \subseteq Got(Golden[file], now)
          /\ \A x \in Got(Golden[file], now) \ Claimed[file] : x[1] = "R2" /\ now > 0
      BY <2>3 DEF Meets
    <2>8. now = 0 => ExpectedFindings(file, now) = Claimed[file]
      <3> DEFINE all == Got(Golden[file], now)
      <3>1. now = 0 => \A x \in all : x \in Claimed[file]
        BY <2>7
      <3> HIDE DEF all
      <3> QED BY <2>6, <2>7, <3>1 DEF all
    <2> QED BY <2>5, <2>7, <2>8, Zenon
  <1> QED BY <1>2, AlwaysExtractInv, AlwaysSyntheticInv, PTL
=============================================================================
