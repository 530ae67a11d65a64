------------------------------ MODULE Extract ------------------------------
(***************************************************************************)
(* The extractor: every configured server and database is queried in turn, *)
(* with retried connections and failures collected on the way; the rows    *)
(* are written as CSV, and the rules read them back from it.  Or the rows  *)
(* come from a synthetic CSV.                                              *)
(*                                                                         *)
(* What a database answers is a profile for each login: the user its SID   *)
(* maps to, the user's roles and its permissions.                          *)
(***************************************************************************)
EXTENDS Rules

CONSTANTS
    Config,      \* get_server_configs: a sequence of [server, databases]
    Logins,      \* the enabled SQL logins, in the order of the query
    Estate,      \* what the servers may hold
    Synthetic,   \* name -> rows of the synthetic CSV files
    RolePart,    \* role name -> the names its text splits into at commas
    Clock,       \* the instants at which the rules may run
    MaxRetries

ASSUME ExtractAssumption ==
    /\ MaxRetries \in Nat \ {0}
    /\ Config \in Seq([server : STRING, databases : Seq(STRING)]) /\ Config # <<>>
    /\ Logins \in Seq(STRING)
    /\ None \notin Int /\ Clock \subseteq Int
    /\ \A e \in Estate :
          /\ e.created \in Int
          /\ \A a \in DOMAIN Config, n \in DOMAIN Logins :
                /\ e.active[Config[a].server][Logins[n]] \in Int \cup {None}
                /\ \A b \in DOMAIN Config[a].databases :
                      e.profile[Logins[n]][<<Config[a].databases[b], Config[a].server>>].roles
                          \subseteq DOMAIN RolePart
    /\ \A r \in {"db_owner", "sysadmin"} \cap DOMAIN RolePart : RolePart[r] = {r}

VARIABLES
    estate,      \* the servers' answers, None before they are asked
    file,        \* name of the synthetic CSV, None for live servers
    pc, at, db, tries,   \* the step, the server and database at hand, failed connects
    open,        \* open connections
    rows, failures,
    csv,         \* what decoding uar.csv gives, None until it is put
    now, found   \* when the rules run, and what they find; None until then

vars == <<estate, file, pc, at, db, tries, open, rows, failures, csv, now, found>>

-----------------------------------------------------------------------------
PermsOf == [read |-> {"SELECT"}, write |-> {"INSERT", "UPDATE", "DELETE", "MERGE"},
            exec |-> {"EXECUTE"}, admin |-> {"ALTER", "CONTROL", "TAKE OWNERSHIP"}]

\* Mutant: a DENY of the same permission cancels the grant.
ExplicitUnlessDenied(perms) ==
    {e \in Explicit : \E p \in perms : /\ p[1] = "GRANT" /\ p[2] \in PermsOf[e]
                                       /\ <<"DENY", p[2]>> \notin perms}

\* summarize_permissions: only the state GRANT counts, and a DENY takes
\* nothing away.
ExplicitOf(perms) ==
    {e \in Explicit : \E p \in perms : p[1] = "GRANT" /\ p[2] \in PermsOf[e]}

AccessLevel(isSysadmin, roles, explicit) ==
    CASE isSysadmin \/ "db_owner" \in roles \/ "admin" \in explicit -> "Admin"
      [] OTHER -> CASE "db_datawriter" \in roles \/ "write" \in explicit -> "Write"
                    [] OTHER -> IF "db_datareader" \in roles \/ "read" \in explicit
                                THEN "ReadOnly" ELSE "Unknown"

\* DB_USERS_SQL leaves the built-in users out: who maps to dbo maps to nobody,
\* and has no role or permission.
Profile(login, s, d) ==
    LET p == estate.profile[login][<<d, s>>]
    IN IF p.user \in {None, "dbo"} THEN [user |-> None, roles |-> {}, perms |-> {}] ELSE p

RowOf(login, s, d) ==
    LET p == Profile(login, s, d)
        explicit == ExplicitOf(p.perms)
    IN [login |-> login, type |-> "SQL_LOGIN", created |-> estate.created,
        active |-> estate.active[s][login], database |-> <<d, s>>, user |-> p.user,
        roles |-> p.roles, explicit |-> explicit,
        level |-> AccessLevel(login \in estate.sysadmin[s], p.roles, explicit)]

-----------------------------------------------------------------------------
Whole(t) == (t \div Day) * Day

\* Mutant: instants are rounded up to the second.
ThroughCsvRoundingUp(row) ==
    [row EXCEPT !.created = Whole(@ + 1),
                !.active = IF @ = None THEN None ELSE Whole(@ + 1),
                !.roles = UNION {RolePart[r] : r \in @}]

\* encode_row, then decode_row: instants lose their parts of a second, and a
\* list joined by commas is split at every comma, blank parts dropped.
ThroughCsv(row) ==
    [row EXCEPT !.created = Whole(@),
                !.active = IF @ = None THEN None ELSE Whole(@),
                !.roles = UNION {RolePart[r] : r \in @}]

Decoded(rs) == [i \in DOMAIN rs |-> ThroughCsv(rs[i])]

-----------------------------------------------------------------------------
Server == Config[at].server
Database == Config[at].databases[db]
RowsOf(s, d) == [i \in 1..Len(Logins) |-> RowOf(Logins[i], s, d)]

\* Where the loop goes on: the next database of the server, else the server's
\* connection is closed, failed or not, and the next server follows.
NextServer ==
    /\ at' = at + 1 /\ db' = 1 /\ tries' = 0 /\ open' = {}
    /\ pc' = IF at < Len(Config) THEN "connect" ELSE "decide"

NextDatabase ==
    \/ /\ db < Len(Config[at].databases)
       /\ db' = db + 1 /\ tries' = 0 /\ open' = {"server"}
       /\ pc' = "connect_db" /\ UNCHANGED at
    \/ db >= Len(Config[at].databases) /\ NextServer

Rest == <<estate, file, csv, now, found>>

Init ==
    /\ estate = None
    /\ file \in DOMAIN Synthetic \cup {None}
    /\ pc = "start" /\ at = 1 /\ db = 1 /\ tries = 0 /\ open = {}
    /\ rows = <<>> /\ failures = {}
    /\ csv = None
    /\ now = None /\ found = None

ReadSynthetic ==
    /\ pc = "start" /\ file # None
    /\ rows' = Decoded(Synthetic[file])
    /\ pc' = "put"
    /\ UNCHANGED <<at, db, tries, open, failures, Rest>>

GetServerConfigs ==
    /\ pc = "start" /\ file = None
    /\ \/ pc' = "connect" /\ estate' \in Estate
       \/ pc' = "failed" /\ UNCHANGED estate
    /\ UNCHANGED <<file, at, db, tries, open, rows, failures, csv, now, found>>

Connect ==
    /\ pc = "connect"
    /\ open' = {"server"} /\ tries' = 0 /\ pc' = "query"
    /\ UNCHANGED <<at, db, rows, failures, Rest>>

\* get_connection: only an operational error is tried again.
ConnectAgain ==
    /\ pc \in {"connect", "connect_db"}
    /\ tries + 1 < MaxRetries
    /\ tries' = tries + 1
    /\ UNCHANGED <<pc, at, db, open, rows, failures, Rest>>

ConnectFails ==
    /\ pc = "connect"
    /\ failures' = failures \cup {<<"server", Server>>}
    /\ NextServer
    /\ UNCHANGED <<rows, Rest>>

QueryServer ==
    /\ pc = "query"
    /\ IF Config[at].databases = <<>> THEN NextServer
       ELSE pc' = "connect_db" /\ UNCHANGED <<at, db, tries, open>>
    /\ UNCHANGED <<rows, failures, Rest>>

QueryServerFails ==
    /\ pc = "query"
    /\ failures' = failures \cup {<<"server-query", Server>>}
    /\ NextServer
    /\ UNCHANGED <<rows, Rest>>

ConnectDatabase ==
    /\ pc = "connect_db"
    /\ open' = open \cup {"db"} /\ tries' = 0 /\ pc' = "query_db"
    /\ UNCHANGED <<at, db, rows, failures, Rest>>

\* Mutant: a database that cannot be reached is skipped.
ConnectDatabaseSkipped ==
    /\ pc = "connect_db"
    /\ NextDatabase
    /\ UNCHANGED <<rows, failures, Rest>>

ConnectDatabaseFails ==
    /\ pc = "connect_db"
    /\ failures' = failures \cup {<<"database", Server, Database>>}
    /\ NextDatabase
    /\ UNCHANGED <<rows, Rest>>

QueryDatabase ==
    /\ pc = "query_db"
    /\ rows' = rows \o RowsOf(Server, Database)
    /\ NextDatabase
    /\ UNCHANGED <<failures, Rest>>

\* An error among the logins leaves the rows of those before it.
QueryDatabaseFails ==
    /\ pc = "query_db"
    /\ \E n \in 0..Len(Logins) - 1 :
          rows' = rows \o SubSeq(RowsOf(Server, Database), 1, n)
    /\ failures' = failures \cup {<<"database-query", Server, Database>>}
    /\ NextDatabase
    /\ UNCHANGED Rest

Decide ==
    /\ pc = "decide"
    /\ pc' = IF failures = {} THEN "put" ELSE "failed"
    /\ UNCHANGED <<at, db, tries, open, rows, failures, Rest>>

PutCsv ==
    /\ pc = "put"
    /\ csv' = Decoded(rows) /\ pc' = "done"
    /\ UNCHANGED <<estate, file, at, db, tries, open, rows, failures, now, found>>

\* The rules engine, on the rows read back, later.
Evaluate ==
    /\ pc = "done" /\ found = None
    /\ now' \in Clock
    /\ found' = RunRules(csv, now')
    /\ UNCHANGED <<estate, file, pc, at, db, tries, open, rows, failures, csv>>

Next ==
    \/ ReadSynthetic \/ GetServerConfigs
    \/ Connect \/ ConnectAgain \/ ConnectFails \/ QueryServer \/ QueryServerFails
    \/ ConnectDatabase \/ ConnectDatabaseFails \/ QueryDatabase \/ QueryDatabaseFails
    \/ Decide \/ PutCsv \/ Evaluate

Spec == Init /\ [][Next]_vars

-----------------------------------------------------------------------------
Live == file = None
Raised(rule, fs) == {f.principal : f \in {g \in fs : g.rule = rule}}

\* The configured databases, as the column of a row names them.
Slot ==
    UNION {{<<Config[a].databases[b], Config[a].server>> : b \in DOMAIN Config[a].databases} :
              a \in DOMAIN Config}
Login == {Logins[n] : n \in DOMAIN Logins}

\* "failures are collected and re-raised instead of silently skipped": a CSV
\* that is put has one row for each login in each configured database.
CompleteExtract ==
    Live /\ csv # None =>
        \A l \in Login, x \in Slot :
            Cardinality({i \in DOMAIN csv : csv[i].login = l /\ csv[i].database = x}) = 1

\* The CSV may make the rules raise more (an instant cut to the second, a role
\* name of commas), never less: what they would raise on the rows as extracted
\* they raise on the rows read back.
EncodingHidesNothing ==
    Live /\ found # None =>
        \A r \in RuleId : Raised(r, RunRules(rows, now)) \subseteq Raised(r, found)

\* From the servers to the findings: a login is raised by R1 exactly for the
\* databases where it is sysadmin of the server, or maps to a listed user who
\* is db_owner or was granted an administrative permission.
Holds(l, x) ==
    \/ l \in estate.sysadmin[x[2]]
    \/ LET p == estate.profile[l][x] IN
          /\ p.user \notin {None, "dbo"}
          /\ \/ "db_owner" \in p.roles
             \/ \E q \in p.perms : q[1] = "GRANT" /\ q[2] \in {"ALTER", "CONTROL", "TAKE OWNERSHIP"}

AdministratorsAreRaised ==
    Live /\ found # None =>
        \A l \in Login :
            {x \in Slot : Holds(l, x)} = UNION {f.databases : f \in {g \in found : g.rule = "R1" /\ g.principal = l}}

\* "Same principal holds privileged access across DEV and PROD environments."
BreachOn(slots) ==
    \E l \in Login : \E x, y \in slots :
        /\ Holds(l, x) /\ "dev" \in EnvTags[x[1]] /\ "prod" \notin EnvTags[x[1]]
        /\ Holds(l, y) /\ "prod" \in EnvTags[y[1]]
        /\ l \notin Raised("R3", found)

SodBreachIsRaised == Live /\ found # None => ~BreachOn(Slot)

\* ... which the rule keeps as long as no server is named after an environment.
SodBreachOnPlainServers ==
    Live /\ found # None => ~BreachOn({x \in Slot : EnvTags[x[2]] = {}})
=============================================================================
