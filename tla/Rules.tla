------------------------------- MODULE Rules -------------------------------
(***************************************************************************)
(* The six rules, as operators on a list of access-review rows.  A row is  *)
(* one login in one database.  The database column is the text             *)
(* "<db> (<server>)", here the pair <<db, server>>.                        *)
(*                                                                         *)
(* Instants are integers, Day to a day; the odd ones stand for instants    *)
(* with a part of a second, which a CSV cell cannot hold.                  *)
(***************************************************************************)
EXTENDS Integers, Sequences, FiniteSets

CONSTANTS
    SharedName,  \* the login names that R6's pattern matches
    EnvTags,     \* name of a database or server -> the tags it contains
    None

ASSUME RulesAssumption ==
    \A x \in DOMAIN EnvTags : EnvTags[x] \subseteq {"prod", "dev", "uat"}

Day == 2
DormantDays == 90
RuleId == {"R1", "R2", "R3", "R4", "R5", "R6"}
Explicit == {"read", "write", "exec", "admin"}

Finding(rule, principal, databases, row) ==
    [rule |-> rule, principal |-> principal, databases |-> databases, row |-> row]

\* R1 to R4 and R6 group the rows they hit by login: one finding each.
PerPrincipal(rule, rows, hits) ==
    {Finding(rule, p, {rows[i].database : i \in {j \in hits : rows[j].login = p}}, 0) :
        p \in {rows[i].login : i \in hits}}

R1SqlLoginAdmin(rows, now) ==
    PerPrincipal("R1", rows,
        {i \in DOMAIN rows : rows[i].type = "SQL_LOGIN" /\ rows[i].level = "Admin"})

LastSign(row) == IF row.active = None THEN row.created ELSE row.active

\* Mutant: the rule looks at recent accounts instead of dormant ones.
R2RecentAdmin(rows, now) ==
    PerPrincipal("R2", rows,
        {i \in DOMAIN rows : /\ rows[i].level = "Admin"
                             /\ LastSign(rows[i]) > now - DormantDays * Day})

R2DormantAdmin(rows, now) ==
    PerPrincipal("R2", rows,
        {i \in DOMAIN rows : /\ rows[i].level = "Admin"
                             /\ LastSign(rows[i]) < now - DormantDays * Day})

\* The text of the column is searched, the name of the server with it; a
\* name with several tags is prod before dev before uat.
Tags(database) == EnvTags[database[1]] \cup EnvTags[database[2]]
Env(database) ==
    CASE "prod" \in Tags(database) -> "prod"
      [] "prod" \notin Tags(database) /\ "dev" \in Tags(database) -> "dev"
      [] Tags(database) = {"uat"} -> "uat"
      [] OTHER -> "other"

\* Mutant: only role membership makes a row privileged.
OwnsDatabase(row) == row.roles \cap {"db_owner", "sysadmin"} # {}

IsPrivileged(row) ==
    row.level = "Admin" \/ row.roles \cap {"db_owner", "sysadmin"} # {}

R3SodBreach(rows, now) ==
    LET In(env) == {i \in DOMAIN rows : IsPrivileged(rows[i]) /\ Env(rows[i].database) = env}
        Names(env) == {rows[i].login : i \in In(env)}
    IN PerPrincipal("R3", rows,
           {i \in In("dev") \cup In("prod") : rows[i].login \in Names("dev") \cap Names("prod")})

R4OrphanedLogin(rows, now) ==
    PerPrincipal("R4", rows,
        {i \in DOMAIN rows : \A j \in DOMAIN rows :
            rows[j].login = rows[i].login => rows[j].user = None})

\* R5 does not group: a finding for each row.
R5RbacBypass(rows, now) ==
    {Finding("R5", rows[i].login, {rows[i].database}, i) :
        i \in {j \in DOMAIN rows : rows[j].explicit # {} /\ rows[j].roles = {}}}

R6SharedAccount(rows, now) ==
    PerPrincipal("R6", rows, {i \in DOMAIN rows : rows[i].login \in SharedName})

\* run_rules: every rule on the same rows, at the clock of the invocation.
RunRules(rows, now) ==
    R1SqlLoginAdmin(rows, now) \cup R2DormantAdmin(rows, now) \cup
    R3SodBreach(rows, now) \cup R4OrphanedLogin(rows, now) \cup
    R5RbacBypass(rows, now) \cup R6SharedAccount(rows, now)

Summary(found) ==
    [r \in RuleId |-> Cardinality({f \in found : f.rule = r})]
=============================================================================
