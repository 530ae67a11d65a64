------------------------------- MODULE MCRows -------------------------------
(* The extractor and the rules on two servers, one of them named after an  *)
(* environment, and on the repository's synthetic rows.                    *)
EXTENDS Scenarios, TLC

Shared == {"svc_etl", "app_40", "svc_app", "svc_app_alpha", "svc_app_beta", "user512"}
EnvTag == "prod" :> {"prod"} @@ "sql_prod" :> {"prod"} @@ "sql01" :> {}
          @@ "appdb" :> {} @@ "appdb_test" :> {} @@ "appdb_uat" :> {"uat"}
          @@ "appdb_dev" :> {"dev"} @@ "appdb_prod" :> {"prod"}

TwoServers == <<[server |-> "sql01", databases |-> <<"appdb_dev", "appdb_prod">>],
                [server |-> "sql_prod", databases |-> <<"appdb_dev">>]>>
TwoLogins == <<"alice", "svc_etl">>

Nobody == [user |-> None, roles |-> {}, perms |-> {}]
Profiles == {
    [user |-> "dbo", roles |-> {"db_owner"}, perms |-> {}],
    [user |-> "alice", roles |-> {"db_datareader"}, perms |-> {<<"GRANT", "CONTROL">>, <<"DENY", "CONTROL">>}],
    [user |-> "alice", roles |-> {","}, perms |-> {<<"GRANT_WITH_GRANT_OPTION", "INSERT">>, <<"GRANT", "SELECT">>}],
    [user |-> "alice", roles |-> {"db_owner", "etl,ops"}, perms |-> {}]}
Estates ==
    {[created |-> -845 * Day, active |-> [sql01 |-> [l \in {"alice", "svc_etl"} |-> a],
                                                 sql_prod |-> [l \in {"alice", "svc_etl"} |-> None]],
      sysadmin |-> [sql01 |-> {}, sql_prod |-> sa],
      profile |-> [alice |-> p, svc_etl |-> [x \in Slot |-> Nobody]]] :
        a \in {None, -179}, sa \in SUBSET {"alice"}, p \in [Slot -> Profiles]}

Parts == [r \in {"db_owner", "db_datareader", ",", "etl,ops"} |->
    CASE r = "," -> {} [] r = "etl,ops" -> {"etl", "ops"} [] OTHER -> {r}]
=============================================================================
