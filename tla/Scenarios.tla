----------------------------- MODULE Scenarios -----------------------------
(***************************************************************************)
(* The synthetic rows of the repository: the golden scenarios, the demo    *)
(* CSV and the counterfactual pairs, with what is expected of the rules on *)
(* them.  Day 0 is the date they are written for.  A class of many alike   *)
(* rows is represented by one of them.                                     *)
(***************************************************************************)
EXTENDS Extract

\* The logins and users of these rows.
Names == {"svc_etl", "old_admin", "app_40", "user_050", "boundary_admin",
          "svc_app_alpha", "svc_app_beta", "shared_svc_user", "normal_user_01",
          "explicit_user_00", "explicit_user_01", "user512", "injection",
          "alice_admin", "dormant_admin", "etl_batch", "orphan_acct", "explicit_user",
          "svc_app", "alice_appuser"}

\* What R6's pattern, the search for an environment and the splitting at commas
\* make of the names in these rows.
ASSUME ScenariosAssumption ==
    /\ None \notin Names
    /\ SharedName \cap Names =
          {"svc_etl", "app_40", "svc_app_alpha", "svc_app_beta", "user512", "svc_app"}
    /\ {"appdb_dev", "appdb_prod", "appdb_test", "sql01"} \subseteq DOMAIN EnvTags
    /\ EnvTags["appdb_dev"] = {"dev"} /\ EnvTags["appdb_prod"] = {"prod"}
    /\ EnvTags["appdb_test"] = {} /\ EnvTags["sql01"] = {}
    /\ RolePart["db_datareader"] = {"db_datareader"} /\ RolePart["db_owner"] = {"db_owner"}

App == <<"appdb", "sql01">>
Row(login) ==
    [login |-> login, type |-> "WINDOWS_LOGIN", created |-> -845 * Day,
     active |-> -10 * Day, database |-> App, user |-> login,
     roles |-> {"db_datareader"}, explicit |-> {}, level |-> "ReadOnly"]

Boundary(days) == [Row("boundary_admin") EXCEPT
    !.level = "Admin", !.active = -days * Day, !.created = -400 * Day]

Golden == [
    synth_500_principals |->
        <<[Row("svc_etl") EXCEPT !.type = "SQL_LOGIN", !.level = "Admin"],
          [Row("old_admin") EXCEPT !.level = "Admin", !.active = -120 * Day],
          [Row("app_40") EXCEPT !.active = -5 * Day],
          [Row("user_050") EXCEPT !.active = -60 * Day]>>,
    synth_boundary_89d |-> <<Boundary(89)>>,
    synth_boundary_91d |-> <<Boundary(91)>>,
    synth_dup_sids |->
        <<[Row("svc_app_alpha") EXCEPT !.user = "shared_svc_user", !.active = -3 * Day],
          [Row("svc_app_beta") EXCEPT !.user = "shared_svc_user", !.active = -3 * Day],
          Row("normal_user_01")>>,
    synth_high_explicit |->
        <<[Row("explicit_user_00") EXCEPT !.level = "Write", !.roles = {}, !.explicit = {"write"}],
          [Row("explicit_user_01") EXCEPT !.level = "Write", !.roles = {}, !.explicit = {"write"}]>>,
    synth_data |->
        <<[Row("user512") EXCEPT !.explicit = {"read"}, !.active = -5 * Day],
          [Row("injection") EXCEPT !.explicit = {"read"}, !.active = -5 * Day,
                                   !.level = "Admin", !.roles = {"db_owner"}]>>]

\* What the generators' comments say fires, as <<rule, login>>.
Claimed == [
    synth_500_principals |-> {<<"R1", "svc_etl">>, <<"R6", "svc_etl">>,
                              <<"R2", "old_admin">>, <<"R6", "app_40">>},
    synth_boundary_89d |-> {},
    synth_boundary_91d |-> {<<"R2", "boundary_admin">>},
    synth_dup_sids |-> {<<"R6", "svc_app_alpha">>, <<"R6", "svc_app_beta">>},
    synth_high_explicit |-> {<<"R5", "explicit_user_00">>, <<"R5", "explicit_user_01">>},
    synth_data |-> {<<"R6", "user512">>}]

\* write_outputs: the expected findings of a golden case are what the rules
\* find when it is generated.
ExpectedFindings(name, t) ==
    {<<f.rule, f.principal>> : f \in RunRules(Golden[name], t)}

-----------------------------------------------------------------------------
(* Counterfactuals: rows that fire one rule, and the same rows with one    *)
(* attribute flipped so that it does not.                                  *)
Single(row, flipped) == [base |-> <<row>>, mutated |-> <<flipped>>]

SqlAdmin == [Row("alice_admin") EXCEPT !.type = "SQL_LOGIN", !.level = "Admin"]
Dormant == [Row("dormant_admin") EXCEPT
    !.level = "Admin", !.created = -2306 * Day, !.active = None]
Etl(name) == [Row("etl_batch") EXCEPT !.level = "Admin", !.database = <<name, "sql01">>]
Orphan == [Row("orphan_acct") EXCEPT !.user = None]
Bypass == [Row("explicit_user") EXCEPT !.explicit = {"write"}, !.roles = {}]

GeneratorsFlipping(days) == [
    R1 |-> Single(SqlAdmin, [SqlAdmin EXCEPT !.type = "WINDOWS_LOGIN"]),
    R2 |-> Single(Dormant, [Dormant EXCEPT !.active = -days * Day]),
    R3 |-> [base |-> <<Etl("appdb_dev"), Etl("appdb_prod")>>,
            mutated |-> <<Etl("appdb_dev"), Etl("appdb_test")>>],
    R4 |-> Single(Orphan, [Orphan EXCEPT !.user = "orphan_acct"]),
    R5 |-> Single(Bypass, [Bypass EXCEPT !.explicit = {}]),
    R6 |-> Single(Row("svc_app"), Row("alice_appuser"))]

\* Mutant: the flipped row of R2 is not recent enough.
GeneratorsWithStaleFlip == GeneratorsFlipping(100)

GENERATORS == GeneratorsFlipping(10)

\* run_counterfactual: both sides at the clock of the test.
TargetedRuleChanged(rule, t) ==
    Summary(RunRules(GENERATORS[rule].base, t))[rule]
        > Summary(RunRules(GENERATORS[rule].mutated, t))[rule]

OtherRulesUnchanged(rule, t) ==
    \A r \in RuleId \ {rule} :
        Summary(RunRules(GENERATORS[rule].base, t))[r]
            = Summary(RunRules(GENERATORS[rule].mutated, t))[r]

-----------------------------------------------------------------------------
\* The golden rows raise what their generators say, at whatever later time the
\* CSV is read; only dormancy adds to it, and not on the day they are made for.
ScenariosMeetTheirClaims ==
    ~Live /\ found # None =>
        LET got == {<<f.rule, f.principal>> : f \in found}
            claimed == Claimed[file]
        IN /\ claimed \subseteq got
           /\ \A x \in got \ claimed : x[1] = "R2" /\ now > 0
           /\ now = 0 => ExpectedFindings(file, now) = claimed

\* The flip of a counterfactual pair changes its rule and no other; R2's does so
\* at least until its flipped row, ten days old when it was written, is dormant.
CounterfactualsIsolate ==
    ~Live /\ found # None => \A r \in RuleId :
        /\ OtherRulesUnchanged(r, now)
        /\ (r = "R2" => now <= (DormantDays - 10) * Day) => TargetedRuleChanged(r, now)
=============================================================================
