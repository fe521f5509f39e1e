----------------------------- MODULE MCServices -----------------------------
(***************************************************************************)
(* A small instance of each of the services.                               *)
(***************************************************************************)
EXTENDS Services, TLC

CONSTANTS u1, u2

Kinds ==
    {"tasks", "databases", "modpacks", "themes", "dashboards", "translations", "tags"}
Tables ==
    {"webhooks", "api_keys", "backup_jobs", "alert_configs", "notification_channels"}
Windows == {[env |-> "all", from |-> 0, until |-> 1, override |-> FALSE]}
PolicyBodies == {[override |-> FALSE, floor |-> 4]}
SignalsBodies == {[budget |-> 5], [budget |-> 4]}
AlertConfigs == (u1 :> {"cpu", "disk"}) @@ (u2 :> {})
Rules ==
    {[enabled |-> TRUE, rollout |-> 50, deny |-> {}, target |-> {"discord"}]}
Buckets == [browser |-> 10, discord |-> 60]
SmallRotas == {<<"alice", "carol">>, <<"bob">>}

RequestsEach ==
    [settings |-> 4, lists |-> 3, deploys |-> 2, setup |-> 4, apps |-> 3,
     secrets |-> 4, audit |-> 3, flags |-> 2]
TimeEach == [deploys |-> 1, watch |-> 3, fleet |-> 2]
=============================================================================
