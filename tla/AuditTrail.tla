------------------------------ MODULE AuditTrail ------------------------------
(***************************************************************************)
(* The rows the users of the management panel keep for themselves and the  *)
(* audit log that tells of them (server/index.ts): webhooks, API keys,     *)
(* backup jobs, alert configurations and notification channels.  A handler *)
(* changes the row in one statement and then, in another, inserts what it  *)
(* did into audit_log; other requests go on in between, and an entry that  *)
(* cannot be inserted is given up silently.  The table in question is      *)
(* chosen initially.                                                       *)
(*                                                                         *)
(* A PATCH stores its body; the model's sets one column, on, and never the *)
(* id or the owner.  Rows and entries are told apart by what they hold, so *)
(* that the log is a set: what it says, not how often or in which order.   *)
(***************************************************************************)
EXTENDS Naturals, FiniteSets

CONSTANTS
    None,           \* no request
    User,
    Slot,           \* requests that may be handled together: 1..n
    Table,          \* the tables
    MaxRequests,    \* bound: requests begun
    MaxFailures,    \* bound: statements that fail
    MaxRestarts     \* bound: restarts of the server

VARIABLES
    table,          \* the table in question
    rows,           \* its rows
    trail,          \* audit_log
    req,            \* the requests that have changed a row: what they go on to log
    excused,        \* history: ids of rows of which an entry was given up or never made
    requests, failures, restarts

vars == <<table, rows, trail, req, excused, requests, failures, restarts>>

\* An API key is on until it is revoked.
Row == [id : Nat, owner : User, on : BOOLEAN]
Entry == [user : User, action : {"create", "update", "delete"}, id : Nat, on : BOOLEAN]

NewId == requests + 1

Ok == UNCHANGED failures
Error == failures < MaxFailures /\ failures' = failures + 1

\* eq('id', id).eq('user_id', u)
Mine(u, id) == {row \in rows : row.id = id /\ row.owner = u}

-----------------------------------------------------------------------------
\* What every handler does: a statement, and if it succeeds the entry.  The
\* slots are names: the first that is free is taken.
Change(r, t, rowsAfter, u, action, id, on) ==
    /\ table = t
    /\ req[r] = None /\ \A other \in Slot : other < r => req[other] # None
    /\ requests < MaxRequests /\ requests' = requests + 1
    /\ \/ /\ rows' = rowsAfter /\ Ok
          /\ req' = [req EXCEPT ![r] = [user |-> u, action |-> action, id |-> id, on |-> on]]
       \/ UNCHANGED <<rows, req>> /\ Error
    /\ UNCHANGED <<table, trail, excused, restarts>>

\* Without the test of the statement's error.
ChangeUnchecked(r, t, rowsAfter, u, action, id, on) ==
    /\ table = t
    /\ req[r] = None /\ \A other \in Slot : other < r => req[other] # None
    /\ requests < MaxRequests /\ requests' = requests + 1
    /\ req' = [req EXCEPT ![r] = [user |-> u, action |-> action, id |-> id, on |-> on]]
    /\ (rows' = rowsAfter /\ Ok) \/ (UNCHANGED rows /\ Error)
    /\ UNCHANGED <<table, trail, excused, restarts>>

Insert(r, t, u, on) ==
    Change(r, t, rows \cup {[id |-> NewId, owner |-> u, on |-> on]}, u, "create", NewId, on)

\* single(): without a row of the user, 404 and no entry.
Update(r, t, u, id, on) ==
    /\ Mine(u, id) # {}
    /\ Change(r, t, (rows \ Mine(u, id)) \cup {[row EXCEPT !.on = on] : row \in Mine(u, id)},
              u, "update", id, on)

\* A deletion that matches no row is no error, and is logged like any other.
Delete(r, t, u, id) == Change(r, t, rows \ Mine(u, id), u, "delete", id, FALSE)

createWebhook(r, u) == Insert(r, "webhooks", u, TRUE)
deleteWebhook(r, u, id) == Delete(r, "webhooks", u, id)

createApiKey(r, u) == Insert(r, "api_keys", u, TRUE)
\* A key is revoked for good, its row kept.
revokeApiKey(r, u, id) ==
    Change(r, "api_keys",
           (rows \ Mine(u, id)) \cup {[row EXCEPT !.on = FALSE] : row \in Mine(u, id)},
           u, "delete", id, FALSE)

createBackupJob(r, u) == Insert(r, "backup_jobs", u, TRUE)
patchBackupJob(r, u, id, on) == Update(r, "backup_jobs", u, id, on)
deleteBackupJob(r, u, id) == Delete(r, "backup_jobs", u, id)

createAlertConfig(r, u, on) == Insert(r, "alert_configs", u, on)
patchAlertConfig(r, u, id, on) == Update(r, "alert_configs", u, id, on)
deleteAlertConfig(r, u, id) == Delete(r, "alert_configs", u, id)

createChannel(r, u) == Insert(r, "notification_channels", u, TRUE)
patchChannel(r, u, id, on) == Update(r, "notification_channels", u, id, on)
deleteChannel(r, u, id) == Delete(r, "notification_channels", u, id)

\* DELETE /api/apps/:appId.  With the app the database deletes its backup jobs,
\* which may be anybody's (app_id REFERENCES docker_apps ON DELETE CASCADE):
\* the entry says that the app was deleted, and nothing tells of the jobs.
deleteApp(jobs) ==
    /\ table = "backup_jobs"
    /\ jobs # {}
    /\ rows' = rows \ jobs
    /\ excused' = excused \cup {row.id : row \in jobs}
    /\ UNCHANGED <<table, trail, req, requests, failures, restarts>>

-----------------------------------------------------------------------------
\* The entry is inserted, or refused: Supabase answers with an error that
\* nobody looks at, or throws one that is caught.
logAudit(r) ==
    /\ req[r] # None
    /\ \/ trail' = trail \cup {req[r]} /\ Ok /\ UNCHANGED excused
       \/ UNCHANGED trail /\ Error /\ excused' = excused \cup {req[r].id}
    /\ req' = [req EXCEPT ![r] = None]
    /\ UNCHANGED <<table, rows, requests, restarts>>

\* The requests end with the process, those that had still to log too.
Restart ==
    /\ restarts < MaxRestarts /\ restarts' = restarts + 1
    /\ excused' = excused \cup {req[r].id : r \in {s \in Slot : req[s] # None}}
    /\ req' = [r \in Slot |-> None]
    /\ UNCHANGED <<table, rows, trail, requests, failures>>

Init ==
    /\ table \in Table
    /\ rows = {} /\ trail = {}
    /\ req = [r \in Slot |-> None]
    /\ excused = {}
    /\ requests = 0 /\ failures = 0 /\ restarts = 0

Next ==
    \/ \E r \in Slot, u \in User :
        \/ createWebhook(r, u) \/ createApiKey(r, u) \/ createBackupJob(r, u) \/ createChannel(r, u)
        \/ \E on \in BOOLEAN : createAlertConfig(r, u, on)
        \/ \E id \in 1..requests :
            \/ deleteWebhook(r, u, id) \/ revokeApiKey(r, u, id) \/ deleteBackupJob(r, u, id)
            \/ deleteAlertConfig(r, u, id) \/ deleteChannel(r, u, id)
            \/ \E on \in BOOLEAN :
                \/ patchBackupJob(r, u, id, on) \/ patchAlertConfig(r, u, id, on)
                \/ patchChannel(r, u, id, on)
    \/ \E jobs \in SUBSET rows : deleteApp(jobs)
    \/ \E r \in Slot : logAudit(r)
    \/ Restart

Spec == Init /\ [][Next]_vars

-----------------------------------------------------------------------------
\* What the lists show a user: a revoked key no more.
Listed(u) == {row \in rows : row.owner = u /\ (table = "api_keys" => row.on)}

\* What GET /api/audit-log shows a user, and what it is about to show.
Shown(u) == {e \in trail : e.user = u}
Told(u) == Shown(u) \cup {req[r] : r \in {s \in Slot : req[s] # None /\ req[s].user = u}}

\* The rows and the requests under way have their types.
TypeOK ==
    /\ table \in Table
    /\ rows \subseteq Row
    /\ trail \subseteq Entry
    /\ req \in [Slot -> Entry \cup {None}]
    /\ excused \subseteq Nat
    /\ requests \in 0..MaxRequests
    /\ failures \in 0..MaxFailures
    /\ restarts \in 0..MaxRestarts

\* What the audit log shows a user agrees with what the lists do, whatever
\* overlaps or fails, unless an entry of the row was given up or the row went
\* with its app (deleteApp): it tells that the row was made and that it was
\* given its present content, and of a row that is gone it tells the deletion;
\* and no row is listed whose deletion by its owner it shows.
TrailTells ==
    \A u \in User :
        /\ \A row \in Listed(u) :
            /\ [user |-> u, action |-> "delete", id |-> row.id, on |-> FALSE] \notin Told(u)
            /\ row.id \notin excused =>
                /\ \E e \in Told(u) : e.id = row.id /\ e.action = "create"
                /\ \E e \in Told(u) : e.id = row.id /\ e.action # "delete" /\ e.on = row.on
        /\ \A e \in Shown(u) :
            (\A row \in Listed(u) : row.id # e.id) /\ e.action = "create" /\ e.id \notin excused =>
                [user |-> u, action |-> "delete", id |-> e.id, on |-> FALSE] \in Told(u)
=============================================================================
