--------------------------- MODULE ConfigVersions ---------------------------
(***************************************************************************)
(* The settings of one app of the management panel (server/index.ts): the  *)
(* row in docker_apps that PATCH and rollback change, and its history in   *)
(* config_versions that POST and rollback add to.                          *)
(*                                                                         *)
(* A handler waits for Supabase at every statement, and other requests go  *)
(* on in between; each statement is an action.  Supabase answers a failed  *)
(* statement with an error instead of throwing it, and a handler that does *)
(* not look at the error goes on as if there were no rows.                 *)
(***************************************************************************)
EXTENDS Naturals, FiniteSets, FiniteSetsExt

CONSTANTS
    Vars,           \* what environment_vars may hold besides JAVA_VERSION
    Java,           \* values of JAVA_VERSION
    Limit,          \* values of memory_limit and cpu_shares, taken together
    None,           \* a field or variable that is not set
    Slot,           \* requests that may be handled together
    MaxRequests,    \* bound: requests begun
    MaxFailures     \* bound: statements that fail

VARIABLES
    exists,         \* is the app's row in docker_apps?
    settings,       \* its environment_vars and limits
    versions,       \* config_versions: the snapshot under each number
    req,            \* the requests being handled
    requests, failures

vars == <<exists, settings, versions, req, requests, failures>>

Env == [rest : Vars \cup {None}, java : Java \cup {None}]
NoEnv == [rest |-> None, java |-> None]
Settings == [env : Env, limit : Limit \cup {None}]

\* A snapshot is what the client sent, or what an earlier version holds.
Snapshot == [env : Env \cup {None}, limit : Limit \cup {None}]

Idle == [at |-> "idle"]
Request ==
    [at : {"max", "apply"}, snapshot : Snapshot]
    \cup [at : {"insert"}, snapshot : Snapshot, version : Nat]
    \cup [at : {"patch"}, java : Java, env : Env, limit : Limit \cup {None}]

Numbers == DOMAIN versions
Latest == IF Numbers = {} THEN 0 ELSE Max(Numbers)

Begin(r) ==
    /\ req[r] = Idle
    /\ requests < MaxRequests /\ requests' = requests + 1

Goto(r, next) == req' = [req EXCEPT ![r] = next]

\* Whether a statement fails.
Ok == UNCHANGED failures
Error == failures < MaxFailures /\ failures' = failures + 1

Rows == <<exists, settings, versions>>

-----------------------------------------------------------------------------
\* POST /config-versions: the handler asks for the highest number first.
createVersion(r, snapshot) ==
    /\ Begin(r)
    /\ Goto(r, [at |-> "max", snapshot |-> snapshot])
    /\ UNCHANGED <<Rows, failures>>

\* The number after the highest, or 1 when the statement fails: its error is
\* not looked at.
NextVersion == Latest + 1

ReadMax(r) ==
    /\ req[r].at = "max"
    /\ \E version \in {NextVersion, 1} :
         /\ IF version = NextVersion THEN Ok ELSE Error
         /\ Goto(r, [at |-> "insert", snapshot |-> req[r].snapshot, version |-> version])
    /\ UNCHANGED <<Rows, requests>>

\* UNIQUE(app_id, version) and the reference to docker_apps.
InsertableTwice(version) == exists
Insertable(version) == exists /\ version \notin Numbers

Added(version, snapshot) ==
    [v \in Numbers \cup {version} |-> IF v = version THEN snapshot ELSE versions[v]]

\* The row goes in, or the answer is 500; after a rollback too, whose settings
\* are in force by then.
InsertVersion(r) ==
    /\ req[r].at = "insert"
    /\ \/ /\ Insertable(req[r].version)
          /\ versions' = Added(req[r].version, req[r].snapshot)
          /\ Ok
       \/ ~Insertable(req[r].version) /\ Ok /\ UNCHANGED versions
       \/ Error /\ UNCHANGED versions
    /\ Goto(r, Idle)
    /\ UNCHANGED <<exists, settings, requests>>

-----------------------------------------------------------------------------
\* POST /config-versions/:version/rollback: 404 when the version is not there
\* or cannot be read.
rollback(r, version) ==
    /\ Begin(r)
    /\ \/ version \in Numbers /\ Ok /\ Goto(r, [at |-> "apply", snapshot |-> versions[version]])
       \/ version \notin Numbers /\ Ok /\ UNCHANGED req
       \/ Error /\ UNCHANGED req
    /\ UNCHANGED Rows

\* Variables the snapshot lacks are cleared; a limit it lacks is left out of
\* the update.
AppliedAsIs(snapshot) ==
    [env |-> snapshot.env,
     limit |-> IF snapshot.limit = None THEN settings.limit ELSE snapshot.limit]
Applied(snapshot) ==
    [env |-> IF snapshot.env = None THEN NoEnv ELSE snapshot.env,
     limit |-> IF snapshot.limit = None THEN settings.limit ELSE snapshot.limit]

ApplySnapshot(r) ==
    /\ req[r].at = "apply"
    /\ \/ /\ exists /\ Ok
          /\ settings' = Applied(req[r].snapshot)
          /\ Goto(r, [at |-> "max", snapshot |-> req[r].snapshot])
       \/ /\ (~exists /\ Ok) \/ Error
          /\ Goto(r, Idle) /\ UNCHANGED settings
    /\ UNCHANGED <<exists, versions, requests>>

-----------------------------------------------------------------------------
\* PATCH /api/apps/:appId sets the fields that are given.
Update(env, limit) ==
    /\ \/ /\ exists /\ Ok
          /\ settings' = [env |-> IF env = None THEN settings.env ELSE env,
                          limit |-> IF limit = None THEN settings.limit ELSE limit]
       \/ ((~exists /\ Ok) \/ Error) /\ UNCHANGED settings
    /\ UNCHANGED <<exists, versions>>

patch(r, env, limit) == Begin(r) /\ Update(env, limit) /\ UNCHANGED req

\* With a javaVersion the variables are read first, and there seem to be none
\* when that fails; the update then writes all of them.
patchJava(r, java, limit) ==
    /\ Begin(r)
    /\ \E env \in {settings.env, NoEnv} :
         /\ IF env = settings.env THEN Ok ELSE Error
         /\ Goto(r, [at |-> "patch", java |-> java, env |-> env, limit |-> limit])
    /\ UNCHANGED Rows

WriteJava(r) ==
    /\ req[r].at = "patch"
    /\ Update([req[r].env EXCEPT !.java = req[r].java], req[r].limit)
    /\ Goto(r, Idle)
    /\ UNCHANGED requests

\* DELETE /api/apps/:appId.  The versions go with the row.
deleteApp(r) ==
    /\ Begin(r)
    /\ \/ exists' = FALSE /\ versions' = <<>> /\ Ok
       \/ Error /\ UNCHANGED <<exists, versions>>
    /\ UNCHANGED <<settings, req>>

-----------------------------------------------------------------------------
Init ==
    /\ exists = TRUE
    /\ settings = [env |-> NoEnv, limit |-> None]
    /\ versions = <<>>
    /\ req = [r \in Slot |-> Idle]
    /\ requests = 0 /\ failures = 0

Next == \E r \in Slot :
    \/ \E s \in Snapshot : createVersion(r, s)
    \/ ReadMax(r)
    \/ InsertVersion(r)
    \/ \E v \in 1..(Latest + 1) : rollback(r, v)
    \/ ApplySnapshot(r)
    \/ \E e \in Env \cup {None}, l \in Limit \cup {None} : patch(r, e, l)
    \/ \E j \in Java, l \in Limit \cup {None} : patchJava(r, j, l)
    \/ WriteJava(r)
    \/ deleteApp(r)

Spec == Init /\ [][Next]_vars

-----------------------------------------------------------------------------
\* The app's settings, its history and the requests have their types.
TypeOK ==
    /\ exists \in BOOLEAN
    /\ settings \in Settings
    /\ Numbers \subseteq Nat /\ versions \in [Numbers -> Snapshot]
    /\ req \in [Slot -> {Idle} \cup Request]

\* The history as a list: its entries under 1, 2, 3...
History ==
    [v \in 1..Cardinality(Numbers) |-> IF v \in Numbers THEN versions[v] ELSE None]

=============================================================================
