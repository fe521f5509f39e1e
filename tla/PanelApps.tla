----------------------------- MODULE PanelApps ------------------------------
(***************************************************************************)
(* The apps of one user of the management panel (server/index.ts): rows of *)
(* docker_apps, the container of the first of them, and what the server    *)
(* keeps in memory about them: roles, snapshots, plugins, workspaces.      *)
(*                                                                         *)
(* Starting and stopping ask the row for the container, run docker, and    *)
(* then tell the row; requests go on between these three.  Only the last   *)
(* one looks at whose app it is.                                           *)
(***************************************************************************)
EXTENDS Naturals

CONSTANTS
    User, Owner,    \* the callers, and the one whose apps these are
    None,           \* nothing in memory yet
    Slot,           \* requests that may be handled together: 1..n
    MaxRequests,    \* bound: requests begun
    MaxFailures,    \* bound: statements and commands that fail
    MaxRestarts     \* bound: restarts of the server

VARIABLES
    status,         \* docker_apps: the status of each app there is
    running,        \* docker: does the container of the first app run?
    memory,         \* the server's maps, under each app
    workspaces,     \* and the user's workspaces
    req,            \* the requests being handled
    unsure,         \* history: the row cannot be expected to tell the truth
    requests, failures, restarts

vars == <<status, running, memory, workspaces, req, unsure, requests, failures, restarts>>

First == 1
App == DOMAIN status
Command == {"start", "stop", "restart"}

Maps == [roles : {None} \cup SUBSET (User \cup {"guest"}),
         snapshots : {None} \cup SUBSET {"default", "made", "cloned", "restoring"},
         plugins : {None, {"plugin"}}]
NoMaps == [roles |-> None, snapshots |-> None, plugins |-> None]

\* clean: no other command has run since this one.
Idle == [at |-> "idle"]
Request ==
    [at : {"docker"}, user : User, command : Command]
    \cup [at : {"update"}, user : User, command : Command, clean : BOOLEAN]
    \cup [at : {"clone"}, app : Nat, new : Nat, backups : BOOLEAN]

\* The slots are names: the first that is free is taken.
Begin(r) ==
    /\ req[r] = Idle /\ \A other \in Slot : other < r => req[other] # Idle
    /\ requests < MaxRequests /\ requests' = requests + 1
Goto(r, next) == req' = [req EXCEPT ![r] = next]

Ok == UNCHANGED failures
Error == failures < MaxFailures /\ failures' = failures + 1

Table == <<status, running, unsure, restarts>>
Memory == <<memory, workspaces>>

\* A row that is inserted is stopped and has no container.
NewApp == requests + 2
Inserted(new) == [a \in App \cup {new} |-> IF a = new THEN "stopped" ELSE status[a]]

-----------------------------------------------------------------------------
\* POST /api/apps and /api/templates/deploy.
createApp(r) ==
    /\ Begin(r)
    /\ \/ status' = Inserted(NewApp) /\ Ok
       \/ UNCHANGED status /\ Error
    /\ UNCHANGED <<running, Memory, req, unsure, restarts>>

\* DELETE /api/apps/:appId; the container and what is in memory stay.
deleteApp(r, a) ==
    /\ Begin(r)
    /\ \/ status' = [b \in App \ {a} |-> status[b]] /\ Ok
       \/ UNCHANGED status /\ Error
    /\ UNCHANGED <<running, Memory, req, unsure, restarts>>

-----------------------------------------------------------------------------
\* start, stop and restart, and the same tools of the assistant.  dockerAction
\* looks up the container: there is one for the first app only.
dockerAction(r, user, command) ==
    /\ Begin(r)
    /\ First \in App
    /\ \/ Goto(r, [at |-> "docker", user |-> user, command |-> command]) /\ Ok
       \/ UNCHANGED req /\ Error
    /\ UNCHANGED <<Table, Memory>>

\* The command has run.  One that fails may still have stopped the container.
runCommand(r) ==
    /\ req[r].at = "docker"
    /\ LET pending == {s \in Slot : req[s].at = "update"}
           Alone(q) == IF q.at = "update" THEN [q EXCEPT !.clean = FALSE] ELSE q
           After(q) == [s \in Slot |-> IF s = r THEN q ELSE Alone(req[s])]
       IN  \/ /\ running' = (req[r].command # "stop") /\ Ok
              /\ req' = After([at |-> "update", user |-> req[r].user,
                               command |-> req[r].command, clean |-> pending = {}])
              /\ unsure' = (unsure \/ pending # {})
           \/ /\ running' \in {running, running /\ req[r].command = "start"} /\ Error
              /\ req' = After(Idle)
              /\ unsure' = TRUE
    /\ UNCHANGED <<status, Memory, requests, restarts>>

\* The row is told, if it is the caller's and still there.
ToldRunningOnce(command) == IF command = "start" THEN "running" ELSE "stopped"
Told(command) == IF command = "stop" THEN "stopped" ELSE "running"

updateStatus(r) ==
    /\ req[r].at = "update"
    /\ \/ /\ req[r].user = Owner /\ First \in App /\ Ok
          /\ status' = [status EXCEPT ![First] = Told(req[r].command)]
          /\ unsure' = (unsure /\ ~req[r].clean)
       \/ /\ IF req[r].user = Owner /\ First \in App THEN Error ELSE Ok
          /\ UNCHANGED status
          /\ unsure' = TRUE
    /\ Goto(r, Idle)
    /\ UNCHANGED <<running, Memory, requests, restarts>>

\* A container may stop by itself; nobody tells the row.
Exit ==
    /\ running /\ running' = FALSE
    /\ unsure' = TRUE
    /\ req' = [s \in Slot |-> IF req[s].at = "update" THEN [req[s] EXCEPT !.clean = FALSE] ELSE req[s]]
    /\ UNCHANGED <<status, Memory, requests, failures, restarts>>

-----------------------------------------------------------------------------
\* POST /api/apps/:appId/clone: the row, and what is in memory of the source
\* by the time the row is in.
clone(r, a, backups) ==
    /\ Begin(r)
    /\ \/ a \in App /\ Ok /\ Goto(r, [at |-> "clone", app |-> a, new |-> NewApp, backups |-> backups])
       \/ a \notin App /\ Ok /\ UNCHANGED req
       \/ Error /\ UNCHANGED req
    /\ UNCHANGED <<Table, Memory>>

Of(a) == IF a \in DOMAIN memory THEN memory[a] ELSE NoMaps
Remembered(a, maps) ==
    [b \in DOMAIN memory \cup {a} |-> IF b = a THEN maps ELSE memory[b]]

Cloned(a, backups) ==
    LET there == Of(a).snapshots IN
    [NoMaps EXCEPT !.roles = {Owner},
                   !.snapshots = IF ~backups THEN None ELSE IF there = {} THEN {} ELSE {"cloned"}]

InsertClone(r) ==
    /\ req[r].at = "clone"
    /\ \/ /\ status' = Inserted(req[r].new)
          /\ memory' = Remembered(req[r].new, Cloned(req[r].app, req[r].backups))
          /\ Ok
       \/ UNCHANGED <<status, memory>> /\ Error
    /\ Goto(r, Idle)
    /\ UNCHANGED <<running, workspaces, unsure, requests, restarts>>

-----------------------------------------------------------------------------
\* The routes on the maps: 404 unless the app is the caller's, then a change
\* without a pause.
OnApp(r, a, maps) ==
    /\ Begin(r)
    /\ \/ a \in App /\ memory' = Remembered(a, maps) /\ Ok
       \/ a \notin App /\ UNCHANGED memory /\ Ok
       \/ UNCHANGED memory /\ Error
    /\ UNCHANGED <<Table, workspaces, req>>

Default(value, default) == IF value = None THEN default ELSE value

getRoles(r, a) == OnApp(r, a, [Of(a) EXCEPT !.roles = Default(@, {Owner})])

\* An assignment replaces those of its id or principal; the owner's is added
\* only by a GET that finds no roles at all.
postRole(r, a, principal, replaced) ==
    OnApp(r, a, [Of(a) EXCEPT !.roles = (Default(@, {}) \ replaced) \cup {principal}])

getSnapshots(r, a) == OnApp(r, a, [Of(a) EXCEPT !.snapshots = Default(@, {"default"})])

postSnapshot(r, a) == OnApp(r, a, [Of(a) EXCEPT !.snapshots = Default(@, {}) \cup {"made"}])

\* Restoring marks the snapshot, and nothing ever sets it ready again; the
\* default snapshots of an app nobody has listed have new ids each time.
restoreSnapshot(r, a, snapshot) ==
    OnApp(r, a, [Of(a) EXCEPT !.snapshots =
        IF @ = None \/ snapshot \notin Default(@, {}) THEN @
        ELSE (@ \ {snapshot}) \cup {"restoring"}])

installPlugin(r, a) == OnApp(r, a, [Of(a) EXCEPT !.plugins = {"plugin"}])

\* GET and POST /api/workspaces.
getWorkspaces(r) ==
    /\ Begin(r)
    /\ workspaces' = Default(workspaces, {"Default Workspace"})
    /\ UNCHANGED <<Table, memory, req, failures>>

postWorkspace(r) ==
    /\ Begin(r)
    /\ workspaces' = Default(workspaces, {}) \cup {"made"}
    /\ UNCHANGED <<Table, memory, req, failures>>

\* What is in memory goes with the process; a docker command that is under way
\* goes on, and nobody will tell the row.
Restart ==
    /\ restarts < MaxRestarts /\ restarts' = restarts + 1
    /\ memory' = <<>> /\ workspaces' = None
    /\ \E done \in {r \in Slot : req[r].at = "docker"} \cup {None} :
         running' = IF done = None THEN running ELSE req[done].command # "stop"
    /\ unsure' = (unsure \/ \E r \in Slot : req[r].at \in {"docker", "update"})
    /\ req' = [r \in Slot |-> Idle]
    /\ UNCHANGED <<status, requests, failures>>

-----------------------------------------------------------------------------
Init ==
    /\ status = [a \in {First} |-> "stopped"] /\ running = FALSE
    /\ memory = <<>> /\ workspaces = None
    /\ req = [r \in Slot |-> Idle]
    /\ unsure = FALSE
    /\ requests = 0 /\ failures = 0 /\ restarts = 0

Next ==
    \/ \E r \in Slot :
        \/ createApp(r)
        \/ \E user \in User, command \in Command : dockerAction(r, user, command)
        \/ runCommand(r) \/ updateStatus(r)
        \/ InsertClone(r)
        \/ getWorkspaces(r) \/ postWorkspace(r)
        \/ \E a \in App \cup {First} :
            \/ deleteApp(r, a)
            \/ \E backups \in BOOLEAN : clone(r, a, backups)
            \/ getRoles(r, a) \/ getSnapshots(r, a) \/ postSnapshot(r, a) \/ installPlugin(r, a)
            \/ \E replaced \in SUBSET {Owner} : postRole(r, a, "guest", replaced)
            \/ \E snapshot \in {"default", "made"} : restoreSnapshot(r, a, snapshot)
    \/ Exit
    \/ Restart

Spec == Init /\ [][Next]_vars

-----------------------------------------------------------------------------
\* The rows, the maps and the requests have their types.
TypeOK ==
    /\ App \subseteq Nat /\ \A a \in App : status[a] \in {"stopped", "running"}
    /\ running \in BOOLEAN /\ unsure \in BOOLEAN
    /\ \A a \in DOMAIN memory : memory[a] \in Maps
    /\ workspaces \in {None} \cup SUBSET {"Default Workspace", "made"}
    /\ req \in [Slot -> {Idle} \cup Request]

\* The row says whether the container runs (start, stop, restart, assistant)
\* unless a request is just about to tell it, and unless since the last
\* command that ran on its own and was told something went wrong: commands
\* overlapped, one failed or was not told, a stranger gave one, or the
\* container stopped by itself.  One such command puts the row right again.
StatusTold ==
    First \in App =>
        \/ status[First] = (IF running THEN "running" ELSE "stopped")
        \/ unsure
        \/ \E r \in Slot : req[r].at = "update"

=============================================================================
