----------------------------- MODULE VpsManager -----------------------------
(***************************************************************************)
(* The VPS manager of services/orchestrator-agent (vps_*.py): containers   *)
(* of Docker, the inventory of them in memory (vps_instances), and its two *)
(* copies, the table vps_containers and a JSON file.                       *)
(*                                                                         *)
(* Calls to Docker block the event loop, so a request runs in one step up  *)
(* to save_instances, which waits for a lock, opens the file (and empties  *)
(* it) and writes it; other requests run in between.  save_instances never *)
(* reaches the table: DatabasePool.acquire is a coroutine, which           *)
(* "async with" refuses.  The rows are the Discord service's, whose        *)
(* containers have no configuration here.                                  *)
(*                                                                         *)
(* A VPS is named by its first container: vps, saved and deleted are       *)
(* history, for what the inventory says after restores.                    *)
(***************************************************************************)
EXTENDS Naturals, Sequences, FiniteSets

CONSTANTS
    Container,      \* the ids Docker gives out
    Provisioned,    \* those of the Discord service's containers
    Task,           \* coroutines of the event loop
    MaxRequests,    \* bound: requests begun
    MaxFailures,    \* bound: calls that fail in Docker, the database or the file system
    MaxRestarts     \* bound: restarts of the service

ASSUME VpsManagerAssumption ==
    Provisioned \subseteq Container /\ {MaxRequests, MaxFailures, MaxRestarts} \subseteq Nat

VARIABLES
    docker,     \* what Docker knows of each id
    instances,  \* vps_instances: container id -> what is known of it
    rows,       \* the container ids in vps_containers
    file,       \* the inventory in the JSON file; an empty file is none
    queue,      \* coroutines in save_instances; the first one has the lock
    task,       \* what each coroutine is doing
    requests, failures, restarts,
    saved,      \* did the latest save of this process succeed?
    deleted     \* the VPSs deleted by this process

counters == <<requests, failures, restarts>>
vars == <<docker, instances, rows, file, queue, task, counters, saved, deleted>>

State == {"none", "running", "stopped", "removed"}
Info == [vps : Container, status : {"running", "stopped", "unknown"}, config : BOOLEAN]

IsInventory(f) == DOMAIN f \subseteq Container /\ \A c \in DOMAIN f : f[c] \in Info
Empty == [c \in {} |-> c]
Without(f, c) == [d \in DOMAIN f \ {c} |-> f[d]]
With(f, c, info) == [d \in DOMAIN f \cup {c} |-> IF d = c THEN info ELSE f[d]]

Idle == [at |-> "idle"]
Saving(then, c) == [at |-> "waiting", then |-> then, c |-> c]
Writing(s, f) == [at |-> "writing", then |-> s.then, c |-> s.c, content |-> f]
IsTask(s) ==
    \/ s = Idle
    \/ /\ s.c \in Container /\ s.then \in {"return", "remove_from_database", "replace"}
       /\ \/ s = Saving(s.then, s.c)
          \/ s = Writing(s, s.content) /\ IsInventory(s.content)

Exists(c) == docker[c] \in {"running", "stopped"}
Unused == {c \in Container : docker[c] = "none"}

Begin(t) ==
    /\ task[t] = Idle
    /\ requests < MaxRequests
    /\ requests' = requests + 1
    /\ UNCHANGED <<restarts, rows, file, saved>>

\* n calls to Docker or the file system fail, and have no effect.
Fail(n) == failures + n <= MaxFailures /\ failures' = failures + n

\* await self.save_instances(), and what the request does after it.
save_instances(t, then, c) ==
    /\ queue' = Append(queue, t)
    /\ task' = [task EXCEPT ![t] = Saving(then, c)]

Return == UNCHANGED <<queue, task>>

-----------------------------------------------------------------------------
create_vps(t) ==
    /\ Begin(t)
    /\ \E c \in Unused :
         /\ docker' = [docker EXCEPT ![c] = "running"]
         /\ instances' = With(instances, c, [vps |-> c, status |-> "running", config |-> TRUE])
         /\ save_instances(t, "return", c)
    /\ UNCHANGED <<failures, deleted>>

delete_vps(t, c) ==
    /\ Begin(t)
    /\ Exists(c)
    /\ docker' = [docker EXCEPT ![c] = "removed"]
    /\ instances' = Without(instances, c)
    /\ deleted' = deleted \cup {instances[d].vps : d \in DOMAIN instances \cap {c}}
    /\ save_instances(t, "remove_from_database", c)
    /\ UNCHANGED failures

\* container.remove() fails after container.stop().
delete_vps_fails_forgotten(t, c) ==
    /\ Begin(t)
    /\ Exists(c)
    /\ Fail(1)
    /\ docker' = [docker EXCEPT ![c] = "stopped"]
    /\ instances' = Without(instances, c)
    /\ Return
    /\ UNCHANGED deleted
delete_vps_fails(t, c) ==
    /\ Begin(t)
    /\ Exists(c)
    /\ Fail(1)
    /\ docker' = [docker EXCEPT ![c] = "stopped"]
    /\ Return
    /\ UNCHANGED <<instances, deleted>>

\* start_vps, restart_vps, stop_vps: the inventory follows Docker.
SetState(t, c, state, then) ==
    /\ docker' = [docker EXCEPT ![c] = state]
    /\ IF c \in DOMAIN instances
       THEN /\ instances' = [instances EXCEPT ![c].status = state]
            /\ save_instances(t, then, c)
       ELSE UNCHANGED instances /\ Return

start_stop_vps(t, c, state) ==
    /\ Begin(t)
    /\ Exists(c)
    /\ SetState(t, c, state, "return")
    /\ UNCHANGED <<failures, deleted>>

\* A running container is stopped, resized and started.  Of these calls those
\* in F fail; after a failure it is started again ("recover"), its state read
\* ("refresh").
ResizeFails(c, F) ==
    IF docker[c] = "running" THEN F \cap {"stop", "update", "start", "reload"} # {}
                             ELSE F \cap {"update", "reload"} # {}
Interrupted(c, F) == "stop" \notin F /\ F \cap {"update", "start"} # {}
LeftDownAtOnce(c, F) == Interrupted(c, F)
LeftDown(c, F) == Interrupted(c, F) /\ "recover" \in F

update_vps_config(t, c) ==
    /\ Begin(t)
    /\ Exists(c)
    /\ \E F \in SUBSET {"stop", "update", "start", "reload", "recover", "refresh"} :
         LET state == IF LeftDown(c, F) THEN "stopped" ELSE docker[c]
             status == IF ResizeFails(c, F) /\ "refresh" \in F THEN "unknown" ELSE state
         IN /\ Fail(Cardinality(F))
            /\ docker' = [docker EXCEPT ![c] = state]
            /\ IF c \in DOMAIN instances
               THEN /\ instances' = [instances EXCEPT ![c].status = status]
                    /\ save_instances(t, "return", c)
               ELSE UNCHANGED instances /\ Return
    /\ UNCHANGED deleted

\* Limits that are refused, and a container that is gone, leave a status of
\* "unknown".
update_vps_config_refused(t, c) ==
    /\ Begin(t)
    /\ c \in DOMAIN instances
    /\ instances' = [instances EXCEPT ![c].status = "unknown"]
    /\ save_instances(t, "return", c)
    /\ UNCHANGED <<docker, failures, deleted>>

\* The rest of restore_backup: a new container takes the place of the old one
\* in the inventory, unless the VPS is gone by now, its configuration is not
\* known, or Docker refuses the image.
SwappedKept(c, d) == With(instances, d, instances[c])
Swapped(c, d) == With(Without(instances, c), d, instances[c])

Replace(t, c, waiting) ==
    \/ /\ c \in DOMAIN instances /\ instances[c].config
       /\ \E d \in Unused :
            /\ docker' = [docker EXCEPT ![d] = "running"]
            /\ instances' = Swapped(c, d)
            /\ queue' = Append(waiting, t)
            /\ task' = [task EXCEPT ![t] = Saving("return", d)]
    \/ /\ queue' = waiting
       /\ task' = [task EXCEPT ![t] = Idle]
       /\ UNCHANGED <<docker, instances>>

\* Whether stop_vps stopped the container is not looked at.
restore_backup(t, c) ==
    /\ Begin(t)
    /\ \/ Exists(c) /\ SetState(t, c, "stopped", "replace") /\ UNCHANGED failures
       \/ Exists(c) /\ Fail(1) /\ Replace(t, c, queue)
       \/ ~Exists(c) /\ UNCHANGED failures /\ Replace(t, c, queue)
    /\ UNCHANGED deleted

\* create_backup and create_snapshot note the image in the inventory.
create_backup(t, c) ==
    /\ Begin(t)
    /\ Exists(c) /\ c \in DOMAIN instances
    /\ save_instances(t, "return", c)
    /\ UNCHANGED <<docker, instances, failures, deleted>>

-----------------------------------------------------------------------------
\* The request that was saving goes on with what it does after that.
Resume(t) ==
    \/ /\ task[t].then = "return"
       /\ queue' = Tail(queue) /\ task' = [task EXCEPT ![t] = Idle]
       /\ UNCHANGED <<docker, instances, rows>>
    \/ /\ task[t].then = "remove_from_database"
       /\ rows' \in {rows, rows \ {task[t].c}}
       /\ queue' = Tail(queue) /\ task' = [task EXCEPT ![t] = Idle]
       /\ UNCHANGED <<docker, instances>>
    \/ /\ task[t].then = "replace"
       /\ Replace(t, task[t].c, Tail(queue))
       /\ UNCHANGED rows

HasLockAnyway(t) == task[t] # Idle
HasLock(t) == queue # <<>> /\ Head(queue) = t

\* The inventory as it is now is what will be written; the file is emptied.
Open(t) ==
    /\ task[t].at = "waiting" /\ HasLock(t)
    /\ task' = [task EXCEPT ![t] = Writing(task[t], instances)]
    /\ file' = Empty
    /\ UNCHANGED <<docker, instances, rows, queue, counters, saved, deleted>>

Write(t) ==
    /\ task[t].at = "writing" /\ HasLock(t)
    /\ file' = task[t].content
    /\ saved' = TRUE
    /\ Resume(t)
    /\ UNCHANGED <<counters, deleted>>

\* The file cannot be opened, or cannot be written after that.
SaveFailsLocked(t) ==
    /\ task[t].at \in {"waiting", "writing"} /\ HasLock(t)
    /\ Fail(1)
    /\ saved' = FALSE
    /\ task' = [task EXCEPT ![t] = Idle]
    /\ UNCHANGED <<docker, instances, rows, queue, requests, restarts, file, deleted>>
SaveFails(t) ==
    /\ task[t].at \in {"waiting", "writing"} /\ HasLock(t)
    /\ Fail(1)
    /\ saved' = FALSE
    /\ Resume(t)
    /\ UNCHANGED <<requests, restarts, file, deleted>>

\* _load_instances: the rows if the database answers, else the file.
FromRowsBare(status) == [c \in rows |-> [vps |-> c, status |-> status[c]]]
FromRows(status) == [c \in rows |-> [vps |-> c, status |-> status[c], config |-> FALSE]]

Restart ==
    /\ restarts < MaxRestarts
    /\ restarts' = restarts + 1
    /\ \/ \E status \in [rows -> {"running", "stopped"}] : instances' = FromRows(status)
       \/ instances' = file
    /\ queue' = <<>> /\ task' = [t \in Task |-> Idle]
    /\ saved' = FALSE /\ deleted' = {}
    /\ UNCHANGED <<docker, rows, file, requests, failures>>

\* The Discord service made some containers, and there is no file.
Init ==
    /\ rows = Provisioned
    /\ docker = [c \in Container |-> IF c \in Provisioned THEN "running" ELSE "none"]
    /\ instances = [c \in Provisioned |-> [vps |-> c, status |-> "running", config |-> FALSE]]
    /\ file = Empty
    /\ queue = <<>> /\ task = [t \in Task |-> Idle]
    /\ requests = 0 /\ failures = 0 /\ restarts = 0
    /\ saved = FALSE /\ deleted = {}

Request(t) ==
    \/ create_vps(t)
    \/ \E c \in Container :
         \/ delete_vps(t, c) \/ delete_vps_fails(t, c)
         \/ \E state \in {"running", "stopped"} : start_stop_vps(t, c, state)
         \/ update_vps_config(t, c) \/ update_vps_config_refused(t, c)
         \/ create_backup(t, c) \/ restore_backup(t, c)

Save(t) == Open(t) \/ Write(t) \/ SaveFails(t)

Next == Restart \/ \E t \in Task : Request(t) \/ Save(t)

Spec == Init /\ [][Next]_vars

\* The event loop runs what is ready, and opening and writing a file end.
FairSpec == Spec /\ \A t \in Task : WF_vars(Save(t))

-----------------------------------------------------------------------------
\* The inventory, the file and what is being written to it list containers
\* that Docker gave out, with every field that the handlers read.
TypeOK ==
    /\ docker \in [Container -> State]
    /\ IsInventory(instances)
    /\ rows \subseteq Container
    /\ IsInventory(file)
    /\ queue \in Seq(Task)
    /\ DOMAIN task = Task
    /\ \A t \in Task : IsTask(task[t])
    /\ requests \in Nat /\ failures \in Nat /\ restarts \in Nat
    /\ saved \in BOOLEAN /\ deleted \subseteq Container

\* However restores, deletions and restarts interleave, no two entries of the
\* inventory are the same VPS, and none is one that this process deleted.
EachVpsOnce ==
    \A c, d \in DOMAIN instances :
        /\ instances[c].vps = instances[d].vps => c = d
        /\ instances[c].vps \notin deleted

\* A VPS leaves the inventory of a running process only by its deletion.
NoVpsForgotten ==
    [][restarts' = restarts =>
        \A c \in DOMAIN instances :
            \/ instances[c].vps \in deleted'
            \/ \E d \in DOMAIN instances' : instances'[d].vps = instances[c].vps]_vars

\* "Serialising persistence prevents concurrent JSON writes from truncating
\* the fallback inventory": when all is quiet the file is the inventory,
\* unless the latest save failed.
FallbackCurrent == queue = <<>> /\ saved => file = instances

\* "A failed resize must not leave a previously running developer workload
\* down": it takes two failing calls.
ResizeKeepsRunning ==
    [][\A t \in Task, c \in Container :
        update_vps_config(t, c) /\ docker[c] = "running" /\ failures' <= failures + 1
            => docker'[c] = "running"]_vars

\* Every request that is saving ends: the lock is never kept.
RequestsEnd == \A t \in Task : task[t] # Idle ~> task[t] = Idle

\* "Persist VPS instance metadata to PostgreSQL (primary) and JSON file
\* (fallback)": a restart finds what was saved.
InstancesSurviveRestart ==
    [][restarts' # restarts /\ queue = <<>> /\ saved => DOMAIN instances \subseteq DOMAIN instances']_vars

=============================================================================
