---------------------------- MODULE DiscordTasks ----------------------------
(***************************************************************************)
(* The scheduled tasks of the Discord service (modules/taskScheduler.js):  *)
(* rows in scheduled_tasks, the cron jobs that run them, and the reload    *)
(* that makes new jobs from the rows.                                      *)
(*                                                                         *)
(* Handlers run until they await; a statement is two steps where others    *)
(* may come between what it reads and what the handler does with it.  The  *)
(* commands that delete and toggle tasks change nothing: they compare one  *)
(* parameter with a name and with a number, and PostgreSQL rejects that.   *)
(***************************************************************************)
EXTENDS Naturals, FiniteSets

CONSTANTS
    None,           \* no job
    Slot,           \* commands that may be handled together: 1..n
    MaxTasks,       \* bound: rows ever inserted, and commands
    MaxJobs,        \* bound: cron jobs ever made
    MaxRuns,        \* bound: runs of tasks under way
    MaxFailures     \* bound: statements that fail

VARIABLES
    rows,           \* scheduled_tasks: the ids there are
    lastRunStatus,  \* its column last_run_status
    live,           \* the cron jobs node-cron fires
    taskOf,         \* the task each job runs
    jobs,           \* number of jobs made
    registeredTasks,\* the job of each task
    reloads,        \* reloads in flight, with the rows they have read: [n, at, rows]
    cmd,            \* where each command is
    runs,           \* executeTask under way: [task, at]
    missed,         \* history: tasks a reload has not seen that its command
                    \* waited for
    failures

vars == <<rows, lastRunStatus, live, taskOf, jobs, registeredTasks, reloads,
          cmd, runs, missed, failures>>

Task == 1..MaxTasks
Job == 1..MaxJobs
Idle == [at |-> "idle"]

Ok == UNCHANGED failures
Error == failures < MaxFailures /\ failures' = failures + 1

-----------------------------------------------------------------------------
\* stopAll, at the start of a reload.
stopAll ==
    /\ live' = live \ {registeredTasks[t] : t \in Task}
    /\ registeredTasks' = [t \in Task |-> None]

\* reloadTasks: all that call it while one is under way share that one.
reloadTasksAnew(n) ==
    /\ n = Cardinality(reloads) + 1
    /\ stopAll
    /\ reloads' = reloads \cup {[n |-> n, at |-> "select"]}

reloadTasks(n) ==
    IF reloads = {} THEN n = 1 /\ stopAll /\ reloads' = {[n |-> n, at |-> "select"]}
    ELSE n = 1 /\ UNCHANGED <<live, registeredTasks, reloads>>

\* SELECT ... WHERE enabled; without an answer there are no jobs.
Select(reload) ==
    /\ reload.at = "select"
    /\ \/ /\ Ok /\ missed' = {}
          /\ reloads' = (reloads \ {reload}) \cup {[n |-> reload.n, at |-> "register", rows |-> rows]}
       \/ /\ Error /\ missed' = rows
          /\ reloads' = reloads \ {reload}
    /\ UNCHANGED <<rows, lastRunStatus, live, taskOf, jobs, registeredTasks, cmd, runs>>

\* registerTask for each row.
registerTask(found) ==
    LET job(t) == jobs + Cardinality({u \in found : u <= t})
        new == {job(t) : t \in found}
    IN /\ jobs + Cardinality(found) <= MaxJobs
       /\ jobs' = jobs + Cardinality(found)
       /\ live' = live \cup new
       /\ taskOf' = [j \in Job |-> IF j \in new THEN CHOOSE t \in found : job(t) = j ELSE taskOf[j]]
       /\ registeredTasks' = [t \in Task |-> IF t \in found THEN job(t) ELSE registeredTasks[t]]

Register(reload) ==
    /\ reload.at = "register"
    /\ registerTask(reload.rows)
    /\ reloads' = reloads \ {reload}
    /\ UNCHANGED <<rows, lastRunStatus, cmd, runs, missed, failures>>

-----------------------------------------------------------------------------
\* /cron create: the checks, among them that the container is the user's.
create(r) ==
    /\ cmd[r] = Idle /\ \A other \in Slot : other < r => cmd[other] # Idle
    /\ cmd' = [cmd EXCEPT ![r] = [at |-> "insert"]]
    /\ UNCHANGED <<rows, lastRunStatus, live, taskOf, jobs, registeredTasks, reloads,
                   runs, missed, failures>>

Insert(r) ==
    /\ cmd[r].at = "insert"
    /\ \/ /\ Cardinality(rows) < MaxTasks /\ Ok
          /\ LET t == Cardinality(rows) + 1
             IN rows' = rows \cup {t} /\ cmd' = [cmd EXCEPT ![r] = [at |-> "reload", task |-> t]]
       \/ Error /\ UNCHANGED rows /\ cmd' = [cmd EXCEPT ![r] = Idle]
    /\ UNCHANGED <<lastRunStatus, live, taskOf, jobs, registeredTasks, reloads, runs, missed>>

Reload(r) ==
    /\ cmd[r].at = "reload"
    /\ \E n \in 1..Cardinality(reloads) + 1 :
         /\ reloadTasks(n)
         /\ cmd' = [cmd EXCEPT ![r] = [at |-> "reply", reload |-> n]]
         /\ missed' = IF \E reload \in reloads :
                             reload.n = n /\ reload.at = "register" /\ cmd[r].task \notin reload.rows
                      THEN missed \cup {cmd[r].task} ELSE missed
    /\ UNCHANGED <<rows, lastRunStatus, taskOf, jobs, runs, failures>>

\* "created", when the reload is over.
Reply(r) ==
    /\ cmd[r].at = "reply" /\ \A reload \in reloads : reload.n # cmd[r].reload
    /\ cmd' = [cmd EXCEPT ![r] = Idle]
    /\ UNCHANGED <<rows, lastRunStatus, live, taskOf, jobs, registeredTasks, reloads,
                   runs, missed, failures>>

-----------------------------------------------------------------------------
\* A job's time has come: executeTask, and nothing looks at the run before.
Fire(job) ==
    /\ Cardinality(runs) < MaxRuns
    /\ \E n \in 1..MaxRuns :
         /\ \A m \in 1..n : m = n <=> m \notin {run.n : run \in runs}
         /\ runs' = runs \cup {[n |-> n, task |-> taskOf[job], at |-> "start"]}
    /\ UNCHANGED <<rows, lastRunStatus, live, taskOf, jobs, registeredTasks, reloads,
                   cmd, missed, failures>>

\* The row is read (a task without one does not run) and marked as running.
Start(run) ==
    /\ run.at = "start"
    /\ \/ /\ run.task \in rows /\ Ok
          /\ lastRunStatus' = [lastRunStatus EXCEPT ![run.task] = "running"]
          /\ runs' = (runs \ {run}) \cup {[run EXCEPT !.at = "work"]}
       \/ /\ run.task \in rows /\ Error
          /\ runs' = (runs \ {run}) \cup {[run EXCEPT !.at = "work"]}
          /\ UNCHANGED lastRunStatus
       \/ /\ (run.task \notin rows /\ Ok) \/ Error
          /\ runs' = runs \ {run}
          /\ UNCHANGED lastRunStatus
    /\ UNCHANGED <<rows, live, taskOf, jobs, registeredTasks, reloads, cmd, missed>>

\* The work itself is vpsManager's.  The status is to be written at the end
\* with an error_message, a column the table does not have.
Finish(run) ==
    /\ run.at = "work"
    /\ runs' = runs \ {run}
    /\ UNCHANGED <<rows, lastRunStatus, live, taskOf, jobs, registeredTasks, reloads,
                   cmd, missed, failures>>

-----------------------------------------------------------------------------
\* The client is ready and init has begun to load what rows there are.
Init ==
    /\ rows \in {{}, {1}} /\ lastRunStatus = [t \in Task |-> "never"]
    /\ live = {} /\ taskOf = [j \in Job |-> None] /\ jobs = 0
    /\ registeredTasks = [t \in Task |-> None]
    /\ reloads = {[n |-> 1, at |-> "select"]}
    /\ cmd = [r \in Slot |-> Idle]
    /\ runs = {}
    /\ missed = {}
    /\ failures = 0

Next ==
    \/ \E reload \in reloads : Select(reload) \/ Register(reload)
    \/ \E r \in Slot : create(r) \/ Insert(r) \/ Reload(r) \/ Reply(r)
    \/ \E job \in live : Fire(job)
    \/ \E run \in runs : Start(run) \/ Finish(run)

Spec == Init /\ [][Next]_vars

-----------------------------------------------------------------------------
\* The rows, jobs, commands and runs have their types.
TypeOK ==
    /\ rows \subseteq Task
    /\ lastRunStatus \in [Task -> {"never", "running"}]
    /\ live \subseteq 1..jobs /\ jobs \in 0..MaxJobs
    /\ taskOf \in [Job -> Task \cup {None}]
    /\ registeredTasks \in [Task -> Job \cup {None}]
    /\ reloads \subseteq [n : Nat, at : {"select"}] \cup [n : Nat, at : {"register"}, rows : SUBSET rows]
    /\ \A r \in Slot : cmd[r].at \in {"idle", "insert", "reload", "reply"}
    /\ runs \subseteq [n : 1..MaxRuns, task : Task, at : {"start", "work"}]
    /\ missed \subseteq rows

\* Whatever commands and reloads overlap, no cron job goes on that the
\* scheduler has lost sight of (stopAll could never stop it, and its task
\* would run twice); and when nothing is under way, every task has its job
\* except those whose reload failed or had read the rows before they came.
JobsKept ==
    /\ live = {registeredTasks[t] : t \in Task} \ {None}
    /\ \A t \in Task : registeredTasks[t] # None => taskOf[registeredTasks[t]] = t
    /\ (reloads = {} /\ \A r \in Slot : cmd[r] = Idle)
       => \A t \in rows \ missed : registeredTasks[t] \in live

=============================================================================
