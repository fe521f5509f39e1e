------------------------------- MODULE DbPool -------------------------------
(***************************************************************************)
(* The connection pool of services/orchestrator-agent (db.py) and the two  *)
(* ways of using it: a statement of rbac_store.py goes through             *)
(* DatabasePool.execute or fetch, which give the connection back; the      *)
(* handlers of /health and /ready (webhook_server.py) take a raw           *)
(* connection with DatabasePool.acquire and give it back with              *)
(* pool.release, a method that DatabasePool does not have: the             *)
(* AttributeError is swallowed and the connection stays out.               *)
(*                                                                         *)
(* asyncpg's pool is external: it holds Size connections, makes a caller   *)
(* wait (without a time limit, for none is passed) when all are out, and   *)
(* takes a connection back when it is released or lost.                    *)
(***************************************************************************)
EXTENDS Naturals, FiniteSets

CONSTANTS
    Task,           \* coroutines of the event loop
    Kind,           \* what they run: subset of {"statement", "health", "ready"}
    Size,           \* max_size of the pool
    PoolAtStart,    \* did load_rbac_state find the database at start?
    MaxPools,       \* bound: pools created
    MaxRequests,    \* bound: requests served
    MaxLosses       \* bound: times the database drops its connections

ASSUME DbPoolAssumption ==
    /\ IsFiniteSet(Task)
    /\ Kind \subseteq {"statement", "health", "ready"}
    /\ Size \in Nat \ {0}
    /\ PoolAtStart \in BOOLEAN
    /\ MaxPools \in Nat \ {0} /\ MaxRequests \in Nat /\ MaxLosses \in Nat

VARIABLES
    db_pool,    \* db._db_pool: the number of a pool, NoPool for None
    pools,      \* pools created so far
    idle,       \* free connections of each pool
    task,       \* what each coroutine is doing
    requests,   \* requests begun
    losses      \* times the connections were dropped

vars == <<db_pool, pools, idle, task, requests, losses>>

NoPool == 0
PoolId == 1..MaxPools

At == {"creating", "waiting", "holding", "broken", "returned"}
Status == {"none", "up", "down", "ready", "not_ready", "done", "failed"}
TaskState == [kind : Kind, at : At, pool : {NoPool} \cup PoolId,
              answered : BOOLEAN, status : Status]

Started(k, at, p) ==
    [kind |-> k, at |-> at, pool |-> p, answered |-> FALSE, status |-> "none"]

NoTask == [at |-> "none"]
Running(t) == task[t].at \notin {"none", "returned"}
Holders(p) == {t \in Task : task[t].at = "holding" /\ task[t].pool = p}
Quiescent == \A t \in Task : ~Running(t)

-----------------------------------------------------------------------------
\* pool.acquire(): a free connection at once, or the caller waits.
acquire(t, k, p) ==
    IF idle[p] > 0
    THEN /\ idle' = [idle EXCEPT ![p] = @ - 1]
         /\ task' = [task EXCEPT ![t] = Started(k, "holding", p)]
    ELSE /\ task' = [task EXCEPT ![t] = Started(k, "waiting", p)]
         /\ UNCHANGED idle

\* A request begins: get_pool finds the pool, or awaits its creation.
get_pool(t, k) ==
    /\ ~Running(t)
    /\ requests < MaxRequests
    /\ requests' = requests + 1
    /\ IF db_pool = NoPool
       THEN /\ task' = [task EXCEPT ![t] = Started(k, "creating", NoPool)]
            /\ UNCHANGED idle
       ELSE acquire(t, k, db_pool)
    /\ UNCHANGED <<db_pool, pools, losses>>

\* DatabasePool.create returns: the coroutine stores its pool in the global,
\* whatever is there by now, and takes a connection of the pool it stored.
create(t) ==
    /\ task[t].at = "creating"
    /\ pools < MaxPools
    /\ pools' = pools + 1
    /\ db_pool' = pools + 1
    /\ idle' = [idle EXCEPT ![pools + 1] = Size - 1]
    /\ task' = [task EXCEPT ![t] = Started(task[t].kind, "holding", pools + 1)]
    /\ UNCHANGED <<requests, losses>>

\* What a request reports when its query was answered (ok) or not.  The
\* AttributeError of pool.release comes before health sets db_ok.
report(k, ok) ==
    CASE k = "health" -> "down"
      [] k = "ready" -> IF ok THEN "ready" ELSE "not_ready"
      [] OTHER -> IF ok THEN "done" ELSE "failed"

Finished(s, ok) ==
    [kind |-> s.kind, at |-> "returned", pool |-> s.pool,
     answered |-> ok, status |-> report(s.kind, ok)]

Finish(t, ok) == task' = [task EXCEPT ![t] = Finished(task[t], ok)]

\* The database is away: create_pool raises.
create_fails(t) ==
    /\ task[t].at = "creating"
    /\ Finish(t, FALSE)
    /\ UNCHANGED <<db_pool, pools, idle, requests, losses>>

\* A connection is free and a waiting coroutine gets it.  The pool wakes its
\* waiters in order, but a request that begins in between may be faster.
Take(t) ==
    /\ task[t].at = "waiting"
    /\ idle[task[t].pool] > 0
    /\ idle' = [idle EXCEPT ![task[t].pool] = @ - 1]
    /\ task' = [task EXCEPT ![t].at = "holding"]
    /\ UNCHANGED <<db_pool, pools, requests, losses>>

\* The connections given back when the query of t ends: `async with` gives
\* one back on every path, the probes give back none.
ReleasesOnSuccess(k, ok) == IF k = "statement" /\ ok THEN 1 ELSE 0
releases(k, ok) == IF k = "statement" THEN 1 ELSE 0

Query(t) ==
    /\ task[t].at = "holding"
    /\ \E ok \in BOOLEAN :
         /\ Finish(t, ok)
         /\ idle' = [idle EXCEPT ![task[t].pool] = @ + releases(task[t].kind, ok)]
    /\ UNCHANGED <<db_pool, pools, requests, losses>>

\* The query of a connection that was lost raises; the pool has taken the
\* connection back already and ignores the release.
BrokenReleases(t) == idle' = [idle EXCEPT ![task[t].pool] = @ + 1]
BrokenRelease(t) == UNCHANGED idle

QueryOfLost(t) ==
    /\ task[t].at = "broken"
    /\ Finish(t, FALSE)
    /\ BrokenRelease(t)
    /\ UNCHANGED <<db_pool, pools, requests, losses>>

\* The database drops every connection: each pool has all of its own again.
LoseConnections ==
    /\ losses < MaxLosses
    /\ losses' = losses + 1
    /\ idle' = [p \in PoolId |-> IF p <= pools THEN Size ELSE 0]
    /\ task' = [t \in Task |->
                  IF task[t].at = "holding" THEN [task[t] EXCEPT !.at = "broken"]
                                            ELSE task[t]]
    /\ UNCHANGED <<db_pool, pools, requests>>

Init ==
    /\ pools = IF PoolAtStart THEN 1 ELSE 0
    /\ db_pool = pools
    /\ idle = [p \in PoolId |-> IF p <= pools THEN Size ELSE 0]
    /\ task = [t \in Task |-> NoTask]
    /\ requests = 0 /\ losses = 0

Step(t) ==
    \/ create(t)
    \/ create_fails(t)
    \/ Take(t)
    \/ Query(t)
    \/ QueryOfLost(t)

Next ==
    \/ \E t \in Task : (\E k \in Kind : get_pool(t, k)) \/ Step(t)
    \/ LoseConnections

Spec == Init /\ [][Next]_vars

\* The event loop runs every coroutine that can go on, and the database
\* answers or fails every query.
FairSpec == Spec /\ \A t \in Task : WF_vars(Step(t))

-----------------------------------------------------------------------------
TypeOK ==
    /\ pools \in 0..MaxPools
    /\ db_pool \in 0..pools
    /\ idle \in [PoolId -> 0..Size]
    /\ task \in [Task -> {NoTask} \cup TaskState]
    /\ requests \in Nat /\ losses \in Nat

\* A pool never hands out more connections than it has, however the losses of
\* connections and their releases interleave.
NoExtraConnection ==
    \A p \in PoolId : idle[p] + Cardinality(Holders(p)) <= Size

\* With nothing running, every connection is back in its pool.
ConnectionsReturned ==
    Quiescent => \A p \in 1..pools : idle[p] = Size

\* Every request is answered: a statement returns, /ready says 200 or 503.
RequestsAnswered == \A t \in Task : Running(t) ~> ~Running(t)

=============================================================================
