--------------------------- MODULE DbPool_proofs ---------------------------
(***************************************************************************)
(* Proofs about DbPool, for any number of coroutines, pools and lost       *)
(* connections: no pool ever hands out more connections than it has, and   *)
(* those that run statements give back every one.                          *)
(***************************************************************************)
EXTENDS DbPool, FiniteSetTheorems, TLAPS

\* A coroutine that uses a pool uses one that was created.
PoolsMade ==
    \A t \in Task : task[t].at \in {"waiting", "holding", "broken"} =>
                       task[t].pool \in 1..pools

IInv == TypeOK /\ PoolsMade /\ NoExtraConnection

-----------------------------------------------------------------------------
\* The holders of a pool are a finite set.
LEMMA HoldersFinite ==
    \A p : IsFiniteSet(Holders(p)) /\ Cardinality(Holders(p)) \in Nat
<1> TAKE p
<1>1. Holders(p) \subseteq Task
  BY DEF Holders
<1> QED
  BY <1>1, DbPoolAssumption, FS_Subset, FS_CardinalityType DEF DbPoolAssumption

\* A step of one coroutine that ends up holding a connection of pool q adds
\* it to the holders of q, and takes it from the holders of no pool unless it
\* held one.
LEMMA OneMore ==
    ASSUME NEW t \in Task, NEW q,
           task[t].at # "holding",
           task'[t].at = "holding", task'[t].pool = q,
           \A u \in Task \ {t} : task'[u] = task[u]
    PROVE  \A p : Cardinality(Holders(p)') =
                    Cardinality(Holders(p)) + (IF p = q THEN 1 ELSE 0)
<1> TAKE p
<1>1. t \notin Holders(p)
  BY DEF Holders
<1>2. CASE p = q
  <2>1. Holders(p)' = Holders(p) \cup {t}
    BY <1>2 DEF Holders
  <2> QED
    BY <2>1, <1>1, <1>2, HoldersFinite, FS_AddElement
<1>3. CASE p # q
  <2>1. Holders(p)' = Holders(p)
    BY <1>3 DEF Holders
  <2> QED
    BY <2>1, <1>3, HoldersFinite
<1> QED
  BY <1>2, <1>3

\* A step of a coroutine that held a connection and holds none afterwards.
LEMMA OneLess ==
    ASSUME NEW t \in Task,
           task[t].at = "holding", task'[t].at # "holding",
           \A u \in Task \ {t} : task'[u] = task[u]
    PROVE  \A p : Cardinality(Holders(p)') =
                    Cardinality(Holders(p)) - (IF p = task[t].pool THEN 1 ELSE 0)
<1> TAKE p
<1>1. CASE p = task[t].pool
  <2>1. t \in Holders(p) /\ Holders(p)' = Holders(p) \ {t}
    BY <1>1 DEF Holders
  <2> QED
    BY <2>1, <1>1, HoldersFinite, FS_RemoveElement
<1>2. CASE p # task[t].pool
  <2>1. Holders(p)' = Holders(p)
    BY <1>2 DEF Holders
  <2> QED
    BY <2>1, <1>2, HoldersFinite
<1> QED
  BY <1>1, <1>2

\* A step of a coroutine that holds a connection neither before nor after.
LEMMA NoneMoved ==
    ASSUME NEW t \in Task,
           task[t].at # "holding", task'[t].at # "holding",
           \A u \in Task \ {t} : task'[u] = task[u]
    PROVE  \A p : Holders(p)' = Holders(p)
BY DEF Holders

-----------------------------------------------------------------------------
LEMMA InitInv == Init => IInv
<1> SUFFICES ASSUME Init PROVE IInv
  OBVIOUS
<1>1. TypeOK
  BY DbPoolAssumption DEF Init, TypeOK, DbPoolAssumption, PoolId, NoTask
<1>2. PoolsMade
  BY DEF Init, PoolsMade, NoTask
<1>3. \A p : Holders(p) = {}
  BY DEF Init, Holders, NoTask
<1>4. NoExtraConnection
  BY <1>3, FS_EmptySet, DbPoolAssumption
     DEF Init, NoExtraConnection, PoolId, DbPoolAssumption
<1> QED
  BY <1>1, <1>2, <1>4 DEF IInv

\* Taking a free connection, whatever the coroutine was doing before.
LEMMA TakesOne ==
    ASSUME IInv, NEW t \in Task, NEW r \in TaskState,
           task[t].at # "holding", r.at = "holding", r.pool \in 1..pools,
           idle[r.pool] > 0,
           idle' = [idle EXCEPT ![r.pool] = @ - 1],
           task' = [task EXCEPT ![t] = r],
           requests' \in Nat,
           UNCHANGED <<db_pool, pools, losses>>
    PROVE  IInv'
<1> DEFINE q == r.pool
<1>0. q \in PoolId /\ pools \in 0..MaxPools /\ pools \in Nat
  BY DbPoolAssumption DEF IInv, TypeOK, PoolId, DbPoolAssumption
<1>1. TypeOK'
  BY <1>0, DbPoolAssumption DEF IInv, TypeOK, DbPoolAssumption
<1>2. task'[t] = r /\ \A u \in Task \ {t} : task'[u] = task[u]
  BY DEF IInv, TypeOK
<1>3. PoolsMade'
  BY <1>2 DEF IInv, PoolsMade
<1>4. \A p : Cardinality(Holders(p)') =
               Cardinality(Holders(p)) + (IF p = q THEN 1 ELSE 0)
  BY <1>2, OneMore
<1>5. \A p \in PoolId : idle'[p] = idle[p] - (IF p = q THEN 1 ELSE 0)
  BY <1>0 DEF IInv, TypeOK
<1>6. NoExtraConnection'
  BY <1>4, <1>5, HoldersFinite, DbPoolAssumption
     DEF IInv, TypeOK, NoExtraConnection, DbPoolAssumption
<1> QED
  BY <1>1, <1>3, <1>6 DEF IInv

\* A step of a coroutine that moves no connection.
LEMMA MovesNone ==
    ASSUME IInv, NEW t \in Task, NEW r \in TaskState,
           task[t].at # "holding", r.at # "holding",
           r.at \in {"waiting", "broken"} => r.pool \in 1..pools,
           task' = [task EXCEPT ![t] = r],
           requests' \in Nat,
           UNCHANGED <<db_pool, pools, idle, losses>>
    PROVE  IInv'
<1>1. TypeOK'
  BY DEF IInv, TypeOK
<1>2. task'[t] = r /\ \A u \in Task \ {t} : task'[u] = task[u]
  BY DEF IInv, TypeOK
<1>3. PoolsMade'
  BY <1>2 DEF IInv, PoolsMade
<1>4. \A p : Holders(p)' = Holders(p)
  BY <1>2, NoneMoved
<1>5. NoExtraConnection'
  BY <1>4 DEF IInv, NoExtraConnection
<1> QED
  BY <1>1, <1>3, <1>5 DEF IInv

\* The record a coroutine that begins is given.
LEMMA StartedType ==
    \A k \in Kind, at \in At, p \in {NoPool} \cup PoolId :
        /\ Started(k, at, p) \in TaskState
        /\ Started(k, at, p).at = at /\ Started(k, at, p).pool = p
BY DEF Started, TaskState, Status

\* The record a coroutine that ends is given.
LEMMA ReportType == \A k \in Kind, ok \in BOOLEAN : report(k, ok) \in Status
BY DEF report, Status

LEMMA FinishedType ==
    ASSUME TypeOK, NEW t \in Task, NEW ok \in BOOLEAN, task[t].at # "none"
    PROVE  /\ Finished(task[t], ok) \in TaskState
           /\ Finished(task[t], ok).at = "returned"
<1>1. task[t] \in TaskState
  BY DEF TypeOK, NoTask
<1>2. task[t].kind \in Kind /\ task[t].pool \in {NoPool} \cup PoolId
  BY <1>1 DEF TaskState
<1>3. report(task[t].kind, ok) \in Status
  BY <1>2, ReportType
<1> QED
  BY <1>2, <1>3 DEF Finished, TaskState, At

-----------------------------------------------------------------------------
LEMMA BeginInv ==
    ASSUME IInv, NEW t \in Task, NEW k \in Kind, get_pool(t, k) PROVE IInv'
<1>0. task[t].at # "holding" /\ requests' \in Nat
  BY DEF get_pool, Running, IInv, TypeOK
<1>1. CASE db_pool = NoPool
  <2>1. Started(k, "creating", NoPool) \in TaskState
        /\ Started(k, "creating", NoPool).at = "creating"
    BY StartedType DEF At
  <2> QED
    BY <1>0, <1>1, <2>1, MovesNone DEF get_pool
<1>2. CASE db_pool # NoPool
  <2>0. db_pool \in 1..pools /\ db_pool \in PoolId
    BY <1>2, DbPoolAssumption DEF IInv, TypeOK, NoPool, PoolId, DbPoolAssumption
  <2>1. CASE idle[db_pool] > 0
    <3>1. Started(k, "holding", db_pool) \in TaskState
          /\ Started(k, "holding", db_pool).at = "holding"
          /\ Started(k, "holding", db_pool).pool = db_pool
      BY <2>0, StartedType DEF At
    <3> QED
      BY <1>0, <1>2, <2>0, <2>1, <3>1, TakesOne DEF get_pool, acquire
  <2>2. CASE ~(idle[db_pool] > 0)
    <3>1. Started(k, "waiting", db_pool) \in TaskState
          /\ Started(k, "waiting", db_pool).at = "waiting"
          /\ Started(k, "waiting", db_pool).pool = db_pool
      BY <2>0, StartedType DEF At
    <3> QED
      BY <1>0, <1>2, <2>0, <2>2, <3>1, MovesNone DEF get_pool, acquire
  <2> QED
    BY <2>1, <2>2
<1> QED
  BY <1>1, <1>2

LEMMA CreateInv == ASSUME IInv, NEW t \in Task, create(t) PROVE IInv'
<1> DEFINE q == pools + 1
           r == Started(task[t].kind, "holding", q)
<1>0. /\ q \in PoolId /\ pools \in Nat /\ Size \in Nat \ {0}
      /\ task[t].at = "creating" /\ task[t] \in TaskState
  BY DbPoolAssumption DEF create, IInv, TypeOK, PoolId, DbPoolAssumption, NoTask
<1>1. task[t].kind \in Kind
  BY <1>0 DEF TaskState
<1>2. r \in TaskState /\ r.at = "holding" /\ r.pool = q
  BY <1>0, <1>1, StartedType DEF At
<1>3. task'[t] = r /\ \A u \in Task \ {t} : task'[u] = task[u]
  BY DEF create, IInv, TypeOK
<1>4. TypeOK'
  <2>1. task' \in [Task -> {NoTask} \cup TaskState]
    BY <1>2 DEF create, IInv, TypeOK
  <2>2. idle' \in [PoolId -> 0..Size]
    BY <1>0 DEF create, IInv, TypeOK
  <2>3. pools' \in 0..MaxPools /\ db_pool' \in 0..pools'
    BY <1>0, DbPoolAssumption DEF create, DbPoolAssumption
  <2> QED
    BY <2>1, <2>2, <2>3 DEF create, IInv, TypeOK
<1>5. PoolsMade'
  BY <1>0, <1>2, <1>3 DEF create, IInv, PoolsMade
<1>6. \A p : Cardinality(Holders(p)') =
               Cardinality(Holders(p)) + (IF p = q THEN 1 ELSE 0)
  BY <1>0, <1>2, <1>3, OneMore
<1>7. Holders(q) = {}
  BY <1>0 DEF Holders, IInv, PoolsMade
<1>8. \A p \in PoolId : idle'[p] = IF p = q THEN Size - 1 ELSE idle[p]
  BY <1>0 DEF create, IInv, TypeOK
<1>9. NoExtraConnection'
  <2> SUFFICES ASSUME NEW p \in PoolId
               PROVE  idle'[p] + Cardinality(Holders(p)') <= Size
    BY DEF NoExtraConnection
  <2>1. CASE p = q
    <3>1. Cardinality(Holders(q)) = 0
      BY <1>7, FS_EmptySet
    <3> HIDE DEF q
    <3> QED
      BY <1>0, <1>6, <1>8, <2>1, <3>1
  <2>2. CASE p # q
    BY <1>6, <1>8, <2>2, HoldersFinite DEF IInv, NoExtraConnection, TypeOK
  <2> QED
    BY <2>1, <2>2
<1> QED
  BY <1>4, <1>5, <1>9 DEF IInv

LEMMA CreateFailsInv == ASSUME IInv, NEW t \in Task, create_fails(t) PROVE IInv'
<1>1. /\ Finished(task[t], FALSE) \in TaskState
      /\ Finished(task[t], FALSE).at = "returned"
  BY FinishedType DEF create_fails, IInv
<1>2. /\ task[t].at = "creating" /\ requests \in Nat
      /\ task' = [task EXCEPT ![t] = Finished(task[t], FALSE)]
      /\ UNCHANGED <<db_pool, pools, idle, requests, losses>>
  BY DEF create_fails, Finish, IInv, TypeOK
<1> QED
  BY <1>1, <1>2, MovesNone

LEMMA TakeInv == ASSUME IInv, NEW t \in Task, Take(t) PROVE IInv'
<1> DEFINE r == [task[t] EXCEPT !.at = "holding"]
<1>1. task[t] \in TaskState
  BY DEF Take, IInv, TypeOK, NoTask
<1>2. r \in TaskState /\ r.at = "holding" /\ r.pool = task[t].pool
  BY <1>1 DEF TaskState, At
<1>3. r.pool \in 1..pools
  BY <1>2 DEF Take, IInv, PoolsMade
<1>4. task' = [task EXCEPT ![t] = r]
  BY DEF Take, IInv, TypeOK
<1>5. idle' = [idle EXCEPT ![r.pool] = @ - 1] /\ idle[r.pool] > 0
  BY <1>2 DEF Take
<1> HIDE DEF r
<1> QED
  BY <1>2, <1>3, <1>4, <1>5, TakesOne DEF Take, IInv, TypeOK

LEMMA QueryInv == ASSUME IInv, NEW t \in Task, Query(t) PROVE IInv'
<1>1. PICK ok \in BOOLEAN :
        /\ Finish(t, ok)
        /\ idle' = [idle EXCEPT ![task[t].pool] = @ + releases(task[t].kind, ok)]
  BY DEF Query
<1> DEFINE r == Finished(task[t], ok)
           q == task[t].pool
<1>2. r \in TaskState /\ r.at = "returned" /\ task' = [task EXCEPT ![t] = r]
  BY <1>1, FinishedType DEF Query, Finish, IInv
<1> HIDE DEF r
<1>3. /\ task[t].at = "holding" /\ q \in 1..pools /\ q \in PoolId
      /\ pools \in Nat /\ releases(task[t].kind, ok) \in {0, 1}
  BY DbPoolAssumption
     DEF Query, IInv, TypeOK, PoolsMade, PoolId, releases, DbPoolAssumption
<1>4. task'[t] = r /\ \A u \in Task \ {t} : task'[u] = task[u]
  BY <1>2 DEF IInv, TypeOK
<1>5. \A p : Cardinality(Holders(p)') =
               Cardinality(Holders(p)) - (IF p = q THEN 1 ELSE 0)
  BY <1>2, <1>3, <1>4, OneLess
<1>6. \A p \in PoolId : /\ idle'[p] = idle[p] + (IF p = q THEN releases(task[t].kind, ok) ELSE 0)
                        /\ idle[p] \in 0..Size
  BY <1>1, <1>3 DEF IInv, TypeOK
<1>7. NoExtraConnection'
  BY <1>3, <1>5, <1>6, HoldersFinite, DbPoolAssumption
     DEF IInv, NoExtraConnection, DbPoolAssumption
<1>8. TypeOK'
  <2>1. \A p \in PoolId : idle'[p] \in 0..Size
    <3>1. \A p : Cardinality(Holders(p)') \in Nat
      <4>1. \A p : Holders(p)' \subseteq Task
        BY DEF Holders
      <4> QED
        BY <4>1, DbPoolAssumption, FS_Subset, FS_CardinalityType DEF DbPoolAssumption
    <3> QED
      BY <3>1, <1>3, <1>6, <1>7, DbPoolAssumption DEF NoExtraConnection, DbPoolAssumption
  <2>2. idle' \in [PoolId -> 0..Size]
    BY <1>1, <2>1 DEF IInv, TypeOK
  <2>3. task' \in [Task -> {NoTask} \cup TaskState]
    BY <1>2 DEF IInv, TypeOK
  <2> QED
    BY <2>2, <2>3 DEF Query, IInv, TypeOK
<1>9. PoolsMade'
  BY <1>2, <1>4 DEF Query, IInv, PoolsMade
<1> QED
  BY <1>7, <1>8, <1>9 DEF IInv

LEMMA QueryOfLostInv == ASSUME IInv, NEW t \in Task, QueryOfLost(t) PROVE IInv'
<1>1. /\ Finished(task[t], FALSE) \in TaskState
      /\ Finished(task[t], FALSE).at = "returned"
  BY FinishedType DEF QueryOfLost, IInv
<1>2. /\ task[t].at = "broken" /\ requests \in Nat
      /\ task' = [task EXCEPT ![t] = Finished(task[t], FALSE)]
      /\ UNCHANGED <<db_pool, pools, idle, requests, losses>>
  BY DEF QueryOfLost, BrokenRelease, Finish, IInv, TypeOK
<1> QED
  BY <1>1, <1>2, MovesNone

\* A coroutine that loses its connection keeps the rest of its state.
LEMMA BrokenType ==
    ASSUME NEW s \in TaskState
    PROVE  /\ [s EXCEPT !.at = "broken"] \in TaskState
           /\ [s EXCEPT !.at = "broken"].at = "broken"
           /\ [s EXCEPT !.at = "broken"].pool = s.pool
BY DEF TaskState, At

LEMMA LoseInv == ASSUME IInv, LoseConnections PROVE IInv'
<1>1. \A t \in Task :
        task'[t] = IF task[t].at = "holding" THEN [task[t] EXCEPT !.at = "broken"]
                                             ELSE task[t]
  BY DEF LoseConnections
<1>0. \A t \in Task : task[t] \in {NoTask} \cup TaskState
  BY DEF IInv, TypeOK
<1>2. \A t \in Task :
        /\ task'[t] \in {NoTask} \cup TaskState
        /\ task'[t].at # "holding"
        /\ task'[t].at \in {"waiting", "broken"} =>
             /\ task'[t].pool = task[t].pool
             /\ task[t].at \in {"waiting", "holding", "broken"}
  <2> TAKE t \in Task
  <2>1. CASE task[t].at = "holding"
    <3>1. task[t] \in TaskState
      BY <1>0, <2>1 DEF NoTask
    <3>2. task'[t] = [task[t] EXCEPT !.at = "broken"]
      BY <1>1, <2>1
    <3> QED
      BY <2>1, <3>1, <3>2, BrokenType
  <2>2. CASE task[t].at # "holding"
    BY <1>0, <1>1, <2>2
  <2> QED
    BY <2>1, <2>2
<1>3. \A p : Holders(p)' = {}
  BY <1>2 DEF Holders
<1>4. \A p \in PoolId : idle'[p] \in 0..Size
  BY DbPoolAssumption DEF LoseConnections, DbPoolAssumption
<1>5. NoExtraConnection'
  BY <1>3, <1>4, FS_EmptySet, DbPoolAssumption DEF NoExtraConnection, DbPoolAssumption
<1>6. PoolsMade'
  BY <1>2 DEF LoseConnections, IInv, PoolsMade
<1>7. TypeOK'
  BY <1>2, <1>4 DEF LoseConnections, IInv, TypeOK
<1> QED
  BY <1>5, <1>6, <1>7 DEF IInv

LEMMA NextInv == IInv /\ [Next]_vars => IInv'
<1> SUFFICES ASSUME IInv, [Next]_vars PROVE IInv'
  OBVIOUS
<1>1. ASSUME NEW t \in Task, NEW k \in Kind, get_pool(t, k) PROVE IInv'
  BY <1>1, BeginInv
<1>2. ASSUME NEW t \in Task, Step(t) PROVE IInv'
  BY <1>2, CreateInv, CreateFailsInv, TakeInv, QueryInv, QueryOfLostInv DEF Step
<1>3. CASE LoseConnections
  BY <1>3, LoseInv
<1>4. CASE UNCHANGED vars
  BY <1>4 DEF vars, IInv, TypeOK, PoolsMade, NoExtraConnection, Holders
<1> QED
  BY <1>1, <1>2, <1>3, <1>4 DEF Next

\* The pools, their free connections and the coroutines are well typed; in
\* particular a pool never has more free connections than its size.
THEOREM PoolTypeCorrect == Spec => []TypeOK
<1>1. IInv => TypeOK
  BY DEF IInv
<1> QED
  BY InitInv, NextInv, <1>1, PTL DEF Spec

\* However requests, failed creations and lost connections interleave, a pool
\* never has more than Size connections free or held.
THEOREM NoConnectionTwice == Spec => []NoExtraConnection
<1>1. IInv => NoExtraConnection
  BY DEF IInv
<1> QED
  BY InitInv, NextInv, <1>1, PTL DEF Spec

-----------------------------------------------------------------------------
\* With statements alone nothing is ever missing: what a pool does not have is
\* held.
Balanced == \A p \in 1..pools : idle[p] + Cardinality(Holders(p)) = Size

LEMMA InitBalanced == Init => Balanced
<1> SUFFICES ASSUME Init PROVE Balanced
  OBVIOUS
<1>1. \A p : Cardinality(Holders(p)) = 0
  <2>1. \A p : Holders(p) = {}
    BY DEF Init, Holders, NoTask
  <2> QED
    BY <2>1, FS_EmptySet
<1>2. \A p \in 1..pools : idle[p] = Size
  BY DbPoolAssumption DEF Init, PoolId, DbPoolAssumption
<1> QED
  BY <1>1, <1>2, DbPoolAssumption DEF Balanced, DbPoolAssumption

\* Taking a free connection moves it to the holders.
LEMMA TakesOneBalanced ==
    ASSUME IInv, Balanced, NEW t \in Task, NEW r, NEW q \in 1..pools,
           task[t].at # "holding", r.at = "holding", r.pool = q,
           idle' = [idle EXCEPT ![q] = @ - 1],
           task' = [task EXCEPT ![t] = r],
           UNCHANGED pools
    PROVE  Balanced'
<1>1. task'[t] = r /\ \A u \in Task \ {t} : task'[u] = task[u]
  BY DEF IInv, TypeOK
<1>2. \A p : Cardinality(Holders(p)') =
               Cardinality(Holders(p)) + (IF p = q THEN 1 ELSE 0)
  BY <1>1, OneMore
<1>3. 1..pools \subseteq PoolId
  BY DbPoolAssumption DEF IInv, TypeOK, PoolId, DbPoolAssumption
<1>4. \A p \in 1..pools : idle'[p] = idle[p] - (IF p = q THEN 1 ELSE 0) /\ idle[p] \in Int
  BY <1>3 DEF IInv, TypeOK
<1> QED
  BY <1>2, <1>4, HoldersFinite, DbPoolAssumption DEF Balanced, DbPoolAssumption

\* A step that moves no connection.
LEMMA MovesNoneBalanced ==
    ASSUME IInv, Balanced, NEW t \in Task, NEW r,
           task[t].at # "holding", r.at # "holding",
           task' = [task EXCEPT ![t] = r],
           UNCHANGED <<pools, idle>>
    PROVE  Balanced'
<1>1. task'[t] = r /\ \A u \in Task \ {t} : task'[u] = task[u]
  BY DEF IInv, TypeOK
<1>2. \A p : Holders(p)' = Holders(p)
  BY <1>1, NoneMoved
<1> QED
  BY <1>2 DEF Balanced

LEMMA BeginBalanced ==
    ASSUME IInv, Balanced, NEW t \in Task, NEW k \in Kind, get_pool(t, k) PROVE Balanced'
<1>0. task[t].at # "holding"
  BY DEF get_pool, Running
<1>1. CASE db_pool = NoPool
  <2>1. Started(k, "creating", NoPool).at = "creating"
    BY DEF Started
  <2> QED
    BY <1>0, <1>1, <2>1, MovesNoneBalanced DEF get_pool
<1>2. CASE db_pool # NoPool
  <2>0. db_pool \in 1..pools
    BY <1>2, DbPoolAssumption DEF IInv, TypeOK, NoPool, DbPoolAssumption
  <2>1. CASE idle[db_pool] > 0
    <3>1. Started(k, "holding", db_pool).at = "holding"
          /\ Started(k, "holding", db_pool).pool = db_pool
      BY DEF Started
    <3> QED
      BY <1>0, <1>2, <2>0, <2>1, <3>1, TakesOneBalanced DEF get_pool, acquire
  <2>2. CASE ~(idle[db_pool] > 0)
    <3>1. Started(k, "waiting", db_pool).at = "waiting"
      BY DEF Started
    <3> QED
      BY <1>0, <1>2, <2>2, <3>1, MovesNoneBalanced DEF get_pool, acquire
  <2> QED
    BY <2>1, <2>2
<1> QED
  BY <1>1, <1>2

LEMMA CreateBalanced ==
    ASSUME IInv, Balanced, NEW t \in Task, create(t) PROVE Balanced'
<1> DEFINE q == pools + 1
           r == Started(task[t].kind, "holding", q)
<1>0. /\ q \in PoolId /\ pools \in Nat /\ Size \in Nat \ {0} /\ pools' = q
      /\ task[t].at = "creating"
  BY DbPoolAssumption DEF create, IInv, TypeOK, PoolId, DbPoolAssumption
<1>1. r.at = "holding" /\ r.pool = q
  BY DEF Started
<1>2. task'[t] = r /\ \A u \in Task \ {t} : task'[u] = task[u]
  BY DEF create, IInv, TypeOK
<1>3. \A p : Cardinality(Holders(p)') =
               Cardinality(Holders(p)) + (IF p = q THEN 1 ELSE 0)
  BY <1>0, <1>1, <1>2, OneMore
<1>4. Cardinality(Holders(q)) = 0
  <2>1. Holders(q) = {}
    BY <1>0 DEF Holders, IInv, PoolsMade
  <2> QED
    BY <2>1, FS_EmptySet
<1>5. \A p \in 1..q : p \in PoolId /\ idle'[p] = IF p = q THEN Size - 1 ELSE idle[p]
  BY <1>0, DbPoolAssumption DEF create, IInv, TypeOK, PoolId, DbPoolAssumption
<1> SUFFICES ASSUME NEW p \in 1..q
             PROVE  idle'[p] + Cardinality(Holders(p)') = Size
  BY <1>0 DEF Balanced
<1>6. CASE p = q
  <2> HIDE DEF q
  <2> QED
    BY <1>0, <1>3, <1>4, <1>5, <1>6
<1>7. CASE p # q
  <2>1. p \in 1..pools
    BY <1>0, <1>7
  <2>2. idle[p] + Cardinality(Holders(p)) = Size /\ idle[p] \in Int
    BY <1>5, <2>1 DEF Balanced, IInv, TypeOK
  <2> HIDE DEF q
  <2> QED
    BY <1>3, <1>5, <1>7, <2>2, HoldersFinite
<1> QED
  BY <1>6, <1>7

LEMMA QueryBalanced ==
    ASSUME Kind = {"statement"}, IInv, Balanced, NEW t \in Task, Query(t) PROVE Balanced'
<1> DEFINE q == task[t].pool
<1>1. task[t] \in TaskState /\ task[t].at = "holding" /\ task[t].kind = "statement"
  BY DEF Query, IInv, TypeOK, NoTask, TaskState
<1>2. PICK ok \in BOOLEAN :
        /\ task' = [task EXCEPT ![t] = Finished(task[t], ok)]
        /\ idle' = [idle EXCEPT ![q] = @ + 1]
  BY <1>1 DEF Query, Finish, releases
<1>3. task'[t].at # "holding" /\ \A u \in Task \ {t} : task'[u] = task[u]
  BY <1>2 DEF IInv, TypeOK, Finished
<1>4. \A p : Cardinality(Holders(p)') =
               Cardinality(Holders(p)) - (IF p = q THEN 1 ELSE 0)
  BY <1>1, <1>3, OneLess
<1>5. 1..pools \subseteq PoolId /\ q \in 1..pools
  BY <1>1, DbPoolAssumption DEF IInv, TypeOK, PoolsMade, PoolId, DbPoolAssumption
<1>6. \A p \in 1..pools : idle'[p] = idle[p] + (IF p = q THEN 1 ELSE 0) /\ idle[p] \in Int
  BY <1>2, <1>5 DEF IInv, TypeOK
<1> QED
  BY <1>4, <1>6, HoldersFinite DEF Query, Balanced

LEMMA LoseBalanced == ASSUME IInv, Balanced, LoseConnections PROVE Balanced'
<1>1. \A t \in Task : task'[t].at # "holding"
  <2> TAKE t \in Task
  <2>1. task'[t] = IF task[t].at = "holding" THEN [task[t] EXCEPT !.at = "broken"]
                                             ELSE task[t]
    BY DEF LoseConnections
  <2>2. task[t].at = "holding" => task[t] \in TaskState
    BY DEF IInv, TypeOK, NoTask
  <2> QED
    BY <2>1, <2>2, BrokenType
<1>2. \A p : Cardinality(Holders(p)') = 0
  <2>1. \A p : Holders(p)' = {}
    BY <1>1 DEF Holders
  <2> QED
    BY <2>1, FS_EmptySet
<1>3. pools' = pools /\ \A p \in 1..pools : idle'[p] = Size
  BY DbPoolAssumption DEF LoseConnections, IInv, TypeOK, PoolId, DbPoolAssumption
<1> QED
  BY <1>2, <1>3, DbPoolAssumption DEF Balanced, DbPoolAssumption

LEMMA NextBalanced ==
    ASSUME Kind = {"statement"}, IInv, Balanced, [Next]_vars PROVE Balanced'
<1>1. ASSUME NEW t \in Task, NEW k \in Kind, get_pool(t, k) PROVE Balanced'
  BY <1>1, BeginBalanced
<1>2. ASSUME NEW t \in Task, Step(t) PROVE Balanced'
  <2>1. CASE create(t)
    BY <2>1, CreateBalanced
  <2>2. CASE create_fails(t)
    <3>1. Finished(task[t], FALSE).at # "holding"
      BY DEF Finished
    <3> QED
      BY <2>2, <3>1, MovesNoneBalanced DEF create_fails, Finish
  <2>3. CASE Take(t)
    <3> DEFINE r == [task[t] EXCEPT !.at = "holding"]
    <3>1. task[t] \in TaskState /\ task[t].pool \in 1..pools
      BY <2>3 DEF Take, IInv, TypeOK, NoTask, PoolsMade
    <3>2. r.at = "holding" /\ r.pool = task[t].pool
      BY <3>1 DEF TaskState
    <3>3. task' = [task EXCEPT ![t] = r]
      BY <2>3 DEF Take, IInv, TypeOK
    <3> HIDE DEF r
    <3> QED
      BY <2>3, <3>1, <3>2, <3>3, TakesOneBalanced DEF Take
  <2>4. CASE Query(t)
    BY <2>4, QueryBalanced
  <2>5. CASE QueryOfLost(t)
    <3>1. Finished(task[t], FALSE).at # "holding"
      BY DEF Finished
    <3> QED
      BY <2>5, <3>1, MovesNoneBalanced DEF QueryOfLost, BrokenRelease, Finish
  <2> QED
    BY <1>2, <2>1, <2>2, <2>3, <2>4, <2>5 DEF Step
<1>3. CASE LoseConnections
  BY <1>3, LoseBalanced
<1>4. CASE UNCHANGED vars
  BY <1>4 DEF vars, Balanced, Holders
<1> QED
  BY <1>1, <1>2, <1>3, <1>4 DEF Next

\* When the pool is used through execute and fetch alone, every connection is
\* back as soon as nothing runs, whatever failed, was lost or was created twice.
THEOREM StatementsReturnAll ==
    ASSUME Kind = {"statement"} PROVE Spec => []ConnectionsReturned
<1>1. IInv /\ Balanced => ConnectionsReturned
  <2> SUFFICES ASSUME IInv, Balanced, Quiescent, NEW p \in 1..pools
               PROVE  idle[p] = Size
    BY DEF ConnectionsReturned
  <2>1. Holders(p) = {}
    BY DEF Quiescent, Running, Holders
  <2>2. Cardinality(Holders(p)) = 0
    BY <2>1, FS_EmptySet
  <2>3. idle[p] \in Int
    BY DbPoolAssumption DEF IInv, TypeOK, PoolId, DbPoolAssumption
  <2> QED
    BY <2>2, <2>3 DEF Balanced
<1>2. IInv /\ Balanced /\ [Next]_vars => (IInv /\ Balanced)'
  BY NextInv, NextBalanced
<1> QED
  BY InitInv, InitBalanced, <1>1, <1>2, PTL DEF Spec

\* A statement waits only while a connection is free or somebody holds one, who
\* gives it back at the end of its query: those that wait do not wait for each
\* other (asyncpg's acquire, which has no time limit).  With probes it is false.
WaitersHaveHolders ==
    \A t \in Task : task[t].at = "waiting" =>
        idle[task[t].pool] > 0 \/ Holders(task[t].pool) # {}

THEOREM WaitingEnds ==
    ASSUME Kind = {"statement"} PROVE Spec => []WaitersHaveHolders
<1>1. IInv /\ Balanced => WaitersHaveHolders
  <2> SUFFICES ASSUME IInv, Balanced, NEW t \in Task, task[t].at = "waiting",
                      Holders(task[t].pool) = {}
               PROVE  idle[task[t].pool] > 0
    BY DEF WaitersHaveHolders
  <2>1. task[t].pool \in 1..pools
    BY DEF IInv, PoolsMade
  <2>2. idle[task[t].pool] \in Int
    BY <2>1, DbPoolAssumption DEF IInv, TypeOK, PoolId, DbPoolAssumption
  <2>3. Cardinality(Holders(task[t].pool)) = 0
    BY FS_EmptySet
  <2> QED
    BY <2>1, <2>2, <2>3, DbPoolAssumption DEF Balanced, DbPoolAssumption
<1>2. IInv /\ Balanced /\ [Next]_vars => (IInv /\ Balanced)'
  BY NextInv, NextBalanced
<1> QED
  BY InitInv, InitBalanced, <1>1, <1>2, PTL DEF Spec

=============================================================================
