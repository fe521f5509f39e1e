--------------------------- MODULE ResourcePools ---------------------------
(***************************************************************************)
(* The resource pools of the Discord service (modules/resourcePools.js): a *)
(* pool is a row of resource_pools with a list of VPSs.  A change reads    *)
(* the list, and writes it on condition that the row still has the list    *)
(* that was read, three times at most; other commands run between the two  *)
(* queries.                                                                *)
(***************************************************************************)
EXTENDS Naturals, Sequences, SequencesExt

CONSTANTS
    User, Container, PoolName,
    owner,          \* the user of each VPS
    Slot,           \* commands that may be in flight together
    Attempts,       \* how often a change is tried
    MaxCommands, MaxFailures    \* bounds: commands begun, queries that fail

VARIABLES
    pools,      \* resource_pools: pool -> created_by, members
    call,       \* the commands in flight
    answer,     \* what the latest command of each slot was told
    overtaken,  \* slots whose pool another command changed meanwhile
    commands, failures

vars == <<pools, call, answer, overtaken, commands, failures>>

Idle == [at |-> "idle"]
Call == [at : {"read"}, op : {"add", "remove"}, user : User, p : PoolName,
         c : Container, attempt : 1..Attempts]
        \cup [at : {"write"}, op : {"add", "remove"}, user : User, p : PoolName,
              c : Container, attempt : 1..Attempts, current : Seq(Container), next : Seq(Container)]
Answer == {"none", "ok", "duplicate", "missing", "not_found", "conflict"}

Has(u, p) == p \in DOMAIN pools /\ pools[p].by = u
Ends(s, a) == call' = [call EXCEPT ![s] = Idle] /\ answer' = [answer EXCEPT ![s] = a]
Begin(s) == call[s] = Idle /\ commands < MaxCommands /\ commands' = commands + 1
Fails == failures < MaxFailures /\ failures' = failures + 1
Changes(s, p) == overtaken' = overtaken \cup {t \in Slot \ {s} : call[t] # Idle /\ call[t].p = p}

-----------------------------------------------------------------------------
\* resourcepoolcreate: the name is the key of the table.
resourcepoolcreate(s, u, p) ==
    /\ Begin(s)
    /\ p \notin DOMAIN pools
    /\ pools' = [q \in DOMAIN pools \cup {p} |->
                   IF q = p THEN [by |-> u, members |-> <<>>] ELSE pools[q]]
    /\ Changes(s, p)
    /\ UNCHANGED <<call, answer, failures>>

resourcepooldelete(s, u, p) ==
    /\ Begin(s)
    /\ Has(u, p)
    /\ pools' = [q \in DOMAIN pools \ {p} |-> pools[q]]
    /\ Changes(s, p)
    /\ UNCHANGED <<call, answer, failures>>

\* resourcepooladd, resourcepoolremove: the VPS is one of the user's.
Resolve(s, op, u, p, c) ==
    /\ Begin(s)
    /\ owner[c] = u
    /\ call' = [call EXCEPT ![s] = [at |-> "read", op |-> op, user |-> u, p |-> p,
                                    c |-> c, attempt |-> 1]]
    /\ overtaken' = overtaken \ {s}
    /\ UNCHANGED <<pools, answer, failures>>

-----------------------------------------------------------------------------
\* Adding what is there and removing what is not is refused.
Refuses(op, list, c) == op = "add" <=> Contains(list, c)
Refusal(op) == IF op = "add" THEN "duplicate" ELSE "missing"
Mutated(op, list, c) ==
    IF op = "add" THEN Append(list, c) ELSE RemoveFirst(list, c)

\* push and splice change the list that was read, in place, so that both the
\* new list and the one of the condition are the changed one.
Read(s) ==
    /\ call[s].at = "read"
    /\ LET k == call[s]
           list == pools[k.p].members
           changed == Mutated(k.op, list, k.c)
       IN \/ Has(k.user, k.p) /\ Refuses(k.op, list, k.c)
             /\ Ends(s, Refusal(k.op)) /\ UNCHANGED failures
          \/ /\ Has(k.user, k.p) /\ ~Refuses(k.op, list, k.c)
             /\ call' = [call EXCEPT ![s] =
                   [at |-> "write", op |-> k.op, user |-> k.user, p |-> k.p, c |-> k.c,
                    attempt |-> k.attempt, current |-> changed, next |-> changed]]
             /\ UNCHANGED <<answer, failures>>
          \/ ~Has(k.user, k.p) /\ Ends(s, "not_found") /\ UNCHANGED failures
          \/ Fails /\ Ends(s, "not_found")
    /\ UNCHANGED <<pools, overtaken, commands>>

TryAgain(s) ==
    LET k == call[s] IN
    \/ /\ k.attempt < Attempts
       /\ call' = [call EXCEPT ![s] = [at |-> "read", op |-> k.op, user |-> k.user, p |-> k.p,
                                       c |-> k.c, attempt |-> k.attempt + 1]]
       /\ UNCHANGED answer
    \/ k.attempt = Attempts /\ Ends(s, "conflict")

\* An UPDATE that changed no row, and one that failed (with or without having
\* taken effect), is tried again.
Write(s) ==
    /\ call[s].at = "write"
    /\ LET k == call[s]
           matches == Has(k.user, k.p) /\ pools[k.p].members = k.current
           update == pools' = [pools EXCEPT ![k.p].members = k.next] /\ Changes(s, k.p)
       IN \/ matches /\ update /\ Ends(s, "ok") /\ UNCHANGED failures
          \/ matches /\ update /\ Fails /\ TryAgain(s)
          \/ Fails /\ TryAgain(s) /\ UNCHANGED <<pools, overtaken>>
          \/ ~matches /\ TryAgain(s) /\ UNCHANGED <<pools, overtaken, failures>>
    /\ UNCHANGED commands

Init ==
    /\ pools = [p \in {} |-> p]
    /\ call = [s \in Slot |-> Idle]
    /\ answer = [s \in Slot |-> "none"]
    /\ overtaken = {} /\ commands = 0 /\ failures = 0

Begins(s) ==
    \E u \in User, p \in PoolName :
        \/ resourcepoolcreate(s, u, p) \/ resourcepooldelete(s, u, p)
        \/ \E c \in Container, op \in {"add", "remove"} : Resolve(s, op, u, p, c)

Next == \E s \in Slot : Begins(s) \/ Read(s) \/ Write(s)

Spec == Init /\ [][Next]_vars

-----------------------------------------------------------------------------
\* "Pool changed concurrently, try again.": a command that is told so was
\* overtaken by another one on its pool, or a query failed.
ConflictMeansChange ==
    \A s \in Slot : answer[s] = "conflict" /\ call[s] = Idle /\ failures = 0 => s \in overtaken

=============================================================================
