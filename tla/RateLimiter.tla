---------------------------- MODULE RateLimiter ----------------------------
(***************************************************************************)
(* One rule of the orchestrator's rate limiter (rate_limiter.py): a table  *)
(* of sliding windows by client, of bounded size, from which the client    *)
(* that was not checked for the longest time is evicted.  The middleware   *)
(* of webhook_server.py asks it once per request, without an await.        *)
(*                                                                         *)
(* The clock is time.time(), which moves on between requests and may be    *)
(* set back.  setBack, log, promised and since are history: the requests   *)
(* admitted since the client's window was made, the time its latest        *)
(* refusal named, and the other clients checked after it.                  *)
(***************************************************************************)
EXTENDS SlidingWindowEntry, Sequences, FiniteSets

CONSTANTS
    Key,            \* clients
    Client,         \* the one KeepsPromise is about
    MaxKeys,        \* RateLimitConfig.max_keys
    MaxTime,        \* bound: the clock
    MaxAdmissions   \* bound: requests admitted to a window

ASSUME RateLimiterAssumption ==
    Client \in Key /\ MaxKeys \in Nat \ {0} /\ MaxTime \in Nat /\ MaxAdmissions \in Nat

VARIABLES
    now,        \* time.time()
    windows,    \* _sliding_windows: client -> SlidingWindowEntry
    order,      \* its keys, the least recently checked first
    allowed,    \* the answer to each client's latest request
    setBack,    \* was the clock ever set back?
    log,        \* the times of each client's admissions
    promised,   \* the reset time of the latest answer if it was a refusal, or 0
    since       \* the other clients checked since the client's latest check

history == <<setBack, log, promised, since>>
vars == <<now, windows, order, allowed, history>>

Tick ==
    /\ now' \in 0..MaxTime
    /\ setBack' = (setBack \/ now' < now)
    /\ UNCHANGED <<windows, order, allowed, log, promised, since>>

\* _ensure_capacity: a key that is there becomes the most recent one; for a
\* new one the oldest is evicted from a full table.
EvictedLate(k) ==
    IF k \notin DOMAIN windows /\ Cardinality(DOMAIN windows) > MaxKeys
    THEN {Head(order)} ELSE {}
Evicted(k) ==
    IF k \notin DOMAIN windows /\ Cardinality(DOMAIN windows) >= MaxKeys
    THEN {Head(order)} ELSE {}

\* move_to_end, or popitem and the insertion of the new key.
Place(k) == CHOOSE i \in DOMAIN order : order[i] = k
MovedToEnd(k) ==
    [i \in DOMAIN order |-> IF i < Place(k) THEN order[i]
                            ELSE IF i < Len(order) THEN order[i + 1] ELSE k]

Inserted(k) == IF Evicted(k) = {} THEN Append(order, k) ELSE Append(Tail(order), k)

TouchedFirst(k) == IF k \in DOMAIN windows THEN order ELSE Inserted(k)
Touched(k) == IF k \in DOMAIN windows THEN MovedToEnd(k) ELSE Inserted(k)

get_sliding_entry(k) ==
    IF k \in DOMAIN windows THEN windows[k] ELSE EmptyEntry

\* oldest() + window_seconds: the ring is never empty after a check.
get_reset_time(e) == Oldest(e, 0) + Window

\* RateLimitRule.check: the client's entry is found or made, pruned, and the
\* request added to it or refused.
Answer(k, e, admitted) ==
    /\ windows' = [j \in (DOMAIN windows \ Evicted(k)) \cup {k} |->
                     IF j = k THEN e ELSE windows[j]]
    /\ order' = Touched(k)
    /\ allowed' = [allowed EXCEPT ![k] = admitted]
    /\ log' = [j \in Key |-> IF j \in Evicted(k) THEN <<>>
                             ELSE IF j = k /\ admitted THEN Append(log[k], now)
                             ELSE log[j]]
    /\ promised' = [j \in Key |-> IF j \in Evicted(k) \/ (j = k /\ admitted) THEN 0
                                  ELSE IF j = k THEN get_reset_time(e)
                                  ELSE promised[j]]
    /\ since' = [j \in Key |-> IF j = k THEN {} ELSE since[j] \cup {k}]
    /\ UNCHANGED <<now, setBack>>

check(k) ==
    /\ Len(log[k]) < MaxAdmissions
    /\ \E n \in 0..Capacity :
         LET pruned == Dropped(get_sliding_entry(k), n) IN
         /\ Prunes(get_sliding_entry(k), now, n)
         /\ IF Admits(pruned) THEN Answer(k, Added(pruned, now), TRUE)
                              ELSE Answer(k, pruned, FALSE)

Init ==
    /\ now = 0 /\ setBack = FALSE
    /\ windows = [k \in {} |-> EmptyEntry] /\ order = <<>>
    /\ allowed = [k \in Key |-> TRUE]
    /\ log = [k \in Key |-> <<>>]
    /\ promised = [k \in Key |-> 0]
    /\ since = [k \in Key |-> {}]

Next == Tick \/ \E k \in Key : check(k)

Spec == Init /\ [][Next]_vars

-----------------------------------------------------------------------------
\* The table never exceeds its size, its order lists each of its keys once,
\* and every entry is a ring of the rule's capacity.
TypeOK ==
    /\ now \in Nat /\ setBack \in BOOLEAN
    /\ DOMAIN windows \subseteq Key /\ Cardinality(DOMAIN windows) <= MaxKeys
    /\ \A k \in DOMAIN windows : windows[k] \in Entry
    /\ order \in Seq(DOMAIN windows) /\ Len(order) = Cardinality(DOMAIN windows)
    /\ \A i, j \in DOMAIN order : order[i] = order[j] => i = j
    /\ allowed \in [Key -> BOOLEAN]
    /\ log \in [Key -> Seq(Nat)]
    /\ promised \in [Key -> Nat]
    /\ since \in [Key -> SUBSET Key]

\* "Reject over-limit clients": any Capacity + 1 requests admitted in a row to
\* one window span Window ticks, unless the clock was set back.
WindowBound ==
    ~setBack => \A k \in Key : \A i \in DOMAIN log[k] :
        i + Capacity \in DOMAIN log[k] => log[k][i + Capacity] - log[k][i] >= Window

\* The reset time of a refusal (Retry-After) is exact, whatever the clock did
\* in between: a client is admitted if it comes back then, and not before.
ResetTimeHonoured ==
    [][\A k \in Key : check(k) /\ promised[k] > 0 =>
        (allowed'[k] <=> now >= promised[k])]_vars

\* A client's window is given up only after MaxKeys other clients were checked
\* since its own latest check.
EvictsLeastRecent ==
    [][\A k \in DOMAIN windows \ DOMAIN windows' : Cardinality(since'[k]) >= MaxKeys]_vars

\* To a client the table of rings looks like a complete log of its admissions,
\* forgotten at most by eviction.
Promise == INSTANCE AdmissionLog
           WITH log <- log[Client], allowed <- allowed[Client]
KeepsPromise == Promise!Spec

=============================================================================
