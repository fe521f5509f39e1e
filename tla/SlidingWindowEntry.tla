------------------------- MODULE SlidingWindowEntry -------------------------
(***************************************************************************)
(* The ring buffer of the sliding window (class SlidingWindowEntry of      *)
(* services/orchestrator-agent/rate_limiter.py): the times of the requests *)
(* that were admitted and are not known to have left the window, oldest    *)
(* first, in a list of fixed length that is overwritten in place.          *)
(***************************************************************************)
EXTENDS Integers

CONSTANTS
    Capacity,   \* requests a window admits (RateLimitConfig.requests)
    Window      \* its length in ticks of the clock (window_seconds)

ASSUME WindowAssumption == Capacity \in Nat \ {0} /\ Window \in Nat \ {0}

Slot == 0..(Capacity - 1)

Entry == [timestamps : [Slot -> Nat], start : Slot, count_used : 0..Capacity]

EmptyEntry == [timestamps |-> [i \in Slot |-> 0], start |-> 0, count_used |-> 0]

\* The i-th oldest time of an entry.
Oldest(e, i) == e.timestamps[(e.start + i) % Capacity]

\* prune_at drops the k oldest times: it stops at the first one that is still
\* in the window, or when none is left.
ExpiredLate(time, now) == time < now - Window
ExpiredEarly(time, now) == time <= (now + 1) - Window
Expired(time, now) == time <= now - Window

Prunes(e, now, k) ==
    /\ k \in 0..e.count_used
    /\ \A i \in 0..(k - 1) : Expired(Oldest(e, i), now)
    /\ k = e.count_used \/ ~Expired(Oldest(e, k), now)

Dropped(e, k) ==
    [timestamps |-> e.timestamps, start |-> (e.start + k) % Capacity,
     count_used |-> e.count_used - k]

\* add_at after its pruning: refused when the ring is full.
Admits(e) == e.count_used < Capacity

Added(e, now) ==
    [timestamps |-> [e.timestamps EXCEPT ![(e.start + e.count_used) % Capacity] = now],
     start |-> e.start, count_used |-> e.count_used + 1]

=============================================================================
