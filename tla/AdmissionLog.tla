---------------------------- MODULE AdmissionLog ----------------------------
(***************************************************************************)
(* What the rate limiter promises one client, without rings and tables: it *)
(* remembers every admission, and admits a request exactly when fewer than *)
(* Capacity requests were admitted in the last Window ticks.  It may       *)
(* forget the client, and promises nothing once the clock was set back.    *)
(***************************************************************************)
EXTENDS Integers, Sequences, FiniteSets

CONSTANTS Capacity, Window

VARIABLES
    now,        \* the clock
    setBack,    \* was it ever set back?
    log,        \* the times of the admissions, oldest first
    allowed     \* the answer to the latest request

vars == <<now, setBack, log, allowed>>

InWindow == {i \in DOMAIN log : log[i] > now - Window}

Tick ==
    /\ now' \in Nat
    /\ setBack' = (setBack \/ now' < now)
    /\ UNCHANGED <<log, allowed>>

Request ==
    /\ allowed' \in BOOLEAN
    /\ ~setBack => (allowed' <=> Cardinality(InWindow) < Capacity)
    /\ log' = IF allowed' THEN Append(log, now) ELSE log
    /\ UNCHANGED <<now, setBack>>

Forget ==
    /\ log' = <<>>
    /\ UNCHANGED <<now, setBack, allowed>>

Init == now = 0 /\ setBack = FALSE /\ log = <<>> /\ allowed = TRUE

Next == Tick \/ Request \/ Forget

Spec == Init /\ [][Next]_vars

=============================================================================
