----------------------------- MODULE FreezeWeek -----------------------------
(***************************************************************************)
(* The deployment freeze of the orchestrator (deploy_freeze.py): windows   *)
(* that come back every week, given by the environment, a manual freeze    *)
(* and an override with a reason.  Minutes are counted from Monday 0:00,   *)
(* so that a week is 0..Week-1; a window that ends before it starts goes   *)
(* over the end of the week.                                               *)
(***************************************************************************)
EXTENDS Integers

CONSTANTS
    None,           \* no answer yet
    Days, Day       \* the days of a week, the minutes of a day

VARIABLES
    manual, windows,    \* DEPLOY_FREEZE, DEPLOY_FREEZE_WINDOWS
    now,                \* the minute of the week
    answer              \* the last deployment and what was answered

vars == <<manual, windows, now, answer>>

Week == Days * Day

\* An entry as the operator writes it: a day and a minute of it, twice.  The
\* minute Day (24:00) can be written and is no time of a day.
Entry == [day : 0..(Days - 1), from : 0..Day, last : 0..(Days - 1), until : 0..Day]

\* may: it is well-formed and its sender may deploy; freeze_override and
\* freeze_reason as in the body.
Request == [may : BOOLEAN, dry : BOOLEAN, override : BOOLEAN, reason : BOOLEAN]
Answer == {"refused", "frozen", "reconciled"}

-----------------------------------------------------------------------------
\* An entry that cannot be parsed is logged and ignored.
Valid(e) == e.from < Day /\ e.until < Day

Start(e) == e.day * Day + e.from
Ending(e) == e.last * Day + e.until

\* The range of a window: its end is pushed into the next week.
End(e) == IF Ending(e) <= Start(e) THEN Ending(e) + Week ELSE Ending(e)

\* InRange without the next week: a window over its end is cut off.
InRangeThisWeek(e, minute) == Start(e) <= minute /\ minute < End(e)

\* The minute is looked for in this week and in the next.
InRange(e, minute) ==
    \E p \in {minute, minute + Week} : Start(e) <= p /\ p < End(e)

freeze_active ==
    manual \/ \E e \in windows : Valid(e) /\ InRange(e, now)

check_deploy_allowed(body) ==
    ~freeze_active \/ body.dry \/ (body.override /\ body.reason)

\* POST /api/v1/deployments and /webhook/gitops, up to the reconciliation.
deployment_apply(body) ==
    /\ answer' = [body |-> body,
                   said |-> IF ~body.may THEN "refused"
                            ELSE IF check_deploy_allowed(body) THEN "reconciled"
                            ELSE "frozen"]
    /\ UNCHANGED <<manual, windows, now>>

Tick ==
    /\ now' = IF now = Week - 1 THEN 0 ELSE now + 1
    /\ answer' = None
    /\ UNCHANGED <<manual, windows>>

\* The environment is fixed while the process runs; here a start changes only
\* the manual freeze, as every set of windows is one of Init.
Restart ==
    /\ manual' = ~manual
    /\ answer' = None
    /\ UNCHANGED <<windows, now>>

-----------------------------------------------------------------------------
Init ==
    /\ manual = FALSE
    /\ windows \in {{e, f} : e, f \in Entry}
    /\ now = 0
    /\ answer = None

Next == Tick \/ Restart \/ \E body \in Request : deployment_apply(body)

Spec == Init /\ [][Next]_vars

-----------------------------------------------------------------------------
\* The environment, the clock and the answer have their types.
TypeOK ==
    /\ manual \in BOOLEAN
    /\ windows \subseteq Entry
    /\ now \in 0..(Week - 1)
    /\ answer \in {None} \cup [body : Request, said : Answer]

\* The minutes since the clock last stood at m.
Since(m, minute) == IF m <= minute THEN minute - m ELSE minute + Week - m

\* What the operator means by a window: it opens when the clock reaches its
\* start and closes when it reaches its end; without an end of its own it never
\* closes.
Open(e, minute) ==
    \/ Start(e) = Ending(e)
    \/ Since(Start(e), minute) < Since(Ending(e), minute)

\* The arithmetic over the end of the week is exact: a deployment that changes
\* something goes ahead without override and reason only when there is neither
\* a manual freeze nor an open window, and is held up only when there is.
FreezeExact ==
    answer # None =>
        LET due == manual \/ \E e \in windows : Valid(e) /\ Open(e, now)
            excused == answer.body.dry \/ (answer.body.override /\ answer.body.reason)
        IN /\ answer.said = "reconciled" => ~due \/ excused
           /\ answer.said = "frozen" => due

=============================================================================
