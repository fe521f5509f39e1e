----------------------------- MODULE LivingFleet -----------------------------
(***************************************************************************)
(* The living fleet of the orchestrator (living_fleet.py): one JSON file   *)
(* with a creature per workload, whose mood the collector's loop           *)
(* (fleet_collect.py) derives from what it reads of the container, and     *)
(* which a request may rename.  The loop awaits the readings; refresh and  *)
(* rename await nothing and are one step each.                             *)
(***************************************************************************)
EXTENDS Naturals

CONSTANTS
    None,
    Workload,       \* the containers of the inventory
    GHOST_MINUTES,  \* how long a workload is down until it is a ghost
    MaxTime,        \* bound: the clock
    MaxFailures     \* bound: reads and writes of the file that fail

VARIABLES
    store,          \* the file: creatures by workload
    reading,        \* the workload the loop reads, and what it has read of it
    now,
    seenUp,         \* history: when a reading last said that it runs
    named,          \* history: those that were renamed
    unread,         \* history: those in the file when it was read in vain
    failures

vars == <<store, reading, now, seenUp, named, unread, failures>>

\* What a container may say: whether it runs and whether its check succeeds;
\* a container without a check, or one that cannot be asked, does not say.
Signals == [running : BOOLEAN \cup {None}, healthcheck_ok : BOOLEAN \cup {None}]

\* "well" is any of the six moods that depend on vitals alone.
Mood == {"ghost", "sick", "well"}
Creature == [display_name : {"own", "given"}, down_since : Nat \cup {None}, mood : Mood]

-----------------------------------------------------------------------------
\* _load_all: a file that cannot be read is empty.
Ok == UNCHANGED failures
Fails == failures < MaxFailures /\ failures' = failures + 1

Put(data, w, creature) ==
    [v \in DOMAIN data \cup {w} |-> IF v = w THEN creature ELSE data[v]]

\* compute_mood.  Without restarts in the signals, which the collector does
\* not give, health is bad exactly when the check fails.
compute_mood(signals, down) ==
    IF down # None /\ now - down >= GHOST_MINUTES THEN "ghost"
    ELSE IF signals.running = FALSE \/ signals.healthcheck_ok = FALSE THEN "sick"
    ELSE "well"

\* As DownSince, only forgotten when the check succeeds as well.
DownSinceUnhealthy(creature, signals) ==
    IF signals.running = TRUE /\ signals.healthcheck_ok # FALSE THEN None
    ELSE IF signals.running = FALSE /\ creature.down_since = None THEN now
    ELSE creature.down_since

\* As it was noted, or since now; forgotten as soon as the container runs.
DownSince(creature, signals) ==
    IF signals.running = TRUE THEN None
    ELSE IF signals.running = FALSE /\ creature.down_since = None THEN now
    ELSE creature.down_since

Newborn == [display_name |-> "own", down_since |-> None, mood |-> "well"]

\* Born when it is first seen, if that is in health.
MayBeBorn(signals) == signals.running = TRUE /\ signals.healthcheck_ok # FALSE

Felt(creature, signals) ==
    [creature EXCEPT !.down_since = DownSince(creature, signals),
                     !.mood = compute_mood(signals, DownSince(creature, signals))]

-----------------------------------------------------------------------------
\* collect_once, up to the await of the snapshots.
_docker_signals(w) ==
    /\ reading = None
    /\ \E signals \in Signals : reading' = [workload |-> w, signals |-> signals]
    /\ UNCHANGED <<store, now, seenUp, named, unread, failures>>

\* What a refresh notes when its file is written.
Seen(w) ==
    seenUp' = IF reading.signals.running = TRUE THEN [seenUp EXCEPT ![w] = now]
              ELSE seenUp

\* refresh: of a creature in the file; of one that is born, which is written as
\* a newborn first; and of one that looks unborn because the file is read in
\* vain: get_or_birth finds it when it reads again, or makes it anew, and it is
\* written alone.  When a write fails the reading is lost.
refresh ==
    /\ reading # None
    /\ LET w == reading.workload
           signals == reading.signals
           born == MayBeBorn(signals)
       IN \/ /\ w \in DOMAIN store
             /\ \/ store' = Put(store, w, Felt(store[w], signals)) /\ Seen(w) /\ Ok
                \/ UNCHANGED <<store, seenUp>> /\ Fails
             /\ UNCHANGED unread
          \/ /\ w \notin DOMAIN store /\ born
             /\ \/ store' = Put(store, w, Felt(Newborn, signals)) /\ Seen(w) /\ Ok
                \/ store' \in {store, Put(store, w, Newborn)} /\ Fails /\ UNCHANGED seenUp
             /\ UNCHANGED unread
          \/ /\ born /\ store # <<>> /\ Fails /\ Seen(w)
             /\ \E again \in BOOLEAN :
                 LET found == IF again THEN DOMAIN store \cap {w} ELSE {}
                     creature == IF w \in found THEN store[w] ELSE Newborn
                 IN /\ store' = Put(<<>>, w, Felt(creature, signals))
                    /\ unread' = unread \cup (DOMAIN store \ found)
          \/ /\ w \notin DOMAIN store /\ ~born
             /\ UNCHANGED <<store, seenUp, unread, failures>>
    /\ reading' = None
    /\ UNCHANGED <<now, named>>

\* POST /api/v1/fleet/creatures/{workload_id}/rename.
rename(w) ==
    /\ w \in DOMAIN store
    /\ \/ /\ store' = Put(store, w, [store[w] EXCEPT !.display_name = "given"])
          /\ named' = named \cup {w} /\ UNCHANGED failures
       \/ UNCHANGED <<store, named>> /\ Fails
    /\ UNCHANGED <<reading, now, seenUp, unread>>

\* The loop gives a container up, or the process starts again.
Abandon ==
    /\ reading # None /\ reading' = None
    /\ UNCHANGED <<store, now, seenUp, named, unread, failures>>

Tick ==
    /\ now < MaxTime /\ now' = now + 1
    /\ UNCHANGED <<store, reading, seenUp, named, unread, failures>>

-----------------------------------------------------------------------------
Init ==
    /\ store = <<>>
    /\ reading = None
    /\ now = 0
    /\ seenUp = [w \in Workload |-> None]
    /\ named = {} /\ unread = {}
    /\ failures = 0

Next ==
    \/ \E w \in Workload : _docker_signals(w) \/ rename(w)
    \/ refresh
    \/ Abandon
    \/ Tick

Spec == Init /\ [][Next]_vars

-----------------------------------------------------------------------------
\* The file holds creatures, and the loop one reading at most.
TypeOK ==
    /\ DOMAIN store \subseteq Workload
    /\ \A w \in DOMAIN store : store[w] \in Creature
    /\ reading \in {None} \cup [workload : Workload, signals : Signals]
    /\ now \in Nat /\ seenUp \in [Workload -> Nat \cup {None}]

\* Creatures are what was read and said of their workloads, across the restarts
\* of the loop and a rename between a reading and its refresh: a ghost was not
\* seen running for the time it takes, and one that is down since then not
\* since then; a name that was given stays, and so does a creature, unless a
\* refresh could not read the file.
CreaturesTrue ==
    /\ \A w \in DOMAIN store :
        /\ store[w].mood = "ghost" =>
             seenUp[w] = None \/ now - seenUp[w] >= GHOST_MINUTES
        /\ store[w].down_since # None /\ seenUp[w] # None =>
             seenUp[w] <= store[w].down_since
        /\ w \in named => store[w].display_name = "given" \/ w \in unread
    /\ \A w \in Workload : seenUp[w] # None => w \in DOMAIN store \cup unread

=============================================================================
