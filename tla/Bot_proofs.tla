------------------------------ MODULE Bot_proofs ------------------------------
(***************************************************************************)
(* The bookkeeping of the Discord bot: the jobs of its scheduled tasks,    *)
(* its health checks and alerts, its support tickets, the answers of its   *)
(* slash commands.  The last theorem, about the types of all services,     *)
(* takes its parts from all the proofs about them.                         *)
(***************************************************************************)
EXTENDS Panel_proofs, Records_proofs, Sequences, FiniteSets, FiniteSetsExt, FiniteSetTheorems,
        TLAPS

LEMMA WatchStarts == ServicesInit /\ focus = "watch" => Watch!Init
  BY DEF ServicesInit, SettingsInit, ListsInit, DeploysInit, SetupInit,
         AppsInit, SecretsInit, AuditInit, FlagsInit, SharedInit, TasksInit,
         WatchInit, TicketsInit, CommandsInit, AdviceInit, ViewsInit, DutyInit,
         FleetInit, GateInit

LEMMA WatchGoes ==
    [ServicesNext]_<<focus, places>> =>
        UNCHANGED focus /\ (focus = "watch" => [Watch!Next]_Watch!vars)
  BY DEF ServicesNext, SettingsStep, ListsStep, DeploysStep, SetupStep,
         AppsStep, SecretsStep, AuditStep, FlagsStep, SharedStep, TasksStep,
         WatchStep, TicketsStep, CommandsStep, AdviceStep, ViewsStep, DutyStep,
         FleetStep, GateStep, places, rest5, rest6, rest7, rest8, rest9,
         rest10, rest11, rest12, Watch!vars, Watch!clock, Watch!widgets, loop,
         now, laps, loopRunning, alertState, notified, widget, messages,
         posting, updating, timers, tracked

LEMMA TasksStarts == ServicesInit /\ focus = "tasks" => Tasks!Init
  BY DEF ServicesInit, SettingsInit, ListsInit, DeploysInit, SetupInit,
         AppsInit, SecretsInit, AuditInit, FlagsInit, SharedInit, TasksInit,
         WatchInit, TicketsInit, CommandsInit, AdviceInit, ViewsInit, DutyInit,
         FleetInit, GateInit

LEMMA TasksGoes ==
    [ServicesNext]_<<focus, places>> =>
        UNCHANGED focus /\ (focus = "tasks" => [Tasks!Next]_Tasks!vars)
  BY DEF ServicesNext, SettingsStep, ListsStep, DeploysStep, SetupStep,
         AppsStep, SecretsStep, AuditStep, FlagsStep, SharedStep, TasksStep,
         WatchStep, TicketsStep, CommandsStep, AdviceStep, ViewsStep, DutyStep,
         FleetStep, GateStep, places, rest5, rest6, rest7, rest8, rest9,
         rest10, rest11, Tasks!vars, rows, lastRunStatus, live, taskOf, jobs,
         registeredTasks, reloads, cmd, runs, missed, failures

LEMMA TicketsStarts == ServicesInit /\ focus = "tickets" => Tickets!Init
  BY DEF ServicesInit, SettingsInit, ListsInit, DeploysInit, SetupInit,
         AppsInit, SecretsInit, AuditInit, FlagsInit, SharedInit, TasksInit,
         WatchInit, TicketsInit, CommandsInit, AdviceInit, ViewsInit, DutyInit,
         FleetInit, GateInit

LEMMA TicketsGoes ==
    [ServicesNext]_<<focus, places>> =>
        UNCHANGED focus /\ (focus = "tickets" => [Tickets!Next]_Tickets!vars)
  BY DEF ServicesNext, SettingsStep, ListsStep, DeploysStep, SetupStep,
         AppsStep, SecretsStep, AuditStep, FlagsStep, SharedStep, TasksStep,
         WatchStep, TicketsStep, CommandsStep, AdviceStep, ViewsStep, DutyStep,
         FleetStep, GateStep, places, rest5, rest6, rest7, rest8, rest9,
         rest10, Tickets!vars, counter, tickets, channels, made, category,
         posts, handler, presses, failures, restarts

-----------------------------------------------------------------------------
(***************************************************************************)
(* What the bot does by the clock.  The guard of the health checks is up   *)
(* while there is a lap; a container was last alerted about when the last  *)
(* of its alerts was sent.                                                 *)
(***************************************************************************)
\* The times at which alerts of a container were sent, and the last of them.
Alerted(last, times) ==
    /\ times \in Seq(0..now)
    /\ IF last = None THEN times = <<>>
       ELSE times # <<>> /\ last = times[Len(times)]
    /\ \A i \in 1..Len(times) - 1 : times[i + 1] - times[i] >= Cooldown

WatchInv ==
    /\ Watch!TypeOK
    /\ loop = "health" => IF loopRunning THEN \E lap : laps = {lap} ELSE laps = {}
    /\ notified \in [Container -> Seq(0..now)]
    /\ \A c \in Container : Alerted(alertState[c], notified[c])
    /\ messages \in [last : 0..MaxMessages, there : SUBSET (1..MaxMessages)]
    /\ updating \subseteq 1..MaxMessages
    /\ Watch!OneTimer

LEMMA WatchCounts == \A S : Watch!Cardinality(S) = Cardinality(S)
  BY DEF Watch!Cardinality, Cardinality

LEMMA AllContainers == Watch!All \in Seq(Container)
<1> DEFINE n == Cardinality(Container)
<1>1. n \in Nat /\ 1..n \subseteq Container /\ Watch!All = [i \in 1..n |-> i]
  BY WatchCounts, FS_CardinalityType, ServicesAssumption DEF Watch!All
<1> HIDE DEF n
<1> QED
  BY <1>1

\* What the bounds of the watch are.
LEMMA WatchBounds ==
    Time.watch \in Nat /\ MaxMessages \in Nat /\ Cooldown \in Nat /\ None \notin Nat
  BY ServicesAssumption

LEMMA WatchInitInv == Watch!Init => WatchInv
<1> SUFFICES ASSUME Watch!Init PROVE WatchInv
  OBVIOUS
<1>0. Time.watch \in Nat /\ MaxMessages \in Nat
  BY WatchBounds
<1>1. Watch!TypeOK
  <2>1. now \in 0..Time.watch
    BY <1>0 DEF Watch!Init
  <2>2. alertState \in [Container -> (0..now) \cup {None}]
    BY DEF Watch!Init
  <2>3. posting \cup updating \cup timers = {} /\ widget = None /\ laps = {}
    BY DEF Watch!Init
  <2> QED
    BY <2>1, <2>2, <2>3 DEF Watch!Init, Watch!TypeOK
<1>2. \A c \in Container : Alerted(alertState[c], notified[c])
  BY DEF Watch!Init, Alerted
<1> QED
  BY <1>0, <1>1, <1>2 DEF WatchInv, Watch!Init, Watch!OneTimer

LEMMA LapsTyped ==
    ASSUME laps \subseteq Watch!Lap
    PROVE  /\ Watch!BeginLap => laps' \subseteq Watch!Lap
           /\ \A lap \in laps : Watch!EndLap(lap) => laps' \subseteq Watch!Lap
           /\ \A lap \in laps : lap.todo # <<>> /\ Watch!Proceed(lap)
                => laps' \subseteq Watch!Lap
<1>1. ASSUME NEW lap \in laps, lap.todo # <<>>
      PROVE  [lap EXCEPT !.todo = Tail(@)] \in Watch!Lap
  <2>1. lap \in [n : 1..MaxLaps, todo : Seq(Container)]
    BY DEF Watch!Lap
  <2>2. Tail(lap.todo) \in Seq(Container)
    BY <1>1, <2>1
  <2> QED
    BY <2>1, <2>2 DEF Watch!Lap
<1>2. \A n \in 1..MaxLaps : [n |-> n, todo |-> Watch!All] \in Watch!Lap
  BY AllContainers DEF Watch!Lap
<1> QED
  BY <1>1, <1>2 DEF Watch!BeginLap, Watch!EndLap, Watch!Proceed

LEMMA HeadOf ==
    ASSUME NEW S, NEW s \in Seq(S), s # <<>> PROVE Head(s) \in S
  OBVIOUS

LEMMA SeqWiden ==
    ASSUME NEW S, NEW T, S \subseteq T, NEW s \in Seq(S) PROVE s \in Seq(T)
  OBVIOUS

\* What is said of the laps.
LapsOk ==
    /\ laps \subseteq Watch!Lap /\ loopRunning \in BOOLEAN
    /\ loop = "health" => IF loopRunning THEN \E lap : laps = {lap} ELSE laps = {}

LEMMA LapsMoved ==
    ASSUME WatchInv, UNCHANGED <<Watch!clock, Watch!widgets>>, LapsOk'
    PROVE  WatchInv'
<1>1. UNCHANGED <<loop, now, alertState, notified, widget, messages, posting, updating,
                  timers, tracked>>
  BY DEF Watch!clock, Watch!widgets
<1>2. \A c \in Container : Alerted(alertState[c], notified[c])'
  BY <1>1 DEF WatchInv, Alerted
<1> QED
  BY <1>1, <1>2 DEF WatchInv, LapsOk, Watch!TypeOK, Watch!OneTimer

LEMMA WidgetsMoved ==
    ASSUME WatchInv, UNCHANGED <<Watch!clock, laps, loopRunning>>,
           widget' \in (1..MaxMessages) \cup {None},
           posting' \cup updating' \cup timers' \subseteq 1..MaxMessages,
           messages' \in [last : 0..MaxMessages, there : SUBSET (1..MaxMessages)],
           timers' \subseteq {tracked'}
    PROVE  WatchInv'
<1>1. UNCHANGED <<loop, now, alertState, notified>>
  BY DEF Watch!clock
<1>2. \A c \in Container : Alerted(alertState[c], notified[c])'
  BY <1>1 DEF WatchInv, Alerted
<1> QED
  BY <1>1, <1>2 DEF WatchInv, Watch!TypeOK, Watch!OneTimer

LEMMA TickInv == ASSUME WatchInv, Watch!Tick PROVE WatchInv'
<1>1. now' \in 0..Time.watch /\ now \in 0..now' /\ 0..now \subseteq 0..now'
  <2> DEFINE end == Time.watch
  <2>1. now \in 0..end /\ end \in Nat
    BY WatchBounds DEF WatchInv, Watch!TypeOK
  <2>2. now < end /\ now' = now + 1
    BY DEF Watch!Tick
  <2> HIDE DEF end
  <2>3. now \in Nat /\ now' \in 0..end /\ now \in 0..now'
    BY <2>1, <2>2
  <2>4. \A x \in 0..now : x \in 0..now'
    BY <2>2, <2>3
  <2>5. now' \in 0..Time.watch
    BY <2>3 DEF end
  <2> QED
    BY <2>3, <2>4, <2>5
<1>2. UNCHANGED <<loop, alertState, notified, laps, loopRunning, widget, messages, posting,
                  updating, timers, tracked>>
  BY DEF Watch!Tick, Watch!widgets
<1>3. ASSUME NEW c \in Container
      PROVE  /\ Alerted(alertState[c], notified[c])' /\ notified'[c] \in Seq(0..now')
             /\ alertState'[c] \in (0..now') \cup {None}
  <2>1. Alerted(alertState[c], notified[c]) /\ alertState[c] \in (0..now) \cup {None}
    BY DEF WatchInv, Watch!TypeOK
  <2>2. notified[c] \in Seq(0..now')
    <3>1. notified[c] \in Seq(0..now)
      BY <2>1 DEF Alerted
    <3> HIDE DEF WatchInv
    <3> QED
      BY <1>1, <3>1, SeqWiden
  <2> QED
    BY <1>1, <1>2, <2>1, <2>2 DEF Alerted
<1>4. notified' \in [Container -> Seq(0..now')]
      /\ alertState' \in [Container -> (0..now') \cup {None}]
  BY <1>2, <1>3 DEF WatchInv, Watch!TypeOK
<1> QED
  BY <1>1, <1>2, <1>3, <1>4 DEF WatchInv, Watch!TypeOK, Watch!OneTimer

LEMMA CollectInv ==
    ASSUME WatchInv, NEW lap \in laps, Watch!Collect(lap)
    PROVE  WatchInv'
<1>1. loop # "health" /\ lap.todo # <<>> /\ Watch!Proceed(lap)
      /\ UNCHANGED <<loop, now, loopRunning, widget, messages, posting, updating, timers,
                     tracked>>
  BY DEF Watch!Collect, Watch!widgets
<1>2. laps' \subseteq Watch!Lap
  BY <1>1, LapsTyped DEF WatchInv, Watch!TypeOK
<1>3. now \in Nat /\ None \notin 0..now /\ now \in 0..now
  BY WatchBounds DEF WatchInv, Watch!TypeOK
<1>4. CASE UNCHANGED <<alertState, notified>>
  <2>1. \A c \in Container : Alerted(alertState[c], notified[c])'
    BY <1>1, <1>4 DEF WatchInv, Alerted
  <2> QED
    BY <1>1, <1>2, <1>4, <2>1 DEF WatchInv, Watch!TypeOK, Watch!OneTimer
<1> DEFINE c == Head(lap.todo)
<1>5. CASE /\ Watch!Due(c) /\ alertState' = [alertState EXCEPT ![c] = now]
           /\ notified' = [notified EXCEPT ![c] = Append(@, now)]
  <2>1. c \in Container
    <3>1. lap \in [n : 1..MaxLaps, todo : Seq(Container)]
      BY DEF WatchInv, Watch!TypeOK, Watch!Lap
    <3>2. lap.todo \in Seq(Container) /\ lap.todo # <<>>
      BY <1>1, <3>1
    <3> QED
      BY <3>2, HeadOf
  <2> DEFINE times == notified[c]
             more == Append(times, now)
  <2>2. /\ times \in Seq(0..now) /\ more \in Seq(0..now) /\ more # <<>>
        /\ Len(more) = Len(times) + 1 /\ Len(times) \in Nat
        /\ more[Len(times) + 1] = now /\ \A i \in 1..Len(times) : more[i] = times[i]
    <3> DEFINE T == 0..now
    <3>1. times \in Seq(T) /\ now \in T
      BY <1>3, <2>1 DEF WatchInv
    <3> HIDE DEF times, T
    <3>2. /\ more \in Seq(T) /\ more # <<>> /\ Len(more) = Len(times) + 1
          /\ Len(times) \in Nat /\ more[Len(times) + 1] = now
          /\ \A i \in 1..Len(times) : more[i] = times[i]
      <4>2. more \in Seq(T) /\ Len(more) = Len(times) + 1 /\ Len(times) \in Nat
        BY <3>1
      <4>3. more[Len(times) + 1] = now /\ \A i \in 1..Len(times) : more[i] = times[i]
        BY <3>1
      <4> HIDE DEF more
      <4>4. more = <<>> => Len(more) = 0
        OBVIOUS
      <4> QED
        BY <4>2, <4>3, <4>4
    <3> QED
      BY <3>1, <3>2 DEF T
  <2>c. Cooldown \in Nat
    BY WatchBounds
  <2> HIDE DEF more
  <2>3. \A i \in 1..Len(more) - 1 : more[i + 1] - more[i] >= Cooldown
    <3>1. CASE alertState[c] = None
      <4>1. times = <<>>
        BY <2>1, <3>1 DEF WatchInv, Alerted
      <4>2. Len(times) = 0
        BY <4>1
      <4> HIDE DEF times
      <4> QED
        BY <2>2, <4>2
    <3>2. CASE alertState[c] # None
      <4>1. now - times[Len(times)] >= Cooldown /\ Len(times) > 0
        <5>1. alertState[c] = times[Len(times)] /\ times # <<>>
          BY <2>1, <3>2 DEF WatchInv, Alerted
        <5>2. now - alertState[c] >= Cooldown
          BY <1>5, <3>2 DEF Watch!Due
        <5> HIDE DEF times, c
        <5> QED
          BY <2>2, <5>1, <5>2
      <4>2. \A i \in 1..Len(times) - 1 : times[i + 1] - times[i] >= Cooldown
        BY <2>1 DEF WatchInv, Alerted
      <4> HIDE DEF times
      <4> SUFFICES ASSUME NEW i \in 1..Len(more) - 1
                   PROVE  more[i + 1] - more[i] >= Cooldown
        OBVIOUS
      <4>3. CASE i = Len(times)
        <5>1. more[i + 1] = now /\ more[i] = times[Len(times)]
          BY <2>2, <4>1, <4>3
        <5> QED
          BY <4>1, <5>1
      <4>4. CASE i \in 1..Len(times) - 1
        BY <2>2, <4>2, <4>4
      <4> QED
        BY <2>2, <4>3, <4>4
    <3> QED
      BY <3>1, <3>2
  <2>4. Alerted(now, more)
    BY <1>3, <2>2, <2>3 DEF Alerted
  <2>5. \A d \in Container : Alerted(alertState'[d], notified'[d])
    <3> DEFINE more2 == Append(times, now)
    <3> SUFFICES ASSUME NEW d \in Container PROVE Alerted(alertState'[d], notified'[d])
      OBVIOUS
    <3>1. CASE d = c
      <4>1. alertState'[d] = now /\ notified'[d] = more
        BY <1>5, <2>1, <3>1 DEF WatchInv, Watch!TypeOK, more
      <4> QED
        BY <2>4, <4>1
    <3>2. CASE d # c
      BY <1>5, <3>2 DEF WatchInv, Watch!TypeOK
    <3> QED
      BY <3>1, <3>2
  <2>6. \A d \in Container : Alerted(alertState[d], notified[d])'
    BY <1>1, <2>5 DEF Alerted
  <2>7. notified' \in [Container -> Seq(0..now)]
        /\ alertState' \in [Container -> (0..now) \cup {None}]
    BY <1>3, <1>5, <2>1, <2>2 DEF WatchInv, Watch!TypeOK, more
  <2> QED
    BY <1>1, <1>2, <2>6, <2>7 DEF WatchInv, Watch!TypeOK, Watch!OneTimer
<1> QED
  BY <1>4, <1>5 DEF Watch!Collect

LEMMA WatchStepInv ==
    ASSUME WatchInv, [Watch!Next]_Watch!vars PROVE WatchInv'
<1>0. laps \subseteq Watch!Lap /\ loopRunning \in BOOLEAN /\ LapsOk
  BY DEF WatchInv, Watch!TypeOK, LapsOk
<1>1. CASE UNCHANGED Watch!vars
  <2>1. UNCHANGED <<Watch!clock, Watch!widgets, laps, loopRunning, loop>>
    BY <1>1 DEF Watch!vars, Watch!clock
  <2> QED
    BY <1>0, <2>1, LapsMoved DEF LapsOk
<1>2. CASE Watch!HealthFire
  BY <1>0, <1>2, LapsTyped, LapsMoved
     DEF Watch!HealthFire, Watch!healthFire, Watch!BeginLap, LapsOk, Watch!clock
<1>3. CASE Watch!MonitorFire \/ Watch!AlertsFire
  BY <1>0, <1>3, LapsTyped, LapsMoved
     DEF Watch!MonitorFire, Watch!AlertsFire, LapsOk, Watch!clock
<1>4. ASSUME NEW lap \in laps, Watch!HealthCheck(lap) \/ Watch!EvaluateAlert(lap)
      PROVE  WatchInv'
  <2>1. UNCHANGED <<loop, loopRunning, Watch!clock, Watch!widgets>> /\ lap.todo # <<>>
        /\ Watch!Proceed(lap)
    BY <1>4 DEF Watch!HealthCheck, Watch!EvaluateAlert, Watch!clock
  <2>2. laps' \subseteq Watch!Lap
    BY <1>0, <2>1, LapsTyped
  <2>3. loop = "health" => IF loopRunning THEN \E l : laps' = {l} ELSE laps' = {}
    <3>1. CASE loop = "health"
      <4>1. PICK l : loopRunning /\ laps = {l}
        BY <1>0, <3>1 DEF LapsOk
      <4>2. laps' = {[lap EXCEPT !.todo = Tail(@)]}
        BY <2>1, <4>1 DEF Watch!Proceed
      <4> QED
        BY <4>1, <4>2
    <3> QED
      BY <3>1
  <2>4. LapsOk'
    BY <1>0, <2>1, <2>2, <2>3 DEF LapsOk
  <2> QED
    BY <2>1, <2>4, LapsMoved
<1>5. ASSUME NEW lap \in laps,
             Watch!HealthEnd(lap) \/ Watch!MonitorEnd(lap) \/ Watch!AlertsEnd(lap)
      PROVE  WatchInv'
  <2>1. UNCHANGED <<loop, Watch!clock, Watch!widgets>> /\ Watch!EndLap(lap)
        /\ loopRunning' \in BOOLEAN /\ (loop = "health" => ~loopRunning')
    BY <1>0, <1>5 DEF Watch!HealthEnd, Watch!MonitorEnd, Watch!AlertsEnd, Watch!clock
  <2>2. laps' \subseteq Watch!Lap
    BY <1>0, <2>1, LapsTyped
  <2>3. loop = "health" => laps' = {}
    BY <1>0, <2>1 DEF LapsOk, Watch!EndLap
  <2>4. LapsOk'
    BY <2>1, <2>2, <2>3 DEF LapsOk
  <2> QED
    BY <2>1, <2>4, LapsMoved
<1>6. CASE Watch!createWidget
  <2>1. messages.last + 1 \in 1..MaxMessages
    <3> DEFINE n == messages.last
    <3>1. messages \in [last : 0..MaxMessages, there : SUBSET (1..MaxMessages)]
      BY DEF WatchInv
    <3>2. n \in 0..MaxMessages /\ MaxMessages \in Nat /\ n < MaxMessages
      <4>1. n \in 0..MaxMessages
        BY <3>1
      <4>2. n < MaxMessages
        BY <1>6 DEF Watch!createWidget
      <4>3. MaxMessages \in Nat
        BY WatchBounds
      <4> HIDE DEF n
      <4> QED
        BY <4>1, <4>2, <4>3
    <3> HIDE DEF n
    <3>3. n + 1 \in 1..MaxMessages
      BY <3>2
    <3> QED
      BY <3>3 DEF n
  <2>2. messages' \in [last : 0..MaxMessages, there : SUBSET (1..MaxMessages)]
    <3> DEFINE n == messages.last + 1
    <3>1. n \in 1..MaxMessages /\ n \in 0..MaxMessages
      <4>1. n \in 1..MaxMessages
        BY <2>1
      <4> HIDE DEF n
      <4> QED
        BY <4>1
    <3>2. messages' = [last |-> n, there |-> messages.there \cup {n}]
      BY <1>6 DEF Watch!createWidget
    <3>3. messages.there \subseteq 1..MaxMessages
      BY DEF WatchInv
    <3> HIDE DEF n
    <3> QED
      BY <3>1, <3>2, <3>3
  <2>3. UNCHANGED <<Watch!clock, laps, loopRunning, widget, timers, tracked>>
        /\ posting' \cup updating' \cup timers' \subseteq 1..MaxMessages
        /\ widget' \in (1..MaxMessages) \cup {None} /\ timers' \subseteq {tracked'}
    BY <1>6, <2>1 DEF Watch!createWidget, WatchInv, Watch!TypeOK, Watch!OneTimer
  <2> QED
    BY <2>2, <2>3, WidgetsMoved
<1>7. CASE Watch!UpdateWidget
  BY <1>7, WidgetsMoved
     DEF Watch!UpdateWidget, WatchInv, Watch!TypeOK, Watch!OneTimer
<1>8. ASSUME NEW m \in 1..MaxMessages, Watch!Posted(m) \/ Watch!Fetched(m) \/ Watch!Removed(m)
      PROVE  WatchInv'
  <2>1. CASE Watch!Posted(m)
    BY <2>1, WidgetsMoved
       DEF Watch!Posted, Watch!startWidgetUpdate, WatchInv, Watch!TypeOK, Watch!OneTimer
  <2>2. CASE Watch!Fetched(m)
    BY <2>2, WidgetsMoved DEF Watch!Fetched, WatchInv, Watch!TypeOK, Watch!OneTimer
  <2>3. CASE Watch!Removed(m)
    BY <2>3, WidgetsMoved DEF Watch!Removed, WatchInv, Watch!TypeOK, Watch!OneTimer
  <2> QED
    BY <1>8, <2>1, <2>2, <2>3
<1> QED
  BY <1>1, <1>2, <1>3, <1>4, <1>5, <1>6, <1>7, <1>8, TickInv, CollectInv DEF Watch!Next

LEMMA WatchTrue == WatchInv => Watch!WatchesKept
<1> SUFFICES ASSUME WatchInv PROVE Watch!WatchesKept
  OBVIOUS
<1>1. Watch!OneLap
  <2>1. Watch!Cardinality({}) = 0 /\ \A lap : Watch!Cardinality({lap}) = 1
    BY WatchCounts, FS_EmptySet, FS_Singleton
  <2> QED
    BY <2>1 DEF WatchInv, Watch!OneLap
<1>2. Watch!NotifiedOnce
  BY DEF WatchInv, Alerted, Watch!NotifiedOnce
<1> QED
  BY <1>1, <1>2 DEF WatchInv, Watch!WatchesKept

-----------------------------------------------------------------------------
(***************************************************************************)
(* The bot's tasks.  A reload has no jobs while it is under way; once none *)
(* is, a task has its job unless it is missed or the command that made it  *)
(* has still to ask for a reload.                                          *)
(***************************************************************************)
\* Tasks whose commands have still to ask for a reload.
Unasked == {t \in rows : \E r \in Slot : cmd[r].at = "reload" /\ cmd[r].task = t}

\* What the one reload there may be has read.
ReloadRead(reload) ==
    /\ reload.n = 1
    /\ \/ reload \in [n : Nat, at : {"select"}]
       \/ /\ reload \in [n : Nat, at : {"register"}, rows : SUBSET rows]
          /\ \A t \in rows : t \in reload.rows \cup missed \cup Unasked

CmdOk ==
    cmd \in [Slot -> {Tasks!Idle} \cup [at : {"insert"}] \cup [at : {"reload"}, task : rows]
                       \cup [at : {"reply"}, reload : Nat]]

\* Every job there is is that of a task.
JobsOk ==
    /\ live = {registeredTasks[t] : t \in Tasks!Task} \ {None}
    /\ \A t \in Tasks!Task : registeredTasks[t] # None => taskOf[registeredTasks[t]] = t

ReloadsOk ==
    \/ /\ reloads = {}
       /\ \A t \in rows : t \in missed \cup Unasked \/ registeredTasks[t] # None
    \/ /\ \E reload : reloads = {reload} /\ ReloadRead(reload)
       /\ live = {}

RowsOk == \E k \in 0..MaxTasks : rows = 1..k

TasksInv == Tasks!TypeOK /\ CmdOk /\ RowsOk /\ JobsOk /\ ReloadsOk

LEMMA TasksBounds == MaxTasks \in Nat \ {0} /\ MaxJobs \in Nat /\ None \notin Nat
  BY ServicesAssumption

LEMMA TasksCounts == \A S : Tasks!Cardinality(S) = Cardinality(S)
  BY DEF Tasks!Cardinality, Cardinality

LEMMA TasksTrue == TasksInv => Tasks!JobsKept
<1> SUFFICES ASSUME TasksInv PROVE Tasks!JobsKept
  OBVIOUS
<1>1. reloads = {} /\ (\A r \in Slot : cmd[r] = Tasks!Idle)
        => \A t \in rows \ missed : registeredTasks[t] \in live
  <2> SUFFICES ASSUME reloads = {}, \A r \in Slot : cmd[r] = Tasks!Idle,
                      NEW t \in rows \ missed
               PROVE  registeredTasks[t] \in live
    OBVIOUS
  <2>1. Unasked = {}
    BY DEF Unasked, Tasks!Idle
  <2>2. registeredTasks[t] # None /\ t \in Tasks!Task
    BY <2>1 DEF TasksInv, ReloadsOk, Tasks!TypeOK
  <2> QED
    BY <2>2 DEF TasksInv, JobsOk
<1> QED
  BY <1>1 DEF TasksInv, JobsOk, Tasks!JobsKept

\* A reload that has yet to read.
LEMMA SelectRead ==
    LET reload == [n |-> 1, at |-> "select"]
    IN  /\ reload \in [n : Nat, at : {"select"}]
        /\ ReloadRead(reload) /\ ReloadRead(reload)'
  BY DEF ReloadRead

LEMMA TasksInitInv == Tasks!Init => TasksInv
<1> SUFFICES ASSUME Tasks!Init PROVE TasksInv
  OBVIOUS
<1>1. RowsOk
  <2>1. rows = {} => rows = 1..0
    OBVIOUS
  <2>2. rows = {1} => rows = 1..1
    OBVIOUS
  <2>3. 0 \in 0..MaxTasks /\ 1 \in 0..MaxTasks
    BY TasksBounds
  <2>4. rows \in {{}, {1}}
    BY DEF Tasks!Init
  <2>5. CASE rows = {}
    BY <2>1, <2>3, <2>5 DEF RowsOk
  <2>6. CASE rows = {1}
    BY <2>2, <2>3, <2>6 DEF RowsOk
  <2> QED
    BY <2>4, <2>5, <2>6
<1>2. Tasks!TypeOK
  <2>1. rows \subseteq Tasks!Task
    BY TasksBounds DEF Tasks!Init, Tasks!Task
  <2>2. jobs \in 0..MaxJobs /\ live = {} /\ runs = {} /\ missed = {}
    BY TasksBounds DEF Tasks!Init
  <2>3. reloads \subseteq [n : Nat, at : {"select"}]
    BY DEF Tasks!Init
  <2>4. \A r \in Slot : cmd[r].at = "idle"
    BY DEF Tasks!Init, Tasks!Idle
  <2> QED
    BY <2>1, <2>2, <2>3, <2>4 DEF Tasks!Init, Tasks!TypeOK
<1>3. JobsOk
  <2>1. \A t \in Tasks!Task : registeredTasks[t] = None
    BY DEF Tasks!Init
  <2> QED
    BY <2>1 DEF Tasks!Init, JobsOk
<1>4. ReloadsOk
  BY SelectRead DEF Tasks!Init, ReloadsOk
<1>5. CmdOk
  BY DEF Tasks!Init, CmdOk
<1> QED
  BY <1>1, <1>2, <1>3, <1>4, <1>5 DEF TasksInv

-----------------------------------------------------------------------------
\* A step of one command that has nothing to ask for, before or after.
LEMMA CmdMoved ==
    ASSUME TasksInv, NEW r \in Slot, NEW c, cmd' = [cmd EXCEPT ![r] = c],
           c = Tasks!Idle \/ c = [at |-> "insert"],
           cmd[r].at # "reload",
           UNCHANGED <<rows, lastRunStatus, live, taskOf, jobs, registeredTasks, reloads,
                       runs, missed>>
    PROVE  TasksInv'
<1>1. CmdOk'
  BY DEF TasksInv, CmdOk
<1>2. \A s \in Slot : cmd'[s] = IF s = r THEN c ELSE cmd[s]
  BY DEF TasksInv, CmdOk
<1>3. c.at # "reload"
  BY DEF Tasks!Idle
<1>4. Unasked' = Unasked
  BY <1>2, <1>3 DEF Unasked
<1>5. \A s \in Slot : cmd'[s].at \in {"idle", "insert", "reload", "reply"}
  BY <1>1 DEF CmdOk, Tasks!Idle
<1>6. \A reload : ReloadRead(reload) => ReloadRead(reload)'
  BY <1>4 DEF ReloadRead
<1>7. ReloadsOk'
  BY <1>4, <1>6 DEF TasksInv, ReloadsOk
<1>8. Tasks!TypeOK'
  BY <1>5 DEF TasksInv, Tasks!TypeOK
<1> QED
  BY <1>1, <1>7, <1>8 DEF TasksInv, JobsOk, RowsOk

\* Steps of the runs.
LEMMA RunsMoved ==
    ASSUME TasksInv,
           UNCHANGED <<rows, live, taskOf, jobs, registeredTasks, reloads, cmd, missed>>,
           lastRunStatus' \in [Tasks!Task -> {"never", "running"}],
           runs' \subseteq [n : 1..MaxRuns, task : Tasks!Task, at : {"start", "work"}]
    PROVE  TasksInv'
<1>1. ReloadsOk'
  <2>1. \A reload : ReloadRead(reload) => ReloadRead(reload)'
    BY DEF ReloadRead, Unasked
  <2> QED
    BY <2>1 DEF TasksInv, ReloadsOk, Unasked
<1>2. Tasks!TypeOK'
  BY DEF TasksInv, Tasks!TypeOK
<1> QED
  BY <1>1, <1>2 DEF TasksInv, JobsOk, RowsOk, CmdOk

-----------------------------------------------------------------------------
LEMMA InsertInv == ASSUME TasksInv, NEW r \in Slot, Tasks!Insert(r) PROVE TasksInv'
<1>1. CASE rows' = rows
  <2>1. cmd' = [cmd EXCEPT ![r] = Tasks!Idle]
    <3>1. CASE rows' = rows \cup {Tasks!Cardinality(rows) + 1}
      <4>1. PICK k \in 0..MaxTasks : rows = 1..k
        BY DEF TasksInv, RowsOk
      <4>2. Tasks!Cardinality(rows) = k
        BY <4>1, TasksCounts, TasksBounds, FS_Interval
      <4>3. k \in Nat /\ k + 1 \notin rows
        BY <4>1, TasksBounds
      <4> QED
        BY <1>1, <3>1, <4>2, <4>3
    <3> QED
      BY <3>1 DEF Tasks!Insert
  <2> QED
    BY <1>1, <2>1, CmdMoved DEF Tasks!Insert
<1>2. CASE rows' # rows
  <2>1. PICK k \in 0..MaxTasks : rows = 1..k
    BY DEF TasksInv, RowsOk
  <2>2. Tasks!Cardinality(rows) = k /\ k \in Nat
    BY <2>1, TasksCounts, FS_Interval, TasksBounds
  <2> DEFINE t == k + 1
             c == [at |-> "reload", task |-> t]
  <2>3. rows' = rows \cup {t} /\ cmd' = [cmd EXCEPT ![r] = c] /\ k < MaxTasks
    BY <1>2, <2>2 DEF Tasks!Insert
  <2>4. rows' = 1..t /\ t \in 0..MaxTasks /\ t \in 1..MaxTasks
    BY <2>1, <2>2, <2>3, TasksBounds
  <2>5. RowsOk'
    BY <2>4 DEF RowsOk
  <2> HIDE DEF t
  <2>6. CmdOk'
    BY <2>3 DEF TasksInv, CmdOk
  <2>7. \A s \in Slot : cmd'[s] = IF s = r THEN c ELSE cmd[s]
    BY <2>3 DEF TasksInv, CmdOk
  <2>8. cmd[r].at = "insert"
    BY DEF Tasks!Insert
  <2>9. Unasked' = Unasked \cup {t}
    BY <2>3, <2>7, <2>8 DEF Unasked
  <2>u. UNCHANGED <<lastRunStatus, live, taskOf, jobs, registeredTasks, reloads, runs, missed>>
    BY DEF Tasks!Insert
  <2>10. \A reload : ReloadRead(reload) => ReloadRead(reload)'
    BY <2>3, <2>9, <2>u DEF ReloadRead
  <2>11. ReloadsOk'
    BY <2>3, <2>9, <2>10, <2>u DEF TasksInv, ReloadsOk
  <2>12. \A s \in Slot : cmd'[s].at \in {"idle", "insert", "reload", "reply"}
    BY <2>6 DEF CmdOk, Tasks!Idle
  <2>13. Tasks!TypeOK'
    BY <2>3, <2>4, <2>12, <2>u DEF TasksInv, Tasks!TypeOK, Tasks!Task
  <2> QED
    BY <2>5, <2>6, <2>11, <2>13, <2>u DEF TasksInv, JobsOk
<1> QED
  BY <1>1, <1>2

\* A reload begun, shared or missed.
LEMMA ReloadInv == ASSUME TasksInv, NEW r \in Slot, Tasks!Reload(r) PROVE TasksInv'
<1>1. PICK m \in 1..Tasks!Cardinality(reloads) + 1 :
          /\ Tasks!reloadTasks(m)
          /\ cmd' = [cmd EXCEPT ![r] = [at |-> "reply", reload |-> m]]
          /\ missed' = IF \E reload \in reloads : reload.n = m /\ reload.at = "register"
                                                 /\ cmd[r].task \notin reload.rows
                       THEN missed \cup {cmd[r].task} ELSE missed
  BY DEF Tasks!Reload
<1>2. m = 1
  BY <1>1 DEF Tasks!reloadTasks
<1>u. UNCHANGED <<rows, lastRunStatus, taskOf, jobs, runs>> /\ cmd[r].at = "reload"
  BY DEF Tasks!Reload
<1> DEFINE c == [at |-> "reply", reload |-> m]
           own == cmd[r].task
<1>3. CmdOk' /\ own \in rows
  <2>1. cmd[r] \in [at : {"reload"}, task : rows]
    BY <1>u DEF TasksInv, CmdOk, Tasks!Idle
  <2>2. m \in Nat
    BY <1>2
  <2> QED
    BY <1>1, <1>u, <2>1, <2>2 DEF TasksInv, CmdOk
<1>4. \A s \in Slot : cmd'[s] = IF s = r THEN c ELSE cmd[s]
  BY <1>1 DEF TasksInv, CmdOk
<1>5. Unasked \subseteq Unasked' \cup {own}
  BY <1>4, <1>u DEF Unasked
<1>6. missed' \subseteq rows /\ missed \subseteq missed'
  BY <1>1, <1>3 DEF TasksInv, Tasks!TypeOK
<1>7. \A s \in Slot : cmd'[s].at \in {"idle", "insert", "reload", "reply"}
  BY <1>3 DEF CmdOk, Tasks!Idle
<1>8. CASE reloads = {}
  <2>1. /\ live' = live \ {registeredTasks[t] : t \in Tasks!Task}
        /\ registeredTasks' = [t \in Tasks!Task |-> None]
        /\ reloads' = {[n |-> m, at |-> "select"]}
    BY <1>1, <1>8 DEF Tasks!reloadTasks, Tasks!stopAll
  <2>2. live' = {}
    BY <2>1 DEF TasksInv, JobsOk
  <2>3. JobsOk'
    BY <2>1, <2>2 DEF JobsOk
  <2>4. ReloadsOk'
    <3>1. reloads' = {[n |-> 1, at |-> "select"]}
      BY <1>2, <2>1
    <3> QED
      BY <2>2, <3>1, SelectRead DEF ReloadsOk
  <2>5. Tasks!TypeOK'
    <3>1. reloads' \subseteq [n : Nat, at : {"select"}]
      BY <1>2, <2>1
    <3> QED
      BY <1>6, <1>7, <1>u, <2>1, <2>2, <3>1 DEF TasksInv, Tasks!TypeOK
  <2> QED
    BY <1>3, <1>u, <2>3, <2>4, <2>5 DEF TasksInv, RowsOk
<1>9. CASE reloads # {}
  <2>1. UNCHANGED <<live, registeredTasks, reloads>>
    BY <1>1, <1>9 DEF Tasks!reloadTasks
  <2>2. PICK reload : reloads = {reload} /\ ReloadRead(reload) /\ live = {}
    BY <1>9 DEF TasksInv, ReloadsOk
  <2>3. ReloadRead(reload)'
    <3>1. CASE reload.at = "select"
      BY <2>2, <3>1 DEF ReloadRead
    <3>2. CASE reload.at # "select"
      <4>1. /\ reload.n = 1 /\ reload.at = "register"
            /\ reload \in [n : Nat, at : {"register"}, rows : SUBSET rows]
            /\ \A t \in rows : t \in reload.rows \cup missed \cup Unasked
        BY <2>2, <3>2 DEF ReloadRead
      <4>2. own \in reload.rows \/ own \in missed'
        BY <1>1, <1>2, <2>2, <4>1
      <4>3. \A t \in rows : t \in reload.rows \cup missed' \cup Unasked'
        BY <1>5, <1>6, <4>1, <4>2
      <4> QED
        BY <1>u, <4>1, <4>3 DEF ReloadRead
    <3> QED
      BY <3>1, <3>2
  <2>4. ReloadsOk'
    BY <2>1, <2>2, <2>3 DEF ReloadsOk
  <2>5. Tasks!TypeOK'
    BY <1>6, <1>7, <1>u, <2>1 DEF TasksInv, Tasks!TypeOK
  <2> QED
    BY <1>3, <1>u, <2>1, <2>4, <2>5 DEF TasksInv, RowsOk, JobsOk
<1> QED
  BY <1>8, <1>9

LEMMA ReplyInv == ASSUME TasksInv, NEW r \in Slot, Tasks!Reply(r) PROVE TasksInv'
<1>1. cmd' = [cmd EXCEPT ![r] = Tasks!Idle] /\ cmd[r].at # "reload"
      /\ UNCHANGED <<rows, lastRunStatus, live, taskOf, jobs, registeredTasks, reloads, runs,
                     missed>>
  BY DEF Tasks!Reply
<1> QED
  BY <1>1, CmdMoved

LEMMA createTaskInv == ASSUME TasksInv, NEW r \in Slot, Tasks!create(r) PROVE TasksInv'
<1>1. cmd' = [cmd EXCEPT ![r] = [at |-> "insert"]] /\ cmd[r].at # "reload"
      /\ UNCHANGED <<rows, lastRunStatus, live, taskOf, jobs, registeredTasks, reloads, runs,
                     missed>>
  BY DEF Tasks!create, Tasks!Idle
<1> QED
  BY <1>1, CmdMoved

-----------------------------------------------------------------------------
LEMMA SelectInv ==
    ASSUME TasksInv, NEW reload \in reloads, Tasks!Select(reload) PROVE TasksInv'
<1>1. reloads = {reload} /\ ReloadRead(reload) /\ live = {} /\ reload.at = "select"
  BY DEF TasksInv, ReloadsOk, Tasks!Select
<1>2. reload.n = 1
  BY <1>1 DEF ReloadRead
<1>u. UNCHANGED <<rows, lastRunStatus, live, taskOf, jobs, registeredTasks, cmd, runs>>
  BY DEF Tasks!Select
<1>3. CASE /\ missed' = {}
           /\ reloads' = (reloads \ {reload}) \cup {[n |-> reload.n, at |-> "register",
              rows |-> rows]}
  <2>1. PICK after : reloads' = {after} /\ after = [n |-> 1, at |-> "register", rows |-> rows]
    BY <1>1, <1>2, <1>3
  <2>2. after \in [n : Nat, at : {"register"}, rows : SUBSET rows]
        /\ after.n = 1 /\ after.rows = rows
    BY <2>1
  <2>3. ReloadRead(after)'
    BY <1>u, <2>2 DEF ReloadRead
  <2>4. ReloadsOk'
    BY <1>1, <1>u, <2>1, <2>3 DEF ReloadsOk
  <2>5. Tasks!TypeOK'
    BY <1>3, <1>u, <2>1, <2>2 DEF TasksInv, Tasks!TypeOK
  <2> QED
    BY <1>u, <2>4, <2>5 DEF TasksInv, JobsOk, RowsOk, CmdOk
<1>4. CASE missed' = rows /\ reloads' = reloads \ {reload}
  <2>1. reloads' = {}
    BY <1>1, <1>4
  <2>2. ReloadsOk'
    BY <1>4, <1>u, <2>1 DEF ReloadsOk
  <2>3. Tasks!TypeOK'
    BY <1>4, <1>u, <2>1 DEF TasksInv, Tasks!TypeOK
  <2> QED
    BY <1>u, <2>2, <2>3 DEF TasksInv, JobsOk, RowsOk, CmdOk
<1> QED
  BY <1>3, <1>4 DEF Tasks!Select

\* The jobs of the tasks that were found are numbered one after the other.
Place(found, t) == Tasks!Cardinality({u \in found : u <= t})

LEMMA Places ==
    ASSUME NEW N \in Nat, NEW found \in SUBSET (1..N)
    PROVE  /\ Cardinality(found) \in Nat
           /\ \A t \in found : Place(found, t) \in 1..Cardinality(found)
           /\ \A t, u \in found : Place(found, t) = Place(found, u) => t = u
<1>1. IsFiniteSet(found)
  <2>1. IsFiniteSet(1..N)
    BY FS_Interval
  <2> QED
    BY <2>1, FS_Subset
<1>n. \A t \in found : t \in Nat
  OBVIOUS
<1>2. ASSUME NEW t \in found
      PROVE  Place(found, t) \in 1..Cardinality(found)
  <2> DEFINE S == {u \in found : u <= t}
  <2>1. IsFiniteSet(S) /\ Cardinality(S) <= Cardinality(found)
    BY <1>1, FS_Subset
  <2>2. S # {}
    BY <1>2
  <2>3. Cardinality(S) \in Nat /\ Cardinality(found) \in Nat /\ Cardinality(S) # 0
    BY <1>1, <2>1, <2>2, FS_CardinalityType, FS_EmptySet
  <2> QED
    BY <2>1, <2>3, TasksCounts DEF Place
<1>3. ASSUME NEW t \in found, NEW u \in found, t < u
      PROVE  Place(found, t) # Place(found, u)
  <2> DEFINE S == {v \in found : v <= t}
             T == {v \in found : v <= u}
  <2>1. IsFiniteSet(T) /\ S \in SUBSET T
    <3>1. T \in SUBSET found /\ S \in SUBSET T
      <4>1. \A v \in found : v <= t => v <= u
        BY <1>3, <1>n
      <4> QED
        BY <4>1
    <3> HIDE DEF S, T
    <3> QED
      BY <1>1, <3>1, FS_Subset
  <2>2. u \in T /\ u \notin S
    BY <1>3, <1>n
  <2> HIDE DEF S, T
  <2>3. Cardinality(T) # Cardinality(S)
    BY <2>1, <2>2, FS_Subset
  <2> QED
    BY <2>3, TasksCounts DEF S, T, Place
<1>4. \A t, u \in found : t = u \/ t < u \/ u < t
  OBVIOUS
<1> QED
  BY <1>1, <1>2, <1>3, <1>4, FS_CardinalityType

LEMMA RegisterInv ==
    ASSUME TasksInv, NEW reload \in reloads, Tasks!Register(reload) PROVE TasksInv'
<1> DEFINE found == reload.rows
           count == Tasks!Cardinality(found)
           job(t) == jobs + Place(found, t)
           new == {job(t) : t \in found}
<1>1. reloads = {reload} /\ ReloadRead(reload) /\ live = {} /\ reload.at = "register"
  BY DEF TasksInv, ReloadsOk, Tasks!Register
<1>2. found \subseteq rows /\ \A t \in rows : t \in found \cup missed \cup Unasked
  BY <1>1 DEF ReloadRead
<1>3. found \in SUBSET (1..MaxTasks) /\ Tasks!Task = 1..MaxTasks /\ jobs \in Nat
      /\ jobs \in 0..MaxJobs
  <2>1. rows \subseteq 1..MaxTasks /\ jobs \in 0..MaxJobs
    BY DEF TasksInv, Tasks!TypeOK, Tasks!Task
  <2> HIDE DEF found
  <2> QED
    BY <1>2, <2>1 DEF Tasks!Task
<1>u. UNCHANGED <<rows, lastRunStatus, cmd, runs, missed>> /\ reloads' = {}
  BY <1>1 DEF Tasks!Register
<1>4. /\ jobs + count <= MaxJobs /\ jobs' = jobs + count
      /\ live' = new
      /\ taskOf' = [j \in Tasks!Job |-> IF j \in new THEN CHOOSE t \in found : job(t) = j
                                        ELSE taskOf[j]]
      /\ registeredTasks' = [t \in Tasks!Task |-> IF t \in found THEN job(t)
                                                  ELSE registeredTasks[t]]
  BY <1>1 DEF Tasks!Register, Tasks!registerTask, Place
<1>5. /\ count \in Nat
      /\ \A t \in found : Place(found, t) \in 1..count
      /\ \A t, u \in found : Place(found, t) = Place(found, u) => t = u
  BY <1>3, TasksBounds, TasksCounts, Places
<1> HIDE DEF count
<1>6. \A t \in found : job(t) \in 1..(jobs + count) /\ job(t) \in Tasks!Job /\ job(t) # None
  BY <1>3, <1>4, <1>5, TasksBounds DEF Tasks!Job
<1>7. \A t, u \in found : job(t) = job(u) => t = u
  BY <1>3, <1>5
<1> HIDE DEF job, found
<1>8. \A t \in Tasks!Task : registeredTasks[t] = None
  BY <1>1 DEF TasksInv, JobsOk
<1>9. \A t \in found : (CHOOSE u \in found : job(u) = job(t)) = t
  BY <1>7
<1>10. JobsOk'
  <2>1. \A t \in Tasks!Task : registeredTasks'[t] = IF t \in found THEN job(t) ELSE None
    BY <1>4, <1>8
  <2>2. live' = {registeredTasks'[t] : t \in Tasks!Task} \ {None}
    BY <1>3, <1>4, <1>6, <2>1
  <2>3. \A t \in found : taskOf'[job(t)] = t
    BY <1>4, <1>6, <1>9
  <2>4. \A t \in Tasks!Task : registeredTasks'[t] # None => taskOf'[registeredTasks'[t]] = t
    BY <2>1, <2>3
  <2> QED
    BY <2>2, <2>4 DEF JobsOk
<1>11. ReloadsOk'
  <2>1. \A t \in found : registeredTasks'[t] # None
    BY <1>3, <1>4, <1>6
  <2> QED
    BY <1>2, <1>u, <2>1 DEF ReloadsOk, Unasked
<1>12. Tasks!TypeOK'
  <2>1. live' \subseteq 1..jobs' /\ jobs' \in 0..MaxJobs
    BY <1>3, <1>4, <1>5, <1>6, TasksBounds
  <2>2. taskOf' \in [Tasks!Job -> Tasks!Task \cup {None}]
    <3>1. \A j \in new : \E t \in found : job(t) = j
      OBVIOUS
    <3>2. \A j \in new : (CHOOSE t \in found : job(t) = j) \in Tasks!Task
      BY <1>3, <3>1
    <3> QED
      BY <1>4, <3>2 DEF TasksInv, Tasks!TypeOK
  <2>3. registeredTasks' \in [Tasks!Task -> Tasks!Job \cup {None}]
    BY <1>4, <1>6, <1>8
  <2> QED
    BY <1>u, <2>1, <2>2, <2>3 DEF TasksInv, Tasks!TypeOK
<1> QED
  BY <1>u, <1>10, <1>11, <1>12 DEF TasksInv, RowsOk, CmdOk

-----------------------------------------------------------------------------
LEMMA FireInv == ASSUME TasksInv, NEW job \in live, Tasks!Fire(job) PROVE TasksInv'
<1>1. taskOf[job] \in Tasks!Task
  BY DEF TasksInv, JobsOk
<1>2. PICK k \in 1..MaxRuns :
          runs' = runs \cup {[n |-> k, task |-> taskOf[job], at |-> "start"]}
  BY DEF Tasks!Fire
<1>3. runs' \subseteq [n : 1..MaxRuns, task : Tasks!Task, at : {"start", "work"}]
  BY <1>1, <1>2 DEF TasksInv, Tasks!TypeOK
<1> QED
  BY <1>3, RunsMoved DEF Tasks!Fire, TasksInv, Tasks!TypeOK

LEMMA StartFinishInv ==
    ASSUME TasksInv, NEW run \in runs, Tasks!Start(run) \/ Tasks!Finish(run) PROVE TasksInv'
<1>1. run \in [n : 1..MaxRuns, task : Tasks!Task, at : {"start", "work"}]
  BY DEF TasksInv, Tasks!TypeOK
<1>2. [run EXCEPT !.at = "work"] \in [n : 1..MaxRuns, task : Tasks!Task, at : {"start", "work"}]
  BY <1>1
<1>3. runs' \subseteq runs \cup {[run EXCEPT !.at = "work"]}
  BY DEF Tasks!Start, Tasks!Finish
<1>4. lastRunStatus' \in [Tasks!Task -> {"never", "running"}]
  BY DEF Tasks!Start, Tasks!Finish, TasksInv, Tasks!TypeOK
<1>5. UNCHANGED <<rows, live, taskOf, jobs, registeredTasks, reloads, cmd, missed>>
  BY DEF Tasks!Start, Tasks!Finish
<1>6. runs' \subseteq [n : 1..MaxRuns, task : Tasks!Task, at : {"start", "work"}]
  BY <1>2, <1>3 DEF TasksInv, Tasks!TypeOK
<1> QED
  BY <1>4, <1>5, <1>6, RunsMoved

LEMMA TasksStepInv == ASSUME TasksInv, [Tasks!Next]_Tasks!vars PROVE TasksInv'
<1>1. CASE UNCHANGED Tasks!vars
  BY <1>1, RunsMoved DEF Tasks!vars, TasksInv, Tasks!TypeOK
<1>2. CASE Tasks!Next
  BY <1>2, SelectInv, RegisterInv, createTaskInv, InsertInv, ReloadInv, ReplyInv, FireInv,
     StartFinishInv DEF Tasks!Next
<1> QED
  BY <1>1, <1>2

-----------------------------------------------------------------------------
(***************************************************************************)
(* The tickets.  A number or channel belongs to one ticket or to the one   *)
(* handler that is opening it; a channel is removed once, and whoever      *)
(* removed it alone goes on to post its transcript.                        *)
(***************************************************************************)
Opening(s) == handler[s].at \in {"category", "channel", "register"}
Waiting(s) == handler[s].at \in {"category", "channel"}
Making(s) == handler[s].at = "register"
Closing(s) == handler[s].at \in {"fetch", "tell", "delete", "forget", "post"}
Posting(s) == handler[s].at \in {"forget", "post"}

\* The numbers there are, of handlers that open a ticket and of tickets.
NumbersOk ==
    /\ counter \in Nat
    /\ \A s \in Slot : Opening(s) =>
         /\ handler[s].number \in 1..counter
         /\ \A t \in Slot : Opening(t) /\ t # s => handler[t].number # handler[s].number
         /\ \A e \in tickets : e[2] # handler[s].number
    /\ \A e \in tickets : e[2] \in 1..counter

\* The channels there are, of handlers that open or close a ticket, of tickets,
\* and in the log.
ChannelsOk ==
    /\ made \in Nat
    /\ \A c \in channels : c.channel \in 1..made
    /\ \A e \in tickets : e[1] \in 1..made
    /\ \A i \in DOMAIN posts : posts[i] \in 1..made
    /\ \A s \in Slot : Making(s) \/ Closing(s) => handler[s].channel \in 1..made
    /\ \A s \in Slot : Making(s) =>
         /\ \A t \in Slot : Making(t) \/ Closing(t) =>
              t = s \/ handler[t].channel # handler[s].channel
         /\ \A e \in tickets : e[1] # handler[s].channel
         /\ \A i \in DOMAIN posts : posts[i] # handler[s].channel

\* Who has removed a channel.
RemovedOk ==
    \A s \in Slot : Posting(s) =>
        /\ \A c \in channels : c.channel # handler[s].channel
        /\ \A i \in DOMAIN posts : posts[i] # handler[s].channel
        /\ \A t \in Slot : Posting(t) /\ t # s => handler[t].channel # handler[s].channel
        /\ handler[s].at = "post" => \A e \in tickets : e[1] # handler[s].channel

\* The log, spelled out.
LogOk ==
    /\ \A i, j \in DOMAIN posts : posts[i] = posts[j] => i = j
    /\ \A i \in DOMAIN posts : /\ \A c \in channels : c.channel # posts[i]
                               /\ \A e \in tickets : e[1] # posts[i]

\* Every channel and number was asked for.
BoundsOk ==
    /\ counter <= presses
    /\ made + Cardinality({s \in Slot : Waiting(s)}) <= presses

TicketsInv ==
    /\ Tickets!TypeOK
    /\ NumbersOk
    /\ ChannelsOk
    /\ RemovedOk
    /\ LogOk
    /\ BoundsOk
    /\ Tickets!NumbersDistinct

LEMMA TicketsTrue == TicketsInv => Tickets!TicketsKept
<1> SUFFICES ASSUME TicketsInv PROVE Tickets!TicketsKept
  OBVIOUS
<1>1. Tickets!IsInjective(posts)
  BY DEF TicketsInv, LogOk, Tickets!IsInjective
<1>2. \A i \in DOMAIN posts : ~Tickets!Exists(posts[i]) /\ Tickets!Entry(posts[i]) = {}
  BY DEF TicketsInv, LogOk, Tickets!Exists, Tickets!Entry
<1> QED
  BY <1>1, <1>2 DEF TicketsInv, Tickets!TicketsKept, Tickets!TranscribedOnce

LEMMA TicketsBounds ==
    MaxPresses \in Nat /\ MaxFailures \in Nat /\ MaxRestarts \in Nat /\ IsFiniteSet(Slot)
    /\ None \notin Nat
  BY ServicesAssumption

LEMMA TicketsInitInv == Tickets!Init => TicketsInv
<1> SUFFICES ASSUME Tickets!Init PROVE TicketsInv
  OBVIOUS
<1>1. \A s \in Slot : handler[s] = Tickets!Idle /\ ~Opening(s) /\ ~Closing(s) /\ ~Waiting(s)
                      /\ ~Making(s) /\ ~Posting(s)
  BY DEF Tickets!Init, Tickets!Idle, Opening, Closing, Waiting, Making, Posting
<1>2. Tickets!TypeOK
  BY TicketsBounds DEF Tickets!Init, Tickets!TypeOK, Tickets!Idle
<1>3. BoundsOk
  <2>1. {s \in Slot : Waiting(s)} = {}
    BY <1>1
  <2>2. Cardinality({s \in Slot : Waiting(s)}) = 0
    BY <2>1, FS_EmptySet
  <2> QED
    BY <2>2 DEF Tickets!Init, BoundsOk
<1>4. posts = <<>> /\ DOMAIN posts = {}
  BY DEF Tickets!Init
<1> QED
  BY <1>1, <1>2, <1>3, <1>4
     DEF Tickets!Init, TicketsInv, NumbersOk, ChannelsOk, RemovedOk, LogOk,
       Tickets!NumbersDistinct

-----------------------------------------------------------------------------
\* What a step does to the handler of one slot.
LEMMA HandlerMoved ==
    ASSUME TicketsInv, NEW s \in Slot, NEW h, handler' = [handler EXCEPT ![s] = h]
    PROVE  /\ handler'[s] = h
           /\ \A t \in Slot : t # s => /\ handler'[t] = handler[t]
                                       /\ Opening(t)' = Opening(t) /\ Closing(t)' = Closing(t)
                                       /\ Waiting(t)' = Waiting(t) /\ Making(t)' = Making(t)
                                       /\ Posting(t)' = Posting(t)
  BY DEF TicketsInv, Tickets!TypeOK, Opening, Closing, Waiting, Making, Posting

\* The slots that wait for a channel, when one begins or ends to.
LEMMA WaitingMoved ==
    ASSUME TicketsInv, NEW s \in Slot, NEW h, handler' = [handler EXCEPT ![s] = h]
    PROVE  LET before == {t \in Slot : Waiting(t)}
               after == {t \in Slot : Waiting(t)'}
           IN  /\ Cardinality(before) \in Nat
               /\ ~Waiting(s) /\ Waiting(s)' => Cardinality(after) = Cardinality(before) + 1
               /\ Waiting(s) /\ ~Waiting(s)' => Cardinality(after) = Cardinality(before) - 1
               /\ Waiting(s) = Waiting(s)' => after = before
<1> DEFINE before == {t \in Slot : Waiting(t)}
           after == {t \in Slot : Waiting(t)'}
<1>1. \A t \in Slot : t # s => Waiting(t)' = Waiting(t)
  BY HandlerMoved
<1>2. IsFiniteSet(before) /\ IsFiniteSet(after)
  <2>1. before \in SUBSET Slot /\ after \in SUBSET Slot
    OBVIOUS
  <2> HIDE DEF before, after
  <2> QED
    BY <2>1, FS_Subset, TicketsBounds
<1>3. CASE ~Waiting(s) /\ Waiting(s)'
  <2>1. after = before \cup {s} /\ s \notin before
    BY <1>1, <1>3
  <2> HIDE DEF before, after
  <2>2. Cardinality(after) = Cardinality(before) + 1
    BY <1>2, <2>1, FS_AddElement
  <2>3. Cardinality(before) \in Nat
    BY <1>2, FS_CardinalityType
  <2> QED
    BY <1>3, <2>2, <2>3 DEF before, after
<1>4. CASE Waiting(s) /\ ~Waiting(s)'
  <2>1. after = before \ {s} /\ s \in before
    BY <1>1, <1>4
  <2> HIDE DEF before, after
  <2>2. Cardinality(after) = Cardinality(before) - 1
    BY <1>2, <2>1, FS_RemoveElement
  <2>3. Cardinality(before) \in Nat
    BY <1>2, FS_CardinalityType
  <2> QED
    BY <1>4, <2>2, <2>3 DEF before, after
<1>5. CASE Waiting(s) = Waiting(s)'
  <2>1. after = before
    BY <1>1, <1>5
  <2>2. Cardinality(before) \in Nat
    BY <1>2, FS_CardinalityType
  <2> QED
    BY <1>5, <2>1, <2>2
<1>6. Waiting(s) \in BOOLEAN /\ Waiting(s)' \in BOOLEAN
  BY DEF Waiting
<1> QED
  BY <1>3, <1>4, <1>5, <1>6

HandlerType ==
    [at : {"idle", "category", "channel", "register", "reply", "welcome", "refuse", "fetch",
           "tell", "delete", "forget", "post"},
     number : 0..MaxPresses, channel : Tickets!Channel \cup {None}]

\* A handler goes on, or begins to close, and nothing else changes but what may
\* fail; one that waited for a channel may wait no more.
LEMMA Quiet ==
    ASSUME TicketsInv, NEW s \in Slot, NEW h \in HandlerType,
           handler' = [handler EXCEPT ![s] = h],
           UNCHANGED <<counter, tickets, channels, made, posts>>,
           presses' = presses \/ presses' = presses + 1, presses' \in 0..MaxPresses,
           category' \in BOOLEAN, failures' \in 0..MaxFailures, restarts' \in 0..MaxRestarts,
           ~Making(s)', ~Posting(s)',
           Opening(s)' => Opening(s) /\ h.number = handler[s].number,
           Closing(s)' => \/ Closing(s) /\ h.channel = handler[s].channel
                          \/ \E e \in tickets : e[1] = h.channel,
           Waiting(s)' => Waiting(s)
    PROVE  TicketsInv'
<1>1. handler'[s] = h /\ \A t \in Slot : t # s =>
          /\ handler'[t] = handler[t] /\ Opening(t)' = Opening(t) /\ Closing(t)' = Closing(t)
          /\ Waiting(t)' = Waiting(t) /\ Making(t)' = Making(t) /\ Posting(t)' = Posting(t)
  BY HandlerMoved
<1>2. Tickets!TypeOK'
  BY DEF TicketsInv, Tickets!TypeOK, HandlerType
<1>3. NumbersOk'
  BY <1>1 DEF TicketsInv, NumbersOk
<1>4. ChannelsOk'
  BY <1>1 DEF TicketsInv, ChannelsOk
<1>5. RemovedOk'
  BY <1>1 DEF TicketsInv, RemovedOk
<1>6. BoundsOk'
  <2> DEFINE before == {t \in Slot : Waiting(t)}
             after == {t \in Slot : Waiting(t)'}
  <2>1. Cardinality(before) \in Nat /\ Cardinality(after) <= Cardinality(before)
        /\ Cardinality(after) \in Nat
    <3>1. \/ Waiting(s) /\ ~Waiting(s)'
          \/ Waiting(s) = Waiting(s)'
      BY DEF Waiting
    <3>2. Cardinality(before) \in Nat
      BY WaitingMoved
    <3>3. Waiting(s) = Waiting(s)' => after = before
      BY WaitingMoved
    <3>4. Waiting(s) /\ ~Waiting(s)' => Cardinality(after) = Cardinality(before) - 1
      BY WaitingMoved
    <3>5. before = {} => ~Waiting(s)
      OBVIOUS
    <3>6. IsFiniteSet(before)
      BY FS_Subset, TicketsBounds
    <3> HIDE DEF before, after
    <3>7. Waiting(s) => Cardinality(before) # 0
      BY <3>5, <3>6, FS_EmptySet
    <3> QED
      BY <3>1, <3>2, <3>3, <3>4, <3>7
  <2>2. counter <= presses /\ made + Cardinality(before) <= presses
        /\ made \in Nat /\ presses \in Nat /\ counter \in Nat
    BY DEF TicketsInv, BoundsOk, ChannelsOk, Tickets!TypeOK
  <2> HIDE DEF before, after
  <2>3. counter' <= presses' /\ made' + Cardinality(after) <= presses'
    BY <2>1, <2>2
  <2> QED
    BY <2>3 DEF BoundsOk, after
<1> QED
  BY <1>2, <1>3, <1>4, <1>5, <1>6 DEF TicketsInv, LogOk, Tickets!NumbersDistinct

\* A handler that only moves on to a stage, and one that ends.
LEMMA Stages ==
    ASSUME TicketsInv, NEW s \in Slot,
           NEW stage \in {"idle", "category", "channel", "register", "reply", "welcome",
             "refuse",
                       "fetch", "tell", "delete", "forget", "post"}
    PROVE  /\ Tickets!Idle \in HandlerType
           /\ [handler[s] EXCEPT !.at = stage] \in HandlerType
           /\ [handler[s] EXCEPT !.at = stage].at = stage
           /\ [handler[s] EXCEPT !.at = stage].channel = handler[s].channel
           /\ [handler[s] EXCEPT !.at = stage].number = handler[s].number
           /\ Tickets!To(s, stage) =>
              handler' = [handler EXCEPT ![s] = [handler[s] EXCEPT !.at = stage]]
           /\ Tickets!Finish(s) => handler' = [handler EXCEPT ![s] = Tickets!Idle]
  BY TicketsBounds DEF TicketsInv, Tickets!TypeOK, HandlerType, Tickets!Idle, Tickets!To,
     Tickets!Finish

\* A handler that a press sends to a stage, with a channel and a number, and
\* one that has made its channel.
LEMMA Fields ==
    ASSUME NEW a \in {"idle", "category", "channel", "register", "reply", "welcome", "refuse",
                    "fetch", "tell", "delete", "forget", "post"},
           NEW k \in Tickets!Channel \cup {None}, NEW n \in 0..MaxPresses
    PROVE  LET h == [at |-> a, channel |-> k, number |-> n]
           IN  h \in HandlerType /\ h.at = a /\ h.channel = k /\ h.number = n
  BY DEF HandlerType

LEMMA Named ==
    ASSUME TicketsInv, NEW s \in Slot, NEW k
    PROVE  LET h == [[handler[s] EXCEPT !.at = "register"] EXCEPT !.channel = k]
           IN  /\ h.at = "register" /\ h.channel = k /\ h.number = handler[s].number
               /\ k \in Tickets!Channel => h \in HandlerType
<1>1. handler[s] \in HandlerType
  BY DEF TicketsInv, Tickets!TypeOK, HandlerType
<1>2. handler[s].number \in 0..MaxPresses
  BY <1>1 DEF HandlerType
<1> QED
  BY <1>1, <1>2 DEF HandlerType

\* The button of a channel.
LEMMA Buttoned ==
    ASSUME TicketsInv, NEW c \in channels, NEW b \in BOOLEAN
    PROVE  LET d == [c EXCEPT !.button = (@ \/ b)]
           IN  d \in [channel : Tickets!Channel, button : BOOLEAN] /\ d.channel = c.channel
<1>1. c \in [channel : Tickets!Channel, button : BOOLEAN]
  BY DEF TicketsInv, Tickets!TypeOK
<1>2. (c.button \/ b) \in BOOLEAN
  BY <1>1
<1> QED
  BY <1>1, <1>2

\* The stages of a handler say what it is.
LEMMA StageSays ==
    ASSUME NEW s \in Slot, NEW h, handler'[s] = h
    PROVE  /\ Opening(s)' = (h.at \in {"category", "channel", "register"})
           /\ Waiting(s)' = (h.at \in {"category", "channel"})
           /\ Making(s)' = (h.at = "register")
           /\ Closing(s)' = (h.at \in {"fetch", "tell", "delete", "forget", "post"})
           /\ Posting(s)' = (h.at \in {"forget", "post"})
  BY DEF Opening, Waiting, Making, Closing, Posting

\* A handler goes on to a stage it may go on to quietly, or ends.
LEMMA QuietStages ==
    ASSUME TicketsInv, NEW s \in Slot, NEW stage \in {"channel", "refuse", "welcome", "tell",
           "delete"},
           Tickets!To(s, stage) \/ Tickets!Finish(s),
           stage = "channel" => handler[s].at = "category",
           stage \in {"tell", "delete"} => Closing(s),
           UNCHANGED <<counter, tickets, channels, made, posts, presses>>,
           category' \in BOOLEAN, failures' \in 0..MaxFailures, restarts' \in 0..MaxRestarts
    PROVE  TicketsInv'
<1>0. presses' \in 0..MaxPresses
  BY DEF TicketsInv, Tickets!TypeOK
<1>1. CASE Tickets!Finish(s)
  <2>1. handler' = [handler EXCEPT ![s] = Tickets!Idle] /\ Tickets!Idle \in HandlerType
    BY <1>1, Stages
  <2>2. handler'[s] = Tickets!Idle /\ Tickets!Idle.at = "idle"
    BY <2>1, HandlerMoved DEF Tickets!Idle
  <2>3. ~Making(s)' /\ ~Posting(s)' /\ ~Opening(s)' /\ ~Closing(s)' /\ ~Waiting(s)'
    BY <2>2, StageSays
  <2> QED
    BY <1>0, <2>1, <2>3, Quiet
<1>2. CASE Tickets!To(s, stage)
  <2>1. PICK h \in HandlerType :
            /\ handler' = [handler EXCEPT ![s] = h] /\ h.at = stage
            /\ h.channel = handler[s].channel /\ h.number = handler[s].number
    <3> DEFINE k == [handler[s] EXCEPT !.at = stage]
    <3>1. /\ k \in HandlerType /\ handler' = [handler EXCEPT ![s] = k] /\ k.at = stage
          /\ k.channel = handler[s].channel /\ k.number = handler[s].number
      <4>1. stage \in {"idle", "category", "channel", "register", "reply", "welcome", "refuse",
                       "fetch", "tell", "delete", "forget", "post"}
        OBVIOUS
      <4>2. k \in HandlerType /\ k.at = stage
            /\ k.channel = handler[s].channel /\ k.number = handler[s].number
        BY <4>1, Stages
      <4>3. handler' = [handler EXCEPT ![s] = k]
        BY <1>2, <4>1, Stages
      <4> QED
        BY <4>2, <4>3
    <3> HIDE DEF k
    <3> QED
      BY <3>1
  <2>2. handler'[s] = h
    BY <2>1, HandlerMoved
  <2>3. ~Making(s)' /\ ~Posting(s)' /\ (Opening(s)' => Opening(s)) /\ (Closing(s)' =>
        Closing(s))
        /\ (Waiting(s)' => Waiting(s))
    BY <2>1, <2>2, StageSays DEF Opening, Waiting
  <2> QED
    BY <1>0, <2>1, <2>3, Quiet
<1> QED
  BY <1>1, <1>2

\* A call Discord fails.
LEMMA Failed == ASSUME TicketsInv, Tickets!Fail \/ UNCHANGED failures
                PROVE failures' \in 0..MaxFailures
  BY TicketsBounds DEF TicketsInv, Tickets!TypeOK, Tickets!Fail

LEMMA getTicketCategoryInv ==
    ASSUME TicketsInv, NEW s \in Slot, Tickets!getTicketCategory(s) PROVE TicketsInv'
<1>1. category' \in BOOLEAN /\ restarts' \in 0..MaxRestarts
      /\ (Tickets!Fail \/ UNCHANGED failures)
  BY DEF Tickets!getTicketCategory, TicketsInv, Tickets!TypeOK
<1>2. failures' \in 0..MaxFailures
  BY <1>1, Failed
<1> QED
  BY <1>1, <1>2, QuietStages DEF Tickets!getTicketCategory

LEMMA FetchInv ==
    ASSUME TicketsInv, NEW s \in Slot, Tickets!Fetch(s) PROVE TicketsInv'
<1>1. category' \in BOOLEAN /\ restarts' \in 0..MaxRestarts
      /\ (Tickets!Fail \/ UNCHANGED failures) /\ Closing(s)
  BY DEF Tickets!Fetch, TicketsInv, Tickets!TypeOK, Closing
<1>2. failures' \in 0..MaxFailures
  BY <1>1, Failed
<1>3. PICK stage \in {"tell", "delete"} : Tickets!To(s, stage) \/ Tickets!Finish(s)
  BY DEF Tickets!Fetch
<1> QED
  BY <1>1, <1>2, <1>3, QuietStages DEF Tickets!Fetch

\* The end of the process.
LEMMA EndInv ==
    ASSUME TicketsInv, Tickets!End, failures' \in 0..MaxFailures, restarts' \in 0..MaxRestarts
    PROVE  TicketsInv'
<1>1. \A s \in Slot : handler'[s] = Tickets!Idle
  BY DEF Tickets!End
<1>2. \A s \in Slot : ~Opening(s)' /\ ~Closing(s)' /\ ~Waiting(s)' /\ ~Making(s)' /\ ~Posting(s)'
  BY <1>1 DEF Tickets!Idle, Opening, Closing, Waiting, Making, Posting
<1>3. Tickets!TypeOK'
  BY TicketsBounds DEF Tickets!End, TicketsInv, Tickets!TypeOK, Tickets!Idle
<1>4. BoundsOk'
  <2>1. {s \in Slot : Waiting(s)'} = {}
    BY <1>2
  <2>2. Cardinality({s \in Slot : Waiting(s)'}) = 0
    BY <2>1, FS_EmptySet
  <2> DEFINE before == {s \in Slot : Waiting(s)}
  <2>3. Cardinality(before) \in Nat
    <3>1. IsFiniteSet(before)
      BY FS_Subset, TicketsBounds
    <3> QED
      BY <3>1, FS_CardinalityType
  <2>4. made + Cardinality(before) <= presses /\ made \in Nat /\ presses \in Nat
    BY DEF TicketsInv, BoundsOk, ChannelsOk, Tickets!TypeOK
  <2>5. UNCHANGED <<made, presses>> /\ counter' = 0
    BY DEF Tickets!End
  <2> HIDE DEF before
  <2>6. made' + 0 <= presses' /\ counter' <= presses'
    BY <2>3, <2>4, <2>5
  <2> QED
    BY <2>2, <2>6 DEF BoundsOk
<1>5. NumbersOk'
  BY <1>2 DEF Tickets!End, NumbersOk
<1>6. ChannelsOk'
  BY <1>2 DEF Tickets!End, TicketsInv, ChannelsOk
<1>7. RemovedOk'
  BY <1>2 DEF RemovedOk
<1> QED
  BY <1>3, <1>4, <1>5, <1>6, <1>7
     DEF Tickets!End, TicketsInv, LogOk, Tickets!NumbersDistinct

LEMMA ReplyTicketInv == ASSUME TicketsInv, NEW s \in Slot, Tickets!Reply(s) PROVE TicketsInv'
<1>1. CASE Tickets!Fail /\ Tickets!End /\ UNCHANGED restarts
  <2>1. failures' \in 0..MaxFailures /\ restarts' \in 0..MaxRestarts
    BY <1>1, Failed DEF TicketsInv, Tickets!TypeOK
  <2> QED
    BY <1>1, <2>1, EndInv
<1>2. CASE /\ Tickets!To(s, "welcome") \/ Tickets!Finish(s)
           /\ UNCHANGED <<counter, tickets, channels, made, category, posts, presses, failures,
                          restarts>>
  <2>1. failures' \in 0..MaxFailures /\ restarts' \in 0..MaxRestarts /\ category' \in BOOLEAN
    BY <1>2 DEF TicketsInv, Tickets!TypeOK
  <2> QED
    BY <1>2, <2>1, QuietStages
<1> QED
  BY <1>1, <1>2 DEF Tickets!Reply

\* Channels that keep their names keep what is said of them.
LEMMA SameChannels ==
    ASSUME TicketsInv, channels' \subseteq [channel : Tickets!Channel, button : BOOLEAN],
           \A c \in channels' : \E d \in channels : c.channel = d.channel,
           UNCHANGED <<counter, tickets, made, category, posts, handler, presses, failures>>,
           restarts' \in 0..MaxRestarts
    PROVE  TicketsInv'
<1>1. Tickets!TypeOK'
  BY DEF TicketsInv, Tickets!TypeOK
<1>2. NumbersOk'
  BY DEF TicketsInv, NumbersOk, Opening
<1>3. ChannelsOk'
  BY DEF TicketsInv, ChannelsOk, Making, Closing
<1>4. RemovedOk'
  BY DEF TicketsInv, RemovedOk, Posting
<1>5. LogOk'
  BY DEF TicketsInv, LogOk
<1>6. BoundsOk'
  BY DEF TicketsInv, BoundsOk, Waiting
<1> QED
  BY <1>1, <1>2, <1>3, <1>4, <1>5, <1>6 DEF TicketsInv, Tickets!NumbersDistinct

LEMMA sendTicketWelcomeMessageInv ==
    ASSUME TicketsInv, NEW s \in Slot, Tickets!sendTicketWelcomeMessage(s) PROVE TicketsInv'
<1>1. CASE Tickets!End /\ (Tickets!Fail \/ UNCHANGED failures) /\ UNCHANGED restarts
  <2>1. failures' \in 0..MaxFailures /\ restarts' \in 0..MaxRestarts
    BY <1>1, Failed DEF TicketsInv, Tickets!TypeOK
  <2> QED
    BY <1>1, <2>1, EndInv
<1>2. CASE /\ channels' = {[c EXCEPT !.button = (@ \/ c.channel = handler[s].channel)] : c \in channels}
           /\ Tickets!Finish(s)
           /\ UNCHANGED <<counter, tickets, made, category, posts, presses, failures, restarts>>
  <2>1. channels' \subseteq [channel : Tickets!Channel, button : BOOLEAN]
        /\ \A c \in channels' : \E d \in channels : c.channel = d.channel
    <3> SUFFICES ASSUME NEW e \in channels'
                 PROVE  /\ e \in [channel : Tickets!Channel, button : BOOLEAN]
                        /\ \E d \in channels : e.channel = d.channel
      OBVIOUS
    <3>1. PICK c \in channels : e = [c EXCEPT !.button = (@ \/ c.channel = handler[s].channel)]
      BY <1>2
    <3>2. (c.channel = handler[s].channel) \in BOOLEAN
      OBVIOUS
    <3> DEFINE b == (c.channel = handler[s].channel)
    <3>3. e = [c EXCEPT !.button = (@ \/ b)] /\ b \in BOOLEAN
      BY <3>1, <3>2
    <3> HIDE DEF b
    <3> QED
      BY <3>3, Buttoned
  <2>2. handler' = [handler EXCEPT ![s] = Tickets!Idle] /\ Tickets!Idle \in HandlerType
    BY <1>2, Stages
  <2>3. handler'[s] = Tickets!Idle
        /\ \A t \in Slot : t # s =>
             /\ handler'[t] = handler[t] /\ Opening(t)' = Opening(t) /\ Closing(t)' = Closing(t)
             /\ Waiting(t)' = Waiting(t) /\ Making(t)' = Making(t) /\ Posting(t)' = Posting(t)
    BY <2>2, HandlerMoved
  <2>4. ~Making(s)' /\ ~Posting(s)' /\ ~Opening(s)' /\ ~Closing(s)' /\ ~Waiting(s)' /\ ~Waiting(s)
    BY <1>2, <2>3 DEF Tickets!Idle, Opening, Closing, Waiting, Making, Posting,
                     Tickets!sendTicketWelcomeMessage
  <2>5. Tickets!TypeOK'
    BY <1>2, <2>1, <2>2 DEF TicketsInv, Tickets!TypeOK, HandlerType
  <2>6. NumbersOk'
    BY <1>2, <2>3, <2>4 DEF TicketsInv, NumbersOk
  <2>7. ChannelsOk'
    BY <1>2, <2>1, <2>3, <2>4 DEF TicketsInv, ChannelsOk
  <2>8. RemovedOk'
    BY <1>2, <2>1, <2>3, <2>4 DEF TicketsInv, RemovedOk
  <2>9. LogOk'
    BY <1>2, <2>1 DEF TicketsInv, LogOk
  <2>10. BoundsOk'
    <3>1. {t \in Slot : Waiting(t)'} = {t \in Slot : Waiting(t)}
      BY <2>3, <2>4
    <3> QED
      BY <1>2, <3>1 DEF TicketsInv, BoundsOk
  <2> QED
    BY <1>2, <2>5, <2>6, <2>7, <2>8, <2>9, <2>10 DEF TicketsInv, Tickets!NumbersDistinct
<1> QED
  BY <1>1, <1>2 DEF Tickets!sendTicketWelcomeMessage

-----------------------------------------------------------------------------
LEMMA handleTicketCreateInv ==
    ASSUME TicketsInv, NEW s \in Slot, Tickets!handleTicketCreate(s) PROVE TicketsInv'
<1>1. PICK stage \in {"category", "channel"} :
          /\ counter' = counter + 1
          /\ handler' = [handler EXCEPT ![s] = [at |-> stage, number |-> counter + 1,
             channel |-> None]]
  BY DEF Tickets!handleTicketCreate, Tickets!TakeNumber
<1> DEFINE h == [at |-> stage, number |-> counter + 1, channel |-> None]
<1>u. /\ UNCHANGED <<tickets, channels, made, category, posts, failures, restarts>>
      /\ presses < MaxPresses /\ presses' = presses + 1 /\ handler[s].at = "idle"
  BY DEF Tickets!handleTicketCreate, Tickets!Free
<1>2. handler'[s] = h
      /\ \A t \in Slot : t # s =>
           /\ handler'[t] = handler[t] /\ Opening(t)' = Opening(t) /\ Closing(t)' = Closing(t)
           /\ Waiting(t)' = Waiting(t) /\ Making(t)' = Making(t) /\ Posting(t)' = Posting(t)
  BY <1>1, HandlerMoved
<1>3. ~Making(s)' /\ ~Posting(s)' /\ ~Closing(s)' /\ Waiting(s)' /\ ~Waiting(s)
      /\ handler'[s].number = counter + 1
  BY <1>2, <1>u DEF Closing, Waiting, Making, Posting
<1>4. counter \in Nat /\ counter <= presses /\ presses \in Nat /\ made \in Nat
  BY DEF TicketsInv, NumbersOk, ChannelsOk, BoundsOk, Tickets!TypeOK
<1>5. BoundsOk'
  <2> DEFINE before == {t \in Slot : Waiting(t)}
             after == {t \in Slot : Waiting(t)'}
  <2>1. Cardinality(before) \in Nat /\ Cardinality(after) = Cardinality(before) + 1
    BY <1>1, <1>3, WaitingMoved
  <2>2. made + Cardinality(before) <= presses
    BY DEF TicketsInv, BoundsOk
  <2> HIDE DEF before, after
  <2>3. counter' <= presses' /\ made' + Cardinality(after) <= presses'
    BY <1>1, <1>4, <1>u, <2>1, <2>2
  <2> QED
    BY <2>3 DEF BoundsOk, after
<1>6. Tickets!TypeOK'
  <2>1. presses' \in 0..MaxPresses /\ counter' \in 0..MaxPresses /\ counter + 1 \in 0..MaxPresses
    BY <1>1, <1>4, <1>u, TicketsBounds
  <2>2. h \in HandlerType
    BY <2>1 DEF HandlerType
  <2>3. handler' \in [Slot -> HandlerType]
    BY <1>1, <2>2 DEF TicketsInv, Tickets!TypeOK, HandlerType
  <2> QED
    BY <1>u, <2>1, <2>3 DEF TicketsInv, Tickets!TypeOK, HandlerType
<1>7. NumbersOk'
  <2>1. \A t \in Slot : t # s /\ Opening(t)' =>
            handler'[t].number \in 1..counter' /\ handler'[t].number # counter + 1
    BY <1>1, <1>2, <1>4 DEF TicketsInv, NumbersOk
  <2>2. \A e \in tickets : e[2] \in 1..counter' /\ e[2] # counter + 1
    BY <1>1, <1>4 DEF TicketsInv, NumbersOk
  <2>3. counter' \in Nat /\ counter + 1 \in 1..counter'
    BY <1>1, <1>4
  <2>4. \A t \in Slot : t # s /\ Opening(t)' =>
            /\ \A e \in tickets : e[2] # handler'[t].number
            /\ \A v \in Slot : v # s /\ v # t /\ Opening(v)' =>
               handler'[v].number # handler'[t].number
    BY <1>2 DEF TicketsInv, NumbersOk
  <2> QED
    BY <1>2, <1>3, <1>u, <2>1, <2>2, <2>3, <2>4 DEF NumbersOk
<1>8. ChannelsOk'
  BY <1>2, <1>3, <1>u DEF TicketsInv, ChannelsOk
<1>9. RemovedOk'
  BY <1>2, <1>3, <1>u DEF TicketsInv, RemovedOk
<1> QED
  BY <1>u, <1>5, <1>6, <1>7, <1>8, <1>9 DEF TicketsInv, LogOk, Tickets!NumbersDistinct

LEMMA handleTicketCloseInv ==
    ASSUME TicketsInv, NEW s \in Slot, Tickets!handleTicketClose(s) PROVE TicketsInv'
<1>1. PICK c \in channels :
          handler' = IF Tickets!Entry(c.channel) = {} THEN handler
                     ELSE [handler EXCEPT ![s] =
                              [at |-> "fetch", channel |-> c.channel,
                               number |-> (CHOOSE e \in Tickets!Entry(c.channel) : TRUE)[2]]]
  BY DEF Tickets!handleTicketClose
<1>u. /\ UNCHANGED <<counter, tickets, channels, made, category, posts, failures, restarts>>
      /\ presses < MaxPresses /\ presses' = presses + 1 /\ handler[s].at = "idle"
  BY DEF Tickets!handleTicketClose, Tickets!Free
<1>2. presses' \in 0..MaxPresses /\ category' \in BOOLEAN /\ failures' \in 0..MaxFailures
      /\ restarts' \in 0..MaxRestarts
  <2>1. presses \in 0..MaxPresses
    BY DEF TicketsInv, Tickets!TypeOK
  <2>2. presses' \in 0..MaxPresses
    BY <1>u, <2>1, TicketsBounds
  <2> QED
    BY <1>u, <2>2 DEF TicketsInv, Tickets!TypeOK
<1>3. CASE Tickets!Entry(c.channel) = {}
  <2>1. handler' = [handler EXCEPT ![s] = handler[s]] /\ handler[s] \in HandlerType
    BY <1>1, <1>3 DEF TicketsInv, Tickets!TypeOK, HandlerType
  <2>2. handler'[s] = handler[s]
    BY <1>1, <1>3
  <2>3. ~Making(s)' /\ ~Posting(s)' /\ ~Opening(s)' /\ ~Closing(s)' /\ ~Waiting(s)'
    BY <1>u, <2>2 DEF Opening, Closing, Waiting, Making, Posting
  <2> QED
    BY <1>2, <1>u, <2>1, <2>3, Quiet
<1>4. CASE Tickets!Entry(c.channel) # {}
  <2>1. PICK e \in tickets : /\ e[1] = c.channel
                             /\ e = CHOOSE d \in Tickets!Entry(c.channel) : TRUE
    BY <1>4 DEF Tickets!Entry
  <2>2. e[2] \in 0..MaxPresses /\ c.channel \in Tickets!Channel
    BY <2>1, TicketsBounds DEF TicketsInv, Tickets!TypeOK
  <2>3. PICK h : /\ h \in HandlerType /\ h.at = "fetch" /\ h.channel = c.channel
                 /\ handler' = [handler EXCEPT ![s] = h]
    <3> DEFINE k == [at |-> "fetch", channel |-> c.channel, number |-> e[2]]
    <3>1. handler' = [handler EXCEPT ![s] = k]
      BY <1>1, <1>4, <2>1
    <3>2. k \in HandlerType /\ k.at = "fetch" /\ k.channel = c.channel
      BY <2>2, Fields
    <3> HIDE DEF k
    <3> QED
      BY <3>1, <3>2
  <2>4. h \in HandlerType /\ h.at = "fetch" /\ h.channel = e[1]
    BY <2>1, <2>3
  <2>5. handler'[s] = h
    BY <2>3, HandlerMoved
  <2>6. ~Making(s)' /\ ~Posting(s)' /\ ~Opening(s)' /\ ~Waiting(s)'
    BY <2>4, <2>5 DEF Opening, Waiting, Making, Posting
  <2> QED
    BY <1>2, <1>u, <2>1, <2>3, <2>4, <2>6, Quiet
<1> QED
  BY <1>3, <1>4

-----------------------------------------------------------------------------
LEMMA createTicketChannelInv ==
    ASSUME TicketsInv, NEW s \in Slot, Tickets!createTicketChannel(s) PROVE TicketsInv'
<1>u. UNCHANGED <<counter, tickets, category, posts, presses, restarts>>
      /\ handler[s].at = "channel" /\ Waiting(s) /\ Opening(s)
  BY DEF Tickets!createTicketChannel, Waiting, Opening
<1>1. CASE Tickets!Fail /\ Tickets!To(s, "refuse") /\ UNCHANGED <<made, channels>>
  <2>1. failures' \in 0..MaxFailures /\ restarts' \in 0..MaxRestarts /\ category' \in BOOLEAN
    BY <1>1, <1>u, Failed DEF TicketsInv, Tickets!TypeOK
  <2> QED
    BY <1>1, <1>u, <2>1, QuietStages
<1>2. CASE /\ made' = made + 1
           /\ channels' = channels \union {[channel |-> made + 1, button |-> FALSE]}
           /\ handler' = [handler EXCEPT ![s].at = "register", ![s].channel = made + 1]
           /\ UNCHANGED failures
  <2>1. made \in Nat /\ presses \in 0..MaxPresses /\ MaxPresses \in Nat
    BY TicketsBounds DEF TicketsInv, ChannelsOk, Tickets!TypeOK
  <2>2. PICK h : /\ h.at = "register" /\ h.number = handler[s].number /\ h.channel = made + 1
                 /\ made + 1 \in Tickets!Channel => h \in HandlerType
                 /\ handler' = [handler EXCEPT ![s] = h]
    <3> DEFINE k == [[handler[s] EXCEPT !.at = "register"] EXCEPT !.channel = made + 1]
    <3>1. handler' = [handler EXCEPT ![s] = k]
      BY <1>2 DEF TicketsInv, Tickets!TypeOK
    <3>2. /\ k.at = "register" /\ k.channel = made + 1 /\ k.number = handler[s].number
          /\ made + 1 \in Tickets!Channel => k \in HandlerType
      BY Named
    <3> HIDE DEF k
    <3> QED
      BY <3>1, <3>2
  <2>3. handler'[s] = h /\ h.at = "register" /\ h.number = handler[s].number /\ h.channel = made + 1
        /\ \A t \in Slot : t # s =>
             /\ handler'[t] = handler[t] /\ Opening(t)' = Opening(t) /\ Closing(t)' = Closing(t)
             /\ Waiting(t)' = Waiting(t) /\ Making(t)' = Making(t) /\ Posting(t)' = Posting(t)
    BY <2>2, HandlerMoved
  <2>4. Making(s)' /\ Opening(s)' /\ ~Posting(s)' /\ ~Closing(s)' /\ ~Waiting(s)'
    BY <2>3 DEF Opening, Closing, Waiting, Making, Posting
  <2>5. BoundsOk' /\ made + 1 <= MaxPresses
    <3> DEFINE before == {t \in Slot : Waiting(t)}
               after == {t \in Slot : Waiting(t)'}
    <3>1. /\ Cardinality(before) \in Nat /\ Cardinality(after) = Cardinality(before) - 1
          /\ Cardinality(after) \in Nat
      <4>1. Cardinality(before) \in Nat /\ Cardinality(after) = Cardinality(before) - 1
        BY <1>u, <2>2, <2>4, WaitingMoved
      <4>2. IsFiniteSet(after)
        BY FS_Subset, TicketsBounds
      <4> HIDE DEF before, after
      <4> QED
        BY <4>1, <4>2, FS_CardinalityType
    <3>2. made + Cardinality(before) <= presses /\ counter <= presses
      BY DEF TicketsInv, BoundsOk
    <3> HIDE DEF before, after
    <3>3. made' + Cardinality(after) <= presses /\ made + 1 <= MaxPresses
      BY <1>2, <2>1, <3>1, <3>2
    <3> QED
      BY <1>u, <3>2, <3>3 DEF BoundsOk, after
  <2>6. made + 1 \in 1..MaxPresses /\ made' \in 0..MaxPresses /\ made' \in Nat
        /\ \A k \in 1..made : k \in 1..made' /\ k # made + 1
    BY <1>2, <2>1, <2>5
  <2>7. Tickets!TypeOK'
    <3>1. handler[s] \in HandlerType /\ made + 1 \in Tickets!Channel
      BY <2>6 DEF TicketsInv, Tickets!TypeOK, HandlerType, Tickets!Channel
    <3>2. h \in HandlerType
      BY <2>2, <3>1
    <3>3. handler' \in [Slot -> HandlerType]
      BY <2>2, <3>2 DEF TicketsInv, Tickets!TypeOK, HandlerType
    <3>4. channels' \subseteq [channel : Tickets!Channel, button : BOOLEAN]
      <4>1. [channel |-> made + 1, button |-> FALSE] \in [channel : Tickets!Channel,
            button : BOOLEAN]
        BY <3>1
      <4> QED
        BY <1>2, <4>1 DEF TicketsInv, Tickets!TypeOK
    <3> QED
      BY <1>2, <1>u, <2>6, <3>3, <3>4 DEF TicketsInv, Tickets!TypeOK, HandlerType
  <2>8. NumbersOk'
    BY <1>u, <2>3, <2>4 DEF TicketsInv, NumbersOk
  <2>9. ChannelsOk'
    <3>1. \A c \in channels' : c.channel \in 1..made'
      BY <1>2, <2>6 DEF TicketsInv, ChannelsOk
    <3>2. \A t \in Slot : t # s /\ (Making(t)' \/ Closing(t)') =>
             handler'[t].channel \in 1..made' /\ handler'[t].channel # made + 1
      BY <2>3, <2>6 DEF TicketsInv, ChannelsOk
    <3>3. /\ \A e \in tickets : e[1] \in 1..made' /\ e[1] # made + 1
          /\ \A i \in DOMAIN posts : posts[i] \in 1..made' /\ posts[i] # made + 1
      BY <2>6 DEF TicketsInv, ChannelsOk
    <3>4. handler'[s].channel = made + 1 /\ made + 1 \in 1..made'
      BY <1>2, <2>1, <2>3
    <3>5. \A t \in Slot : t # s /\ Making(t)' =>
             /\ \A v \in Slot : v # s /\ (Making(v)' \/ Closing(v)') =>
                  v = t \/ handler'[v].channel # handler'[t].channel
             /\ \A e \in tickets : e[1] # handler'[t].channel
             /\ \A i \in DOMAIN posts : posts[i] # handler'[t].channel
      BY <2>3 DEF TicketsInv, ChannelsOk
    <3> QED
      BY <1>u, <2>4, <2>6, <3>1, <3>2, <3>3, <3>4, <3>5 DEF ChannelsOk
  <2>10. RemovedOk'
    <3>1. \A t \in Slot : Posting(t)' =>
             t # s /\ Posting(t) /\ handler'[t] = handler[t] /\ handler[t].channel # made + 1
      BY <2>3, <2>4, <2>6 DEF TicketsInv, ChannelsOk, Posting, Closing
    <3>2. \A c \in channels' : c \in channels \/ c.channel = made + 1
      BY <1>2
    <3> QED
      BY <1>u, <3>1, <3>2 DEF TicketsInv, RemovedOk
  <2>11. LogOk'
    <3>1. \A i \in DOMAIN posts : posts[i] # made + 1
      BY <2>6 DEF TicketsInv, ChannelsOk
    <3> QED
      BY <1>2, <1>u, <3>1 DEF TicketsInv, LogOk
  <2> QED
    BY <1>u, <2>5, <2>7, <2>8, <2>9, <2>10, <2>11 DEF TicketsInv, Tickets!NumbersDistinct
<1> QED
  BY <1>1, <1>2 DEF Tickets!createTicketChannel

\* A list without repetition of numbers up to n is no longer than n.
LEMMA NoMore ==
    ASSUME NEW n \in Nat, NEW l \in Nat, NEW f,
           \A i \in 1..l : f[i] \in 1..n,
           \A i, j \in 1..l : f[i] = f[j] => i = j
    PROVE  l <= n
<1> DEFINE S == 1..l
           T == 1..n
           g == [i \in S |-> f[i]]
<1>1. g \in [S -> T] /\ \A x, y \in S : g[x] = g[y] => x = y
  OBVIOUS
<1>2. IsFiniteSet(S) /\ Cardinality(S) = l
  <2>1. IsFiniteSet(1..l) /\ Cardinality(1..l) = IF 1 > l THEN 0 ELSE l - 1 + 1
    BY FS_Interval, Z3
  <2> QED
    BY <2>1
<1>3. IsFiniteSet(T) /\ Cardinality(T) = n
  <2>1. IsFiniteSet(1..n) /\ Cardinality(1..n) = IF 1 > n THEN 0 ELSE n - 1 + 1
    BY FS_Interval, Z3
  <2> QED
    BY <2>1
<1> HIDE DEF S, T, g
<1>4. ~(Cardinality(T) < Cardinality(S))
  BY <1>1, <1>2, <1>3, FS_PigeonHole
<1> QED
  BY <1>2, <1>3, <1>4

LEMMA RegisterTicketInv == ASSUME TicketsInv, NEW s \in Slot, Tickets!Register(s)
  PROVE TicketsInv'
<1>u. /\ UNCHANGED <<counter, channels, made, category, posts, presses, failures, restarts>>
      /\ handler[s].at = "register" /\ Making(s) /\ Opening(s) /\ ~Waiting(s)
      /\ tickets' = tickets \union {<<handler[s].channel, handler[s].number>>}
      /\ Tickets!To(s, "reply")
  BY DEF Tickets!Register, Waiting, Opening, Making
<1>1. PICK h \in HandlerType : h.at = "reply" /\ handler' = [handler EXCEPT ![s] = h]
  <2> DEFINE k == [handler[s] EXCEPT !.at = "reply"]
  <2>1. k \in HandlerType /\ k.at = "reply"
    BY Stages
  <2>2. handler' = [handler EXCEPT ![s] = k]
    BY <1>u, Stages
  <2> HIDE DEF k
  <2> QED
    BY <2>1, <2>2
<1>2. handler'[s] = h
      /\ \A t \in Slot : t # s =>
           /\ handler'[t] = handler[t] /\ Opening(t)' = Opening(t) /\ Closing(t)' = Closing(t)
           /\ Waiting(t)' = Waiting(t) /\ Making(t)' = Making(t) /\ Posting(t)' = Posting(t)
  BY <1>1, HandlerMoved
<1>3. ~Making(s)' /\ ~Posting(s)' /\ ~Opening(s)' /\ ~Closing(s)' /\ ~Waiting(s)'
  BY <1>1, <1>2 DEF Opening, Closing, Waiting, Making, Posting
<1> DEFINE k == handler[s].channel
           n == handler[s].number
<1>4. /\ k \in 1..made /\ n \in 1..counter
      /\ \A t \in Slot : t # s /\ (Making(t) \/ Closing(t)) => handler[t].channel # k
      /\ \A t \in Slot : t # s /\ Opening(t) => handler[t].number # n
      /\ \A e \in tickets : e[1] # k /\ e[2] # n
      /\ \A i \in DOMAIN posts : posts[i] # k
  BY <1>u DEF TicketsInv, ChannelsOk, NumbersOk
<1>5. /\ \A e \in tickets' : e \in tickets \/ e = <<k, n>>
      /\ \A e \in tickets' : e \in tickets \/ (e[1] = k /\ e[2] = n)
  BY <1>u
<1> HIDE DEF k, n
<1>6. Tickets!TypeOK'
  <2>1. made \in 0..MaxPresses /\ counter \in 0..MaxPresses /\ MaxPresses \in Nat
    BY TicketsBounds DEF TicketsInv, Tickets!TypeOK
  <2>2. k \in Tickets!Channel /\ n \in 1..MaxPresses
    BY <1>4, <2>1 DEF Tickets!Channel
  <2>3. tickets' \subseteq (Tickets!Channel \X (1..MaxPresses))
    BY <1>5, <2>2 DEF TicketsInv, Tickets!TypeOK
  <2>4. handler' \in [Slot -> HandlerType]
    BY <1>1 DEF TicketsInv, Tickets!TypeOK, HandlerType
  <2> QED
    BY <1>u, <2>3, <2>4 DEF TicketsInv, Tickets!TypeOK, HandlerType
<1>7. NumbersOk'
  BY <1>u, <1>2, <1>3, <1>4, <1>5 DEF TicketsInv, NumbersOk
<1>8. ChannelsOk'
  <2>1. \A e \in tickets' : e[1] \in 1..made
    BY <1>4, <1>5 DEF TicketsInv, ChannelsOk
  <2>2. \A t \in Slot : Making(t)' => t # s /\ Making(t) /\ handler'[t] = handler[t]
                           /\ handler[t].channel # k
    BY <1>2, <1>3, <1>4
  <2>3. \A t \in Slot : Making(t)' => \A e \in tickets' : e[1] # handler'[t].channel
    BY <1>5, <2>2 DEF TicketsInv, ChannelsOk
  <2> QED
    BY <1>u, <1>2, <1>3, <2>1, <2>2, <2>3 DEF TicketsInv, ChannelsOk
<1>9. RemovedOk'
  <2>1. \A t \in Slot : Posting(t)' => t # s /\ Posting(t) /\ handler'[t] = handler[t]
                           /\ handler[t].channel # k
    BY <1>2, <1>3, <1>4 DEF Posting, Closing
  <2>2. \A t \in Slot : Posting(t)' /\ handler'[t].at = "post" =>
           \A e \in tickets' : e[1] # handler'[t].channel
    BY <1>5, <2>1 DEF TicketsInv, RemovedOk
  <2> QED
    BY <1>u, <2>1, <2>2 DEF TicketsInv, RemovedOk
<1>10. LogOk'
  BY <1>u, <1>4, <1>5 DEF TicketsInv, LogOk
<1>11. BoundsOk'
  <2>1. {t \in Slot : Waiting(t)'} = {t \in Slot : Waiting(t)}
    BY <1>u, <1>2, <1>3
  <2> QED
    BY <1>u, <2>1 DEF TicketsInv, BoundsOk
<1>12. Tickets!NumbersDistinct'
  <2>1. ASSUME NEW d \in tickets', NEW e \in tickets', d # e
        PROVE  d[1] # e[1] /\ d[2] # e[2]
    BY <1>4, <1>5, <2>1 DEF TicketsInv, Tickets!NumbersDistinct
  <2> QED
    BY <2>1 DEF Tickets!NumbersDistinct
<1> QED
  BY <1>6, <1>7, <1>8, <1>9, <1>10, <1>11, <1>12 DEF TicketsInv

LEMMA DeleteChannelInv ==
    ASSUME TicketsInv, NEW s \in Slot, Tickets!DeleteChannel(s) PROVE TicketsInv'
<1>u. /\ UNCHANGED <<counter, tickets, made, category, posts, presses, restarts>>
      /\ handler[s].at = "delete" /\ Closing(s) /\ ~Waiting(s)
  BY DEF Tickets!DeleteChannel, Closing, Waiting
<1>1. CASE Tickets!Finish(s) /\ (Tickets!Fail \/ UNCHANGED failures) /\ UNCHANGED channels
  <2>1. failures' \in 0..MaxFailures /\ restarts' \in 0..MaxRestarts /\ category' \in BOOLEAN
    BY <1>1, <1>u, Failed DEF TicketsInv, Tickets!TypeOK
  <2> QED
    BY <1>1, <1>u, <2>1, QuietStages
<1>2. CASE /\ ~Tickets!Refused(s)
           /\ channels' = {c \in channels : c.channel # handler[s].channel}
           /\ Tickets!To(s, "forget") /\ UNCHANGED failures
  <2>1. PICK h \in HandlerType : /\ h.at = "forget" /\ h.channel = handler[s].channel
                                 /\ handler' = [handler EXCEPT ![s] = h]
    <3> DEFINE k == [handler[s] EXCEPT !.at = "forget"]
    <3>1. k \in HandlerType /\ k.at = "forget" /\ k.channel = handler[s].channel
      BY Stages
    <3>2. handler' = [handler EXCEPT ![s] = k]
      BY <1>2, Stages
    <3> HIDE DEF k
    <3> QED
      BY <3>1, <3>2
  <2>2. handler'[s] = h
        /\ \A t \in Slot : t # s =>
             /\ handler'[t] = handler[t] /\ Opening(t)' = Opening(t) /\ Closing(t)' = Closing(t)
             /\ Waiting(t)' = Waiting(t) /\ Making(t)' = Making(t) /\ Posting(t)' = Posting(t)
    BY <2>1, HandlerMoved
  <2>3. ~Making(s)' /\ ~Opening(s)' /\ Closing(s)' /\ ~Waiting(s)' /\ Posting(s)'
        /\ handler'[s].at = "forget" /\ handler'[s].channel = handler[s].channel
    BY <2>1, <2>2 DEF Opening, Closing, Waiting, Making, Posting
  \* The channel was there, so that no one else has removed it.
  <2>4. PICK d \in channels : d.channel = handler[s].channel
    BY <1>2 DEF Tickets!Refused, Tickets!Exists
  <2>5. /\ \A i \in DOMAIN posts : posts[i] # handler[s].channel
        /\ \A t \in Slot : Posting(t) => handler[t].channel # handler[s].channel
    BY <2>4 DEF TicketsInv, LogOk, RemovedOk
  <2>6. Tickets!TypeOK'
    BY <1>2, <1>u, <2>1 DEF TicketsInv, Tickets!TypeOK, HandlerType
  <2>7. NumbersOk'
    BY <1>u, <2>2, <2>3 DEF TicketsInv, NumbersOk
  <2>8. ChannelsOk'
    BY <1>2, <1>u, <2>2, <2>3 DEF TicketsInv, ChannelsOk
  <2>9. RemovedOk'
    BY <1>2, <1>u, <2>2, <2>3, <2>5 DEF TicketsInv, RemovedOk
  <2>10. LogOk'
    BY <1>2, <1>u DEF TicketsInv, LogOk
  <2>11. BoundsOk'
    <3>1. {t \in Slot : Waiting(t)'} = {t \in Slot : Waiting(t)}
      BY <1>u, <2>2, <2>3
    <3> QED
      BY <1>u, <3>1 DEF TicketsInv, BoundsOk
  <2> QED
    BY <1>u, <2>6, <2>7, <2>8, <2>9, <2>10, <2>11 DEF TicketsInv, Tickets!NumbersDistinct
<1> QED
  BY <1>1, <1>2 DEF Tickets!DeleteChannel

LEMMA ForgetInv == ASSUME TicketsInv, NEW s \in Slot, Tickets!Forget(s) PROVE TicketsInv'
<1>u. /\ UNCHANGED <<counter, channels, made, category, posts, presses, failures, restarts>>
      /\ handler[s].at = "forget" /\ Closing(s) /\ Posting(s) /\ ~Waiting(s)
      /\ tickets' = {e \in tickets : e[1] # handler[s].channel}
      /\ Tickets!To(s, "post")
  BY DEF Tickets!Forget, Tickets!Entry, Closing, Posting, Waiting
<1>1. PICK h \in HandlerType : /\ h.at = "post" /\ h.channel = handler[s].channel
                               /\ handler' = [handler EXCEPT ![s] = h]
  <2> DEFINE k == [handler[s] EXCEPT !.at = "post"]
  <2>1. k \in HandlerType /\ k.at = "post" /\ k.channel = handler[s].channel
    BY Stages
  <2>2. handler' = [handler EXCEPT ![s] = k]
    BY <1>u, Stages
  <2> HIDE DEF k
  <2> QED
    BY <2>1, <2>2
<1>2. handler'[s] = h
      /\ \A t \in Slot : t # s =>
           /\ handler'[t] = handler[t] /\ Opening(t)' = Opening(t) /\ Closing(t)' = Closing(t)
           /\ Waiting(t)' = Waiting(t) /\ Making(t)' = Making(t) /\ Posting(t)' = Posting(t)
  BY <1>1, HandlerMoved
<1>3. ~Making(s)' /\ ~Opening(s)' /\ Closing(s)' /\ ~Waiting(s)' /\ Posting(s)'
      /\ handler'[s].at = "post" /\ handler'[s].channel = handler[s].channel
  BY <1>1, <1>2 DEF Opening, Closing, Waiting, Making, Posting
<1>4. tickets' \subseteq tickets /\ \A e \in tickets' : e[1] # handler[s].channel
  BY <1>u
<1>5. Tickets!TypeOK'
  BY <1>u, <1>1, <1>4 DEF TicketsInv, Tickets!TypeOK, HandlerType
<1>6. NumbersOk'
  BY <1>u, <1>2, <1>3, <1>4 DEF TicketsInv, NumbersOk
<1>7. ChannelsOk'
  BY <1>u, <1>2, <1>3, <1>4 DEF TicketsInv, ChannelsOk
<1>8. RemovedOk'
  BY <1>u, <1>2, <1>3, <1>4 DEF TicketsInv, RemovedOk
<1>9. LogOk'
  BY <1>u, <1>4 DEF TicketsInv, LogOk
<1>10. BoundsOk'
  <2>1. {t \in Slot : Waiting(t)'} = {t \in Slot : Waiting(t)}
    BY <1>u, <1>2, <1>3
  <2> QED
    BY <1>u, <2>1 DEF TicketsInv, BoundsOk
<1>11. Tickets!NumbersDistinct'
  BY <1>4 DEF TicketsInv, Tickets!NumbersDistinct
<1> QED
  BY <1>5, <1>6, <1>7, <1>8, <1>9, <1>10, <1>11 DEF TicketsInv

LEMMA saveTranscriptInv ==
    ASSUME TicketsInv, NEW s \in Slot, Tickets!saveTranscript(s) PROVE TicketsInv'
<1>u. /\ UNCHANGED <<counter, tickets, channels, made, category, presses, restarts>>
      /\ handler[s].at = "post" /\ Closing(s) /\ Posting(s) /\ ~Waiting(s)
      /\ Tickets!Finish(s)
  BY DEF Tickets!saveTranscript, Closing, Posting, Waiting
<1>1. CASE Tickets!Fail /\ UNCHANGED posts
  <2>1. failures' \in 0..MaxFailures /\ restarts' \in 0..MaxRestarts /\ category' \in BOOLEAN
    BY <1>1, <1>u, Failed DEF TicketsInv, Tickets!TypeOK
  <2> QED
    BY <1>1, <1>u, <2>1, QuietStages
<1>2. CASE posts' = Append(posts, handler[s].channel) /\ UNCHANGED failures
  <2>1. handler' = [handler EXCEPT ![s] = Tickets!Idle] /\ Tickets!Idle \in HandlerType
    BY <1>u, Stages
  <2>2. handler'[s] = Tickets!Idle
        /\ \A t \in Slot : t # s =>
             /\ handler'[t] = handler[t] /\ Opening(t)' = Opening(t) /\ Closing(t)' = Closing(t)
             /\ Waiting(t)' = Waiting(t) /\ Making(t)' = Making(t) /\ Posting(t)' = Posting(t)
    BY <2>1, HandlerMoved
  <2>3. ~Making(s)' /\ ~Posting(s)' /\ ~Opening(s)' /\ ~Closing(s)' /\ ~Waiting(s)'
    BY <2>2 DEF Tickets!Idle, Opening, Closing, Waiting, Making, Posting
  <2> DEFINE k == handler[s].channel
  <2>4. /\ k \in 1..made
        /\ \A i \in DOMAIN posts : posts[i] # k
        /\ \A c \in channels : c.channel # k
        /\ \A e \in tickets : e[1] # k
        /\ \A t \in Slot : t # s /\ Posting(t) => handler[t].channel # k
        /\ \A t \in Slot : Making(t) => handler[t].channel # k
    BY <1>u DEF TicketsInv, ChannelsOk, RemovedOk, Posting, Making
  <2>5. made \in 0..MaxPresses /\ MaxPresses \in Nat /\ made \in Nat /\ posts \in Seq(Tickets!Channel)
    BY TicketsBounds DEF TicketsInv, ChannelsOk, Tickets!TypeOK
  <2>6. k \in Tickets!Channel /\ posts' = Append(posts, k)
    BY <1>2, <2>4, <2>5 DEF Tickets!Channel
  <2> HIDE DEF k
  <2>7. /\ posts' \in Seq(Tickets!Channel) /\ Len(posts') = Len(posts) + 1
        /\ DOMAIN posts' = 1..Len(posts) + 1 /\ DOMAIN posts = 1..Len(posts)
        /\ posts'[Len(posts) + 1] = k
        /\ \A i \in 1..Len(posts) : posts'[i] = posts[i]
        /\ Len(posts) \in Nat
    BY <2>5, <2>6
  <2>8. \A i \in DOMAIN posts' : \/ i = Len(posts) + 1 /\ posts'[i] = k
                                 \/ i \in DOMAIN posts /\ posts'[i] = posts[i]
    BY <2>7
  <2>9. LogOk'
    <3>1. \A i, j \in DOMAIN posts' : posts'[i] = posts'[j] => i = j
      BY <2>4, <2>8 DEF TicketsInv, LogOk
    <3>2. \A i \in DOMAIN posts' : /\ \A c \in channels : c.channel # posts'[i]
                                   /\ \A e \in tickets : e[1] # posts'[i]
      BY <2>4, <2>8 DEF TicketsInv, LogOk
    <3> QED
      BY <1>u, <3>1, <3>2 DEF LogOk
  <2>10. ChannelsOk'
    <3>1. \A i \in DOMAIN posts' : posts'[i] \in 1..made
      BY <2>4, <2>8 DEF TicketsInv, ChannelsOk
    <3>2. \A t \in Slot : Making(t)' => t # s /\ Making(t) /\ handler'[t] = handler[t]
      BY <2>2, <2>3
    <3>3. \A t \in Slot : Making(t)' => \A i \in DOMAIN posts' : posts'[i] # handler'[t].channel
      BY <2>4, <2>8, <3>2 DEF TicketsInv, ChannelsOk
    <3> QED
      BY <1>u, <2>2, <2>3, <3>1, <3>2, <3>3 DEF TicketsInv, ChannelsOk
  <2>11. RemovedOk'
    <3>1. \A t \in Slot : Posting(t)' => t # s /\ Posting(t) /\ handler'[t] = handler[t]
      BY <2>2, <2>3
    <3>2. \A t \in Slot : Posting(t)' =>
          \A i \in DOMAIN posts' : posts'[i] # handler'[t].channel
      BY <2>4, <2>8, <3>1 DEF TicketsInv, RemovedOk
    <3> QED
      BY <1>u, <2>2, <2>3, <3>1, <3>2 DEF TicketsInv, RemovedOk
  <2>12. NumbersOk'
    BY <1>u, <2>2, <2>3 DEF TicketsInv, NumbersOk
  <2>13. BoundsOk'
    <3>1. {t \in Slot : Waiting(t)'} = {t \in Slot : Waiting(t)}
      BY <1>u, <2>2, <2>3
    <3> QED
      BY <1>u, <3>1 DEF TicketsInv, BoundsOk
  \* As many transcripts as there are channels, at most.
  <2>14. Len(posts') <= MaxPresses
    <3>1. \A i \in 1..Len(posts') : posts'[i] \in 1..MaxPresses
      BY <2>5, <2>7 DEF Tickets!Channel
    <3>2. \A i, j \in 1..Len(posts') : posts'[i] = posts'[j] => i = j
      BY <2>9, <2>7 DEF LogOk
    <3>3. Len(posts') \in Nat
      BY <2>7
    <3> QED
      BY <2>5, <3>1, <3>2, <3>3, NoMore
  <2>15. Tickets!TypeOK'
    BY <1>u, <1>2, <2>1, <2>7, <2>14 DEF TicketsInv, Tickets!TypeOK, HandlerType
  <2> QED
    BY <1>u, <2>9, <2>10, <2>11, <2>12, <2>13, <2>15 DEF TicketsInv, Tickets!NumbersDistinct
<1> QED
  BY <1>u, <1>1, <1>2 DEF Tickets!saveTranscript

LEMMA TicketsRestartInv == ASSUME TicketsInv, Tickets!Restart PROVE TicketsInv'
<1>1. restarts' \in 0..MaxRestarts
  BY TicketsBounds DEF Tickets!Restart, TicketsInv, Tickets!TypeOK
<1>2. CASE Tickets!End /\ UNCHANGED failures
  BY <1>1, <1>2, EndInv DEF TicketsInv, Tickets!TypeOK
<1>3. CASE /\ \E c \in channels : channels' = channels \ {c}
           /\ UNCHANGED <<counter, tickets, made, category, posts, handler, presses, failures>>
  <2>1. channels' \subseteq [channel : Tickets!Channel, button : BOOLEAN]
        /\ \A c \in channels' : \E d \in channels : c.channel = d.channel
    BY <1>3 DEF TicketsInv, Tickets!TypeOK
  <2> QED
    BY <1>1, <1>3, <2>1, SameChannels
<1> QED
  BY <1>2, <1>3 DEF Tickets!Restart

LEMMA TicketsStepInv == ASSUME TicketsInv, [Tickets!Next]_Tickets!vars PROVE TicketsInv'
<1>1. CASE UNCHANGED Tickets!vars
  <2>1. UNCHANGED <<counter, tickets, made, category, posts, handler, presses, failures>>
        /\ UNCHANGED <<channels, restarts>>
    BY <1>1 DEF Tickets!vars
  <2>2. restarts' \in 0..MaxRestarts
        /\ channels' \subseteq [channel : Tickets!Channel, button : BOOLEAN]
        /\ \A c \in channels' : \E d \in channels : c.channel = d.channel
    BY <2>1 DEF TicketsInv, Tickets!TypeOK
  <2> QED
    BY <2>1, <2>2, SameChannels
<1>2. CASE Tickets!Next
  BY <1>2, getTicketCategoryInv, createTicketChannelInv, handleTicketCreateInv,
     RegisterTicketInv,
     ReplyTicketInv, sendTicketWelcomeMessageInv, handleTicketCloseInv, FetchInv,
       DeleteChannelInv,
     ForgetInv, saveTranscriptInv, TicketsRestartInv DEF Tickets!Next
<1> QED
  BY <1>1, <1>2

-----------------------------------------------------------------------------
\* Every enabled task has one job that fires, every watcher one lap and its
\* messages under the cooldown, every ticket its number, its channel and one
\* transcript (taskScheduler.js, healthChecks.js, alertManager.js,
\* serverStatus.js, ticketSystem.js).
THEOREM BotAlwaysKeepsTrack == ServicesSpec => []BotKeepsTrack
<1> DEFINE Inv == /\ focus = "watch" => WatchInv
                  /\ focus = "tasks" => TasksInv
                  /\ focus = "tickets" => TicketsInv
<1>1. ServicesInit => Inv
  BY WatchStarts, TasksStarts, TicketsStarts, WatchInitInv, TasksInitInv, TicketsInitInv
<1>2. Inv /\ [ServicesNext]_<<focus, places>> => Inv'
  BY WatchGoes, TasksGoes, TicketsGoes, WatchStepInv, TasksStepInv, TicketsStepInv
<1>3. Inv => BotKeepsTrack
  BY WatchTrue, TasksTrue, TicketsTrue DEF BotKeepsTrack
<1> QED
  BY <1>1, <1>2, <1>3, PTL DEF ServicesSpec

-----------------------------------------------------------------------------

LEMMA CommandsStarts == ServicesInit /\ focus = "commands" => Commands!Init
  BY DEF ServicesInit, SettingsInit, ListsInit, DeploysInit, SetupInit,
         AppsInit, SecretsInit, AuditInit, FlagsInit, SharedInit, TasksInit,
         WatchInit, TicketsInit, CommandsInit, AdviceInit, ViewsInit, DutyInit,
         FleetInit, GateInit

LEMMA CommandsGoes ==
    [ServicesNext]_<<focus, places>> =>
        UNCHANGED focus /\ (focus = "commands" => [Commands!Next]_Commands!vars)
  BY DEF ServicesNext, SettingsStep, ListsStep, DeploysStep, SetupStep,
         AppsStep, SecretsStep, AuditStep, FlagsStep, SharedStep, TasksStep,
         WatchStep, TicketsStep, CommandsStep, AdviceStep, ViewsStep, DutyStep,
         FleetStep, GateStep, places, rest5, rest6, rest7, rest8, rest9,
         Commands!vars, command, at, phase, ack, told, late, worked, confused,
         failures

\* The steps of a handler before it has answered: a handler that will defer
\* changes nothing then.
Hushed == {Commands!Call, Commands!CallOr("on"), Commands!R}
Before == Hushed \cup {Commands!CallOr("reply"), Commands!Work, Commands!WorkOr("on"),
                      Commands!WorkOr("reply"), Commands!Assign}

\* Its first answer if it does not defer, and its steps after it has deferred.
Replies == {Commands!Say("reply"), Commands!SayOr("reply", "reply")}
Says == {Commands!Say("edit"), Commands!Say("update"), Commands!SayOr("edit", "edit"),
         Commands!SayOr("followUp", "edit")}
After == Says \cup
         {Commands!Call, Commands!CallOr("on"), Commands!CallOr("edit"), Commands!Work,
          Commands!WorkOr("on"), Commands!WorkOr("edit"), Commands!E,
          Commands!Exit("update")}

\* A handler defers at its k-th step, or replies at its last, or does nothing.
DefersAt(h, k) ==
    /\ Len(h) \in Nat /\ DOMAIN h = 1..Len(h)
    /\ k \in 1..(Len(h) - 1) /\ h[k] = Commands!Defer
    /\ \A i \in 1..Len(h) : (i < k => h[i] \in Hushed) /\ (i > k => h[i] \in After)
    /\ h[Len(h)] \in Says

RepliesLast(h) ==
    /\ Len(h) \in Nat \ {0} /\ DOMAIN h = 1..Len(h) /\ h[Len(h)] \in Replies
    /\ \A i \in 1..Len(h) : i < Len(h) => h[i] \in Before

Proper(h) == h = <<>> \/ (\E k \in Nat : DefersAt(h, k)) \/ RepliesLast(h)

LEMMA ProperBy ==
    ASSUME NEW h
    PROVE  /\ \A k \in Nat : DefersAt(h, k) => Proper(h) /\ h # <<>>
           /\ RepliesLast(h) => Proper(h) /\ h # <<>>
           /\ h = <<>> => Proper(h)
<1>1. Len(<<>>) = 0
  OBVIOUS
<1>2. ASSUME NEW k \in Nat, DefersAt(h, k) PROVE Proper(h) /\ h # <<>>
  <2>1. Len(h) # 0
    BY <1>2 DEF DefersAt
  <2> QED
    BY <1>1, <1>2, <2>1 DEF Proper
<1>3. ASSUME RepliesLast(h) PROVE Proper(h) /\ h # <<>>
  <2>1. Len(h) # 0
    BY <1>3 DEF RepliesLast
  <2> QED
    BY <1>1, <1>3, <2>1 DEF Proper
<1> QED
  BY <1>2, <1>3 DEF Proper

\* A command module whose handlers are proper and do something.
ProperTable(f) == \A c \in DOMAIN f : Proper(f[c]) /\ f[c] # <<>>

LEMMA vpsLifecycleProper == ProperTable(Commands!vpsLifecycle)
<1> DEFINE f == Commands!vpsLifecycle
<1>1. DOMAIN f = {"createvps", "listvps", "runvps", "deletevps"}
  BY DEF Commands!vpsLifecycle
<1>2. /\ DefersAt(f.createvps, 1) /\ DefersAt(f.listvps, 1) /\ DefersAt(f.runvps, 1)
      /\ DefersAt(f.deletevps, 1)
  BY DEF DefersAt, Hushed, After, Says, Commands!vpsLifecycle
<1> QED
  BY <1>1, <1>2, ProperBy DEF ProperTable

LEMMA vpsRecordsProper == ProperTable(Commands!vpsRecords)
<1> DEFINE f == Commands!vpsRecords
<1>1. DOMAIN f = {"vpsstats", "backup", "backuplist", "restore", "vpsupdate"}
  BY DEF Commands!vpsRecords
<1>2. /\ DefersAt(f.vpsstats, 1) /\ DefersAt(f.backup, 1) /\ DefersAt(f.backuplist, 1)
      /\ DefersAt(f.restore, 1) /\ DefersAt(f.vpsupdate, 1)
  BY DEF DefersAt, Hushed, After, Says, Commands!vpsRecords
<1> QED
  BY <1>1, <1>2, ProperBy DEF ProperTable

LEMMA monitoringProper == ProperTable(Commands!monitoring)
<1> DEFINE f == Commands!monitoring
<1>1. DOMAIN f = {"vpsgraph", "setalertthreshold"}
  BY DEF Commands!monitoring
<1>2. DefersAt(f.vpsgraph, 1)
  BY DEF DefersAt, Hushed, After, Says, Commands!monitoring
<1>3. RepliesLast(f.setalertthreshold)
  BY DEF RepliesLast, Before, Hushed, Replies, Commands!monitoring
<1> QED
  BY <1>1, <1>2, <1>3, ProperBy DEF ProperTable

LEMMA healthChecksProper == ProperTable(Commands!healthChecks)
<1> DEFINE f == Commands!healthChecks
<1>1. DOMAIN f = {"health", "healthcreate", "healthlist"}
  BY DEF Commands!healthChecks
<1>2. /\ DefersAt(f.health, 2) /\ DefersAt(f.healthcreate, 2)
      /\ DefersAt(f.healthlist, 2)
  BY DEF DefersAt, Hushed, After, Says, Commands!healthChecks
<1> QED
  BY <1>1, <1>2, ProperBy DEF ProperTable

LEMMA alertManagerProper == ProperTable(Commands!alertManager)
<1> DEFINE f == Commands!alertManager
<1>1. DOMAIN f = {"alertcreate", "alertlist", "alertdelete"}
  BY DEF Commands!alertManager
<1>2. /\ RepliesLast(f.alertcreate) /\ RepliesLast(f.alertlist)
      /\ RepliesLast(f.alertdelete)
  BY DEF RepliesLast, Before, Hushed, Replies, Commands!alertManager
<1> QED
  BY <1>1, <1>2, ProperBy DEF ProperTable

LEMMA taskSchedulerProper == ProperTable(Commands!taskScheduler)
<1> DEFINE f == Commands!taskScheduler
<1>1. DOMAIN f = {"cron_create", "cron_list", "cron_delete", "cron_toggle", "cron_other"}
  BY DEF Commands!taskScheduler
<1>2. /\ DefersAt(f.cron_create, 1) /\ DefersAt(f.cron_list, 1)
      /\ DefersAt(f.cron_delete, 1) /\ DefersAt(f.cron_toggle, 1)
      /\ DefersAt(f.cron_other, 1)
  BY DEF DefersAt, Hushed, After, Says, Commands!taskScheduler
<1> QED
  BY <1>1, <1>2, ProperBy DEF ProperTable

LEMMA maintenanceProper == ProperTable(Commands!maintenance)
<1> DEFINE f == Commands!maintenance
<1>1. DOMAIN f = {"cleanupdryrun", "cleanuprun", "updatecheck", "updateapply"}
  BY DEF Commands!maintenance
<1>2. /\ DefersAt(f.cleanupdryrun, 1) /\ DefersAt(f.cleanuprun, 1)
      /\ DefersAt(f.updatecheck, 1) /\ DefersAt(f.updateapply, 1)
  BY DEF DefersAt, Hushed, After, Says, Commands!maintenance
<1> QED
  BY <1>1, <1>2, ProperBy DEF ProperTable

LEMMA templateManagerProper == ProperTable(Commands!templateManager)
<1> DEFINE f == Commands!templateManager
<1>1. DOMAIN f = {"templatecreate", "templateapply", "templatelist"}
  BY DEF Commands!templateManager
<1>2. DefersAt(f.templateapply, 1)
  BY DEF DefersAt, Hushed, After, Says, Commands!templateManager
<1>3. RepliesLast(f.templatecreate) /\ RepliesLast(f.templatelist)
  BY DEF RepliesLast, Before, Hushed, Replies, Commands!templateManager
<1> QED
  BY <1>1, <1>2, <1>3, ProperBy DEF ProperTable

LEMMA resourcePoolsProper == ProperTable(Commands!resourcePools)
<1> DEFINE f == Commands!resourcePools
<1>1. DOMAIN f = {"resourcepoolcreate", "resourcepooldelete", "resourcepoollist",
      "resourcepooladd", "resourcepoolremove"}
  BY DEF Commands!resourcePools
<1>2. /\ RepliesLast(f.resourcepoolcreate) /\ RepliesLast(f.resourcepooldelete)
      /\ RepliesLast(f.resourcepoollist) /\ RepliesLast(f.resourcepooladd)
      /\ RepliesLast(f.resourcepoolremove)
  BY DEF RepliesLast, Before, Hushed, Replies, Commands!resourcePools
<1> QED
  BY <1>1, <1>2, ProperBy DEF ProperTable

LEMMA dbManagerProper == ProperTable(Commands!dbManager)
<1> DEFINE f == Commands!dbManager
<1>1. DOMAIN f = {"db_create", "db_list", "db_delete", "db_info"}
  BY DEF Commands!dbManager
<1>2. /\ DefersAt(f.db_create, 1) /\ DefersAt(f.db_list, 1) /\ DefersAt(f.db_delete, 1)
      /\ DefersAt(f.db_info, 1)
  BY DEF DefersAt, Hushed, After, Says, Commands!dbManager
<1> QED
  BY <1>1, <1>2, ProperBy DEF ProperTable

LEMMA legacyServersProper == ProperTable(Commands!legacyServers)
<1> DEFINE f == Commands!legacyServers
<1>1. DOMAIN f = {"node", "deploy", "regen_ssh"}
  BY DEF Commands!legacyServers
<1>2. DefersAt(f.deploy, 2) /\ DefersAt(f.regen_ssh, 2)
  BY DEF DefersAt, Hushed, After, Says, Commands!legacyServers
<1>3. RepliesLast(f.node)
  BY DEF RepliesLast, Before, Hushed, Replies, Commands!legacyServers
<1> QED
  BY <1>1, <1>2, <1>3, ProperBy DEF ProperTable

LEMMA legacyCreditsProper == ProperTable(Commands!legacyCredits)
<1> DEFINE f == Commands!legacyCredits
<1>1. DOMAIN f = {"earncredit", "bal", "renew"}
  BY DEF Commands!legacyCredits
<1>2. RepliesLast(f.earncredit) /\ RepliesLast(f.bal) /\ RepliesLast(f.renew)
  BY DEF RepliesLast, Before, Hushed, Replies, Commands!legacyCredits
<1> QED
  BY <1>1, <1>2, ProperBy DEF ProperTable

LEMMA legacyPortsProper == ProperTable(Commands!legacyPorts)
<1> DEFINE f == Commands!legacyPorts
<1>1. DOMAIN f = {"port_add", "port_http"}
  BY DEF Commands!legacyPorts
<1>2. DefersAt(f.port_add, 5) /\ DefersAt(f.port_http, 5)
  BY DEF DefersAt, Hushed, After, Says, Commands!legacyPorts
<1> QED
  BY <1>1, <1>2, ProperBy DEF ProperTable

LEMMA petCommandsProper == ProperTable(Commands!petCommands)
<1> DEFINE f == Commands!petCommands
<1>1. DOMAIN f = {"pet", "pet_status"}
  BY DEF Commands!petCommands
<1>2. DefersAt(f.pet, 1) /\ DefersAt(f.pet_status, 1)
  BY DEF DefersAt, Hushed, After, Says, Commands!petCommands
<1> QED
  BY <1>1, <1>2, ProperBy DEF ProperTable

LEMMA ticketCommandsProper == ProperTable(Commands!ticketCommands)
<1> DEFINE f == Commands!ticketCommands
<1>1. DOMAIN f = {"setuptickets", "addstaff", "removestaff", "ticketstats"}
  BY DEF Commands!ticketCommands
<1>2. DefersAt(f.setuptickets, 1) /\ DefersAt(f.ticketstats, 1)
  BY DEF DefersAt, Hushed, After, Says, Commands!ticketCommands
<1>3. RepliesLast(f.addstaff) /\ RepliesLast(f.removestaff)
  BY DEF RepliesLast, Before, Hushed, Replies, Commands!ticketCommands
<1> QED
  BY <1>1, <1>2, <1>3, ProperBy DEF ProperTable

LEMMA statsCommandsProper == ProperTable(Commands!statsCommands)
<1> DEFINE f == Commands!statsCommands
<1>1. DOMAIN f = {"serverstats", "leaderboard"}
  BY DEF Commands!statsCommands
<1>2. DefersAt(f.serverstats, 1) /\ DefersAt(f.leaderboard, 1)
  BY DEF DefersAt, Hushed, After, Says, Commands!statsCommands
<1> QED
  BY <1>1, <1>2, ProperBy DEF ProperTable

LEMMA serverStatusProper == ProperTable(Commands!serverStatus)
<1> DEFINE f == Commands!serverStatus
<1>1. DOMAIN f = {"status_widget", "status_info"}
  BY DEF Commands!serverStatus
<1>2. DefersAt(f.status_widget, 3) /\ DefersAt(f.status_info, 1)
  BY DEF DefersAt, Hushed, After, Says, Commands!serverStatus
<1> QED
  BY <1>1, <1>2, ProperBy DEF ProperTable

LEMMA interactionCreateProper ==
    \A c \in DOMAIN Commands!interactionCreate : Proper(Commands!interactionCreate[c])
<1> DEFINE f == Commands!interactionCreate
<1>1. DOMAIN f = {"server", "role", "report"}
  BY DEF Commands!interactionCreate
<1>2. RepliesLast(f.server)
  BY DEF RepliesLast, Before, Hushed, Replies, Commands!interactionCreate
<1>3. f.role = <<>> /\ f.report = <<>>
  BY DEF Commands!interactionCreate
<1> QED
  BY <1>1, <1>2, <1>3, ProperBy
LEMMA HandlersProper ==
    \A c \in DOMAIN Commands!Handlers :
        /\ Proper(Commands!Handlers[c])
        /\ c \in Commands!Guarded => Commands!Handlers[c] # <<>>
<1>1. \A m \in Commands!COMMAND_MODULES : ProperTable(m)
  BY vpsLifecycleProper, vpsRecordsProper, monitoringProper, healthChecksProper,
     alertManagerProper, taskSchedulerProper, maintenanceProper, templateManagerProper,
     resourcePoolsProper, dbManagerProper, legacyServersProper, legacyCreditsProper,
     legacyPortsProper, petCommandsProper DEF Commands!COMMAND_MODULES
<1>2. \A m \in Commands!Unguarded : \A c \in DOMAIN m : Proper(m[c])
  BY ticketCommandsProper, statsCommandsProper, serverStatusProper,
     interactionCreateProper DEF Commands!Unguarded, ProperTable
<1>3. ASSUME NEW c \in Commands!Guarded
      PROVE  LET h == Commands!Handler(c, Commands!COMMAND_MODULES)
             IN Proper(h) /\ h # <<>>
  <2>1. PICK m \in Commands!COMMAND_MODULES :
            c \in DOMAIN m /\ Commands!Handler(c, Commands!COMMAND_MODULES) = m[c]
    BY DEF Commands!Guarded, Commands!Names, Commands!Handler
  <2> QED
    BY <1>1, <2>1 DEF ProperTable
<1>4. ASSUME NEW c \in Commands!Names(Commands!Unguarded)
      PROVE  Proper(Commands!Handler(c, Commands!Unguarded))
  <2>1. PICK m \in Commands!Unguarded :
            c \in DOMAIN m /\ Commands!Handler(c, Commands!Unguarded) = m[c]
    BY DEF Commands!Names, Commands!Handler
  <2> QED
    BY <1>2, <2>1
<1> QED
  BY <1>3, <1>4 DEF Commands!Handlers

\* What the steps are.
LEMMA StepsAre ==
    /\ Commands!Defer.op = "defer" /\ Commands!Defer.by = "defer" /\ Commands!Defer.or = "throw"
    /\ \A st \in Hushed : st.op = "call" \/ st.op = "exit"
    /\ \A st \in Before :
          \/ st.op \in {"call", "work"} /\ st.or \in {"throw", "on", "never", "reply"}
          \/ st.op = "exit" /\ st.by = "reply"
    /\ \A st \in Replies : st.op = "say" /\ st.by = "reply" /\ st.or \in {"throw", "reply"}
    /\ \A st \in After :
          \/ st.op \in {"call", "work"} /\ st.or \in {"throw", "on", "edit"}
          \/ st.op = "exit" /\ st.by \in {"edit", "update"}
          \/ /\ st.op = "say" /\ st.by \in {"edit", "update", "followUp"}
             /\ st.or \in {"throw", "edit"}
    /\ \A st \in Says : st.op = "say"
<1> USE DEF Commands!Defer, Commands!Call, Commands!CallOr, Commands!Work, Commands!WorkOr,
            Commands!Assign, Commands!Exit, Commands!Say, Commands!SayOr, Commands!E,
            Commands!R
<1>1. Commands!Defer.op = "defer" /\ Commands!Defer.by = "defer" /\ Commands!Defer.or = "throw"
  OBVIOUS
<1>2. \A st \in Hushed : st.op = "call" \/ st.op = "exit"
  BY DEF Hushed
<1>3. \A st \in Before :
          \/ st.op \in {"call", "work"} /\ st.or \in {"throw", "on", "never", "reply"}
          \/ st.op = "exit" /\ st.by = "reply"
  BY DEF Before, Hushed
<1>4. \A st \in Replies : st.op = "say" /\ st.by = "reply" /\ st.or \in {"throw", "reply"}
  BY DEF Replies
<1>5. \A st \in Says : st.op = "say" /\ st.by \in {"edit", "update", "followUp"}
                                     /\ st.or \in {"throw", "edit"}
  BY DEF Says
<1>6. \A st \in After \ Says :
          \/ st.op \in {"call", "work"} /\ st.or \in {"throw", "on", "edit"}
          \/ st.op = "exit" /\ st.by \in {"edit", "update"}
  BY DEF After
<1> QED
  BY <1>1, <1>2, <1>3, <1>4, <1>5, <1>6

\* The step a handler answers first at.
Opens(h, k) ==
    /\ k \in Nat
    /\ \/ DefersAt(h, k)
       \/ RepliesLast(h) /\ k = Len(h)
       \/ h = <<>> /\ k = 1

LEMMA BeginsSomewhere == ASSUME NEW h, Proper(h) PROVE \E k : Opens(h, k)
<1>1. CASE h = <<>>
  BY <1>1 DEF Opens
<1>2. CASE RepliesLast(h)
  <2>1. Len(h) \in Nat
    BY <1>2 DEF RepliesLast
  <2> QED
    BY <1>2, <2>1 DEF Opens
<1>3. CASE \E k \in Nat : DefersAt(h, k)
  BY <1>3 DEF Opens
<1> QED
  BY <1>1, <1>2, <1>3 DEF Proper

\* Where a step is to be found.
LEMMA StepsLie ==
    ASSUME NEW h, NEW k, Opens(h, k), NEW i \in 1..Len(h)
    PROVE  /\ Len(h) \in Nat /\ k <= Len(h)
           /\ i < k => h[i] \in Before
           /\ i < k /\ DefersAt(h, k) => h[i] \in Hushed
           /\ i = k => (h[i] = Commands!Defer /\ k < Len(h)) \/ h[i] \in Replies
           /\ i > k => h[i] \in After
           /\ h[Len(h)] \in Says \/ h[Len(h)] \in Replies
           /\ ~DefersAt(h, k) => \A j \in 1..Len(h) : h[j] # Commands!Defer
<1>1. CASE DefersAt(h, k)
  BY <1>1 DEF DefersAt, Before
<1>2. CASE RepliesLast(h) /\ k = Len(h)
  <2>1. \A j \in 1..Len(h) : h[j] \in Before \/ h[j] \in Replies
    BY <1>2 DEF RepliesLast
  <2>2. \A j \in 1..Len(h) : h[j] # Commands!Defer
    BY <2>1, StepsAre
  <2>3. Len(h) \in Nat /\ h[Len(h)] \in Replies /\ (i < Len(h) => h[i] \in Before)
    BY <1>2 DEF RepliesLast
  <2>4. ~DefersAt(h, k)
    BY <1>2, <2>3 DEF DefersAt
  <2> QED
    BY <1>2, <2>2, <2>3, <2>4
<1>3. CASE h = <<>>
  BY <1>3
<1> QED
  BY <1>1, <1>2, <1>3 DEF Opens

\* While a handler runs it has answered exactly if it is past its first answer,
\* and at its end the user has been told; its own catch answers as is fit.
Handling(h) ==
    /\ phase = "run" => \E k : Opens(h, k) /\ (ack = "none" <=> at <= k)
    /\ phase = "run" /\ at = Len(h) + 1 /\ h # <<>> => told
    /\ phase = "edit" => ack # "none"
    /\ phase = "reply" => ack = "none"

CommandsInv ==
    /\ Commands!TypeOK
    /\ Handling(Commands!Handlers[command])
    /\ Commands!CommandsAnswered

LEMMA Typed ==
    ASSUME Commands!TypeOK
    PROVE  /\ MaxFailures \in Nat /\ failures \in Nat /\ failures \in 0..MaxFailures
           /\ ack \in {"none", "deferred", "replied"} /\ told \in BOOLEAN
           /\ confused \in BOOLEAN /\ late \in BOOLEAN /\ worked \in BOOLEAN
           /\ command \in DOMAIN Commands!Handlers
           /\ at \in 1..(Len(Commands!Handlers[command]) + 1)
           /\ phase \in {"run", "edit", "reply", "fallback", "ended", "dead"}
  BY ServicesAssumption DEF Commands!TypeOK

\* A message that is taken.
LEMMA Taken ==
    ASSUME Commands!TypeOK, NEW m, Commands!Accepted(m)
    PROVE  /\ Commands!Fits(m) /\ confused' = confused /\ failures' = failures
           /\ ack' \in {"none", "deferred", "replied"} /\ told' \in BOOLEAN
           /\ m # "defer" => told'
           /\ m \in {"defer", "reply"} => ack = "none" /\ ack' # "none"
           /\ m \notin {"defer", "reply"} => ack' = ack
           /\ ack # "none" => ack' # "none"
  BY Typed DEF Commands!Accepted, Commands!Fits

\* A message that fits and is refused.
LEMMA Spurned ==
    ASSUME Commands!TypeOK, NEW m, Commands!Fits(m), Commands!Refused(m)
    PROVE  /\ confused' = confused /\ failures' \in 0..MaxFailures
           /\ ack' = ack /\ told' = told
           /\ m # "update" => late \/ failures' # 0
  BY Typed DEF Commands!Refused

\* What is the same of every step.
LEMMA SameHandler ==
    ASSUME CommandsInv, Commands!Next
    PROVE  /\ command' = command /\ Commands!TypeOK
           /\ Proper(Commands!Handlers[command]) /\ Len(Commands!Handlers[command]) \in Nat
           /\ command \in Commands!Guarded => Commands!Handlers[command] # <<>>
<1>1. command' = command
  BY DEF Commands!Next, Commands!Send, Commands!Decide, Commands!Await, Commands!Return,
         Commands!Catch, Commands!Fallback
<1>2. Commands!TypeOK /\ command \in DOMAIN Commands!Handlers
  BY Typed DEF CommandsInv
<1>3. /\ Proper(Commands!Handlers[command])
      /\ command \in Commands!Guarded => Commands!Handlers[command] # <<>>
  BY <1>2, HandlersProper
<1>4. Len(Commands!Handlers[command]) \in Nat
  <2>1. Len(<<>>) \in Nat
    OBVIOUS
  <2> QED
    BY <1>3, <2>1 DEF Proper, DefersAt, RepliesLast
<1> QED
  BY <1>1, <1>2, <1>3, <1>4

\* What a state must have for the invariant, of the variables' values there.
LEMMA Rejoin ==
    ASSUME CommandsInv, Commands!Next, NEW h, h = Commands!Handlers[command],
           ack' \in {"none", "deferred", "replied"}, told' \in BOOLEAN, late' \in BOOLEAN,
           worked' \in BOOLEAN, failures' \in 0..MaxFailures, confused' = FALSE,
           at' \in 1..(Len(h) + 1),
           phase' \in {"run", "edit", "reply", "fallback", "ended", "dead"},
           phase' = "run" => \E k : Opens(h, k) /\ (ack' = "none" <=> at' <= k),
           phase' = "run" /\ at' = Len(h) + 1 /\ h # <<>> => told',
           phase' = "edit" => ack' # "none",
           phase' = "reply" => ack' = "none",
           phase' = "ended" /\ command \in Commands!Guarded /\ failures' = 0 /\ ~late' => told',
           command \in Commands!Deferring /\ worked' => ack' # "none"
    PROVE  CommandsInv'
<1>1. command' = command /\ Commands!Handlers[command'] = h
  BY SameHandler
<1>2. Commands!TypeOK'
  BY <1>1, Typed DEF Commands!TypeOK, CommandsInv
<1>3. Handling(Commands!Handlers[command])'
  BY <1>1 DEF Handling
<1>4. Commands!CommandsAnswered'
  BY <1>1 DEF Commands!CommandsAnswered, Commands!NeverConfused, Commands!EndsAnswered,
              Commands!NothingDoneUnheard
<1> QED
  BY <1>2, <1>3, <1>4 DEF CommandsInv

\* A command that defers has a handler that does.
LEMMA DeferringDefers ==
    ASSUME NEW k, command \in Commands!Deferring, Opens(Commands!Handlers[command], k)
    PROVE  DefersAt(Commands!Handlers[command], k)
<1> DEFINE h == Commands!Handlers[command]
<1>1. PICK i \in DOMAIN h : h[i] = Commands!Defer
  BY DEF Commands!Deferring
<1>2. DOMAIN <<>> = {}
  OBVIOUS
<1>3. h # <<>> /\ DOMAIN h = 1..Len(h) /\ Len(h) \in Nat
  BY <1>1, <1>2 DEF Opens, DefersAt, RepliesLast
<1> QED
  BY <1>1, <1>3, StepsLie

LEMMA SendInv == ASSUME CommandsInv, Commands!Send PROVE CommandsInv'
<1> DEFINE h == Commands!Handlers[command]
           st == h[at]
<1>1. /\ Commands!Next /\ Commands!TypeOK /\ Len(h) \in Nat /\ confused = FALSE
      /\ Handling(h) /\ Commands!CommandsAnswered
  BY SameHandler, Typed
     DEF Commands!Next, CommandsInv, Commands!CommandsAnswered, Commands!NeverConfused
<1>2. /\ phase = "run" /\ at \in 1..Len(h) /\ at \in Nat /\ st.op \in {"defer", "say"}
      /\ worked' = worked /\ late' = late
  BY <1>1, Typed DEF Commands!Send, Commands!Running, Commands!Step
<1>3. PICK k : Opens(h, k) /\ (ack = "none" <=> at <= k)
  BY <1>1, <1>2 DEF Handling
<1>4. /\ k \in Nat /\ k <= Len(h) /\ (at < k => st \in Before)
      /\ at = k => (st = Commands!Defer /\ k < Len(h)) \/ st \in Replies
      /\ at > k => st \in After
  BY <1>2, <1>3, StepsLie DEF Opens
<1> HIDE DEF st, h
<1>5. at = k \/ at > k
  BY <1>2, <1>4, StepsAre
<1>6. /\ at = k => /\ ack = "none" /\ st.by \in {"defer", "reply"}
                   /\ st.or \in {"throw", "reply"}
                   /\ st.by = "defer" => k < Len(h)
      /\ at > k => /\ ack # "none" /\ st.by \in {"edit", "update", "followUp"}
                   /\ st.or \in {"throw", "edit"}
  BY <1>2, <1>3, <1>4, StepsAre
<1>7. Commands!Fits(st.by)
  BY <1>5, <1>6 DEF Commands!Fits
<1>8. CASE Commands!Accepted(st.by) /\ Commands!Onward
  <2>1. at' = at + 1 /\ phase' = "run"
    BY <1>2, <1>8 DEF Commands!Onward
  <2>2. /\ confused' = FALSE /\ failures' \in 0..MaxFailures /\ told' \in BOOLEAN
        /\ ack' \in {"none", "deferred", "replied"} /\ ack' # "none"
        /\ st.by # "defer" => told'
    BY <1>1, <1>5, <1>6, <1>8, Taken, Typed
  <2>3. at' = Len(h) + 1 => told'
    BY <1>2, <1>4, <1>5, <1>6, <2>1, <2>2
  <2>4. at' \in 1..(Len(h) + 1) /\ ~(at' <= k)
    BY <1>1, <1>2, <1>4, <1>5, <2>1
  <2>5. \E j : Opens(h, j) /\ (ack' = "none" <=> at' <= j)
    BY <1>3, <2>2, <2>4
  <2> QED
    BY <1>1, <1>2, <2>1, <2>2, <2>3, <2>4, <2>5, Rejoin, Typed DEF h
<1>9. CASE Commands!Refused(st.by) /\ Commands!Goto(Commands!Fails(st.or))
  <2>1. /\ phase' \in {"fallback", "dead", "reply", "edit"} /\ at' = at
        /\ phase' = "edit" => ack # "none"
        /\ phase' = "reply" => ack = "none"
    BY <1>5, <1>6, <1>9 DEF Commands!Goto, Commands!Fails, Commands!Uncaught
  <2>2. /\ confused' = FALSE /\ failures' \in 0..MaxFailures /\ told' \in BOOLEAN /\ ack' = ack
    BY <1>1, <1>7, <1>9, Spurned, Typed
  <2>3. command \in Commands!Deferring /\ worked' => ack' # "none"
    BY <1>1, <1>2, <2>2 DEF Commands!CommandsAnswered, Commands!NothingDoneUnheard
  <2>4. at' \in 1..(Len(h) + 1)
    BY <1>1, <1>2, <2>1
  <2> QED
    BY <1>1, <1>2, <2>1, <2>2, <2>3, <2>4, Rejoin, Typed DEF h
<1> QED
  BY <1>8, <1>9 DEF Commands!Send, Commands!Step, st, h

LEMMA DecideInv == ASSUME CommandsInv, Commands!Decide PROVE CommandsInv'
<1> DEFINE h == Commands!Handlers[command]
           st == h[at]
<1>1. /\ Commands!Next /\ Commands!TypeOK /\ Len(h) \in Nat /\ confused = FALSE
      /\ Handling(h) /\ Commands!CommandsAnswered
  BY SameHandler, Typed
     DEF Commands!Next, CommandsInv, Commands!CommandsAnswered, Commands!NeverConfused
<1>2. /\ phase = "run" /\ at \in 1..Len(h) /\ at \in Nat /\ st.op = "exit"
      /\ worked' = worked /\ late' = late
  BY <1>1, Typed DEF Commands!Decide, Commands!Running, Commands!Step
<1>3. PICK k : Opens(h, k) /\ (ack = "none" <=> at <= k)
  BY <1>1, <1>2 DEF Handling
<1>4. /\ k \in Nat /\ k <= Len(h) /\ (at < k => st \in Before)
      /\ at = k => (st = Commands!Defer /\ k < Len(h)) \/ st \in Replies
      /\ at > k => st \in After
      /\ h[Len(h)] \in Says \/ h[Len(h)] \in Replies
  BY <1>2, <1>3, StepsLie DEF Opens
<1>5. at # Len(h)
  BY <1>2, <1>4, StepsAre
<1>6. command \in Commands!Deferring /\ worked => ack # "none"
  BY <1>1 DEF Commands!CommandsAnswered, Commands!NothingDoneUnheard
<1> HIDE DEF st, h
<1>7. at < k \/ at > k
  BY <1>2, <1>4, StepsAre
<1>8. /\ at < k => ack = "none" /\ st.by = "reply"
      /\ at > k => ack # "none" /\ st.by \in {"edit", "update"}
  BY <1>2, <1>3, <1>4, StepsAre
<1>9. Commands!Fits(st.by)
  BY <1>7, <1>8 DEF Commands!Fits
<1>10. CASE Commands!Onward /\ UNCHANGED <<ack, told, confused, failures>>
  <2>1. at' = at + 1 /\ phase' = "run"
    BY <1>2, <1>10 DEF Commands!Onward
  <2>2. at' \in 1..(Len(h) + 1) /\ at' # Len(h) + 1 /\ (at' <= k <=> at <= k)
    BY <1>1, <1>2, <1>4, <1>5, <1>7, <2>1
  <2>3. \E j : Opens(h, j) /\ (ack' = "none" <=> at' <= j)
    BY <1>3, <1>10, <2>2
  <2> QED
    BY <1>1, <1>2, <1>6, <1>10, <2>1, <2>2, <2>3, Rejoin, Typed DEF h
<1>11. CASE Commands!Accepted(st.by) /\ Commands!Goto("ended")
  <2>1. phase' = "ended" /\ at' = at
    BY <1>11 DEF Commands!Goto
  <2>2. /\ confused' = FALSE /\ failures' \in 0..MaxFailures /\ told' \in BOOLEAN /\ told'
        /\ ack' \in {"none", "deferred", "replied"} /\ ack' # "none"
    BY <1>1, <1>7, <1>8, <1>11, Taken, Typed
  <2>3. at' \in 1..(Len(h) + 1)
    BY <1>1, <1>2, <2>1
  <2> QED
    BY <1>1, <1>2, <2>1, <2>2, <2>3, Rejoin, Typed DEF h
<1>12. CASE Commands!Refused(st.by) /\ Commands!Goto(Commands!Uncaught)
  <2>1. phase' \in {"fallback", "dead"} /\ at' = at
    BY <1>12 DEF Commands!Goto, Commands!Uncaught
  <2>2. confused' = FALSE /\ failures' \in 0..MaxFailures /\ told' \in BOOLEAN /\ ack' = ack
    BY <1>1, <1>9, <1>12, Spurned, Typed
  <2>3. at' \in 1..(Len(h) + 1)
    BY <1>1, <1>2, <2>1
  <2> QED
    BY <1>1, <1>2, <1>6, <2>1, <2>2, <2>3, Rejoin, Typed DEF h
<1> QED
  BY <1>10, <1>11, <1>12 DEF Commands!Decide, Commands!Step, st, h
LEMMA AwaitInv == ASSUME CommandsInv, Commands!Await PROVE CommandsInv'
<1> DEFINE h == Commands!Handlers[command]
           st == h[at]
<1>1. /\ Commands!Next /\ Commands!TypeOK /\ Len(h) \in Nat /\ confused = FALSE
      /\ Handling(h) /\ Commands!CommandsAnswered
  BY SameHandler, Typed
     DEF Commands!Next, CommandsInv, Commands!CommandsAnswered, Commands!NeverConfused
<1>2. /\ phase = "run" /\ at \in 1..Len(h) /\ at \in Nat /\ st.op \in {"call", "work"}
      /\ ack' = ack /\ told' = told /\ confused' = confused /\ failures' = failures
  BY <1>1, Typed DEF Commands!Await, Commands!Running, Commands!Step
<1>3. PICK k : Opens(h, k) /\ (ack = "none" <=> at <= k)
  BY <1>1, <1>2 DEF Handling
<1>4. /\ k \in Nat /\ k <= Len(h) /\ (at < k => st \in Before)
      /\ at = k => (st = Commands!Defer /\ k < Len(h)) \/ st \in Replies
      /\ at > k => st \in After
      /\ h[Len(h)] \in Says \/ h[Len(h)] \in Replies
      /\ at < k /\ DefersAt(h, k) => st \in Hushed
  BY <1>2, <1>3, StepsLie DEF Opens
<1>5. at # Len(h)
  BY <1>2, <1>4, StepsAre
<1>6. command \in Commands!Deferring => ack # "none" \/ (st.op # "work" /\ ~worked)
  <2>1. command \in Commands!Deferring => DefersAt(h, k)
    BY <1>3, DeferringDefers
  <2>2. command \in Commands!Deferring /\ worked => ack # "none"
    BY <1>1 DEF Commands!CommandsAnswered, Commands!NothingDoneUnheard
  <2>3. st \in Hushed => st.op # "work"
    BY StepsAre
  <2>4. at = k => st.op \notin {"call", "work"}
    BY <1>4, StepsAre
  <2> HIDE DEF st, h
  <2>5. ack = "none" => at < k
    BY <1>2, <1>3, <1>4, <2>4
  <2> QED
    BY <1>4, <2>1, <2>2, <2>3, <2>5
<1> HIDE DEF st, h
<1>7. at < k \/ at > k
  BY <1>2, <1>4, StepsAre
<1>8. /\ at < k => ack = "none" /\ st.or \in {"throw", "on", "never", "reply"}
      /\ at > k => ack # "none" /\ st.or \in {"throw", "on", "edit"}
  BY <1>2, <1>3, <1>4, StepsAre
<1>9. late' \in BOOLEAN
  <2>1. late' \in {late, late \/ (ack = "none" /\ st.or # "never")}
    BY DEF Commands!Await, Commands!Step, st, h
  <2> QED
    BY <1>1, <2>1, Typed
<1>10. /\ worked' \in BOOLEAN
       /\ command \in Commands!Deferring /\ worked' => ack' # "none"
  <2>1. worked' \in {worked, worked \/ st.op = "work"}
    BY DEF Commands!Await, Commands!Step, st, h
  <2>2. worked' \in BOOLEAN
    BY <1>1, <2>1, Typed
  <2>3. worked' => worked \/ st.op = "work"
    BY <2>1
  <2> QED
    BY <1>2, <1>6, <2>2, <2>3
<1>11. CASE Commands!Onward
  <2>1. at' = at + 1 /\ phase' = "run"
    BY <1>2, <1>11 DEF Commands!Onward
  <2>2. at' \in 1..(Len(h) + 1) /\ at' # Len(h) + 1 /\ (at' <= k <=> at <= k)
    BY <1>1, <1>2, <1>4, <1>5, <1>7, <2>1
  <2>3. \E j : Opens(h, j) /\ (ack' = "none" <=> at' <= j)
    BY <1>2, <1>3, <2>2
  <2> QED
    BY <1>1, <1>2, <1>9, <1>10, <2>1, <2>2, <2>3, Rejoin, Typed DEF h
<1>12. CASE st.or \notin {"on", "never"} /\ Commands!Goto(Commands!Fails(st.or))
  <2>1. /\ phase' \in {"fallback", "dead", "reply", "edit"} /\ at' = at
        /\ phase' = "edit" => ack # "none"
        /\ phase' = "reply" => ack = "none"
    BY <1>7, <1>8, <1>12 DEF Commands!Goto, Commands!Fails, Commands!Uncaught
  <2>2. at' \in 1..(Len(h) + 1)
    BY <1>1, <1>2, <2>1
  <2> QED
    BY <1>1, <1>2, <1>9, <1>10, <2>1, <2>2, Rejoin, Typed DEF h
<1> QED
  BY <1>11, <1>12 DEF Commands!Await, Commands!Step, st, h

\* The three steps that end a command.
LEMMA EndsInv ==
    ASSUME CommandsInv, Commands!Return \/ Commands!Catch \/ Commands!Fallback
    PROVE  CommandsInv'
<1> DEFINE h == Commands!Handlers[command]
<1>1. /\ Commands!Next /\ Commands!TypeOK /\ Len(h) \in Nat /\ confused = FALSE
      /\ Handling(h)
      /\ command \in Commands!Guarded => h # <<>>
  BY SameHandler, Typed
     DEF Commands!Next, CommandsInv, Commands!CommandsAnswered, Commands!NeverConfused
<1>2. command \in Commands!Deferring /\ worked => ack # "none"
  BY DEF CommandsInv, Commands!CommandsAnswered, Commands!NothingDoneUnheard
<1>3. /\ at' = at /\ late' = late /\ worked' = worked
      /\ phase' \in {"ended", "fallback", "dead"}
  BY DEF Commands!Return, Commands!Catch, Commands!Fallback, Commands!Goto,
         Commands!Uncaught
<1>4. at' \in 1..(Len(h) + 1)
  BY <1>1, <1>3, Typed
<1> HIDE DEF h
<1>5. ASSUME NEW m, m \in {"edit", "reply"}, Commands!Fits(m),
             Commands!Accepted(m) \/ (Commands!Refused(m) /\ phase' \in {"ended", "fallback",
               "dead"})
      PROVE  CommandsInv'
  <2>1. CASE Commands!Accepted(m)
    <3>1. /\ confused' = FALSE /\ failures' \in 0..MaxFailures /\ told' = TRUE
          /\ ack' \in {"none", "deferred", "replied"}
          /\ ack # "none" => ack' # "none"
      BY <1>1, <1>5, <2>1, Taken, Typed
    <3>2. command \in Commands!Deferring /\ worked' => ack' # "none"
      BY <1>2, <1>3, <3>1
    <3> QED
      BY <1>1, <1>3, <1>4, <3>1, <3>2, Rejoin, Typed DEF h
  <2>2. CASE Commands!Refused(m)
    <3>1. /\ confused' = FALSE /\ failures' \in 0..MaxFailures /\ told' \in BOOLEAN
          /\ ack' = ack /\ (late \/ failures' # 0)
      BY <1>1, <1>5, <2>2, Spurned, Typed
    <3> QED
      BY <1>1, <1>2, <1>3, <1>4, <3>1, Rejoin, Typed DEF h
  <2> QED
    BY <1>5, <2>1, <2>2
<1>6. CASE Commands!Return
  <2>1. /\ phase = "run" /\ at = Len(h) + 1 /\ phase' = "ended"
        /\ ack' = ack /\ told' = told /\ confused' = confused /\ failures' = failures
    BY <1>1, <1>6, Typed DEF Commands!Return, Commands!Goto, h
  <2>2. command \in Commands!Guarded => told'
    BY <1>1, <2>1 DEF Handling
  <2> QED
    BY <1>1, <1>2, <1>3, <1>4, <2>1, <2>2, Rejoin, Typed DEF h
<1>7. CASE Commands!Catch
  <2>1. phase \in {"edit", "reply"} /\ Commands!Fits(phase)
    BY <1>1, <1>7 DEF Commands!Catch, Commands!Fits, Handling
  <2>2. Commands!Accepted(phase) \/ Commands!Refused(phase)
    BY <1>7 DEF Commands!Catch
  <2> QED
    BY <1>3, <1>5, <2>1, <2>2
<1>8. CASE Commands!Fallback
  <2>1. Commands!FallbackMethod \in {"edit", "reply"} /\ Commands!Fits(Commands!FallbackMethod)
    BY DEF Commands!FallbackMethod, Commands!Fits
  <2>2. Commands!Accepted(Commands!FallbackMethod) \/ Commands!Refused(Commands!FallbackMethod)
    BY <1>8 DEF Commands!Fallback
  <2> QED
    BY <1>3, <1>5, <2>1, <2>2
<1> QED
  BY <1>6, <1>7, <1>8

LEMMA CommandsInitInv == Commands!Init => CommandsInv
<1> SUFFICES ASSUME Commands!Init PROVE CommandsInv
  OBVIOUS
<1> DEFINE h == Commands!Handlers[command]
<1>1. /\ command \in DOMAIN Commands!Handlers /\ at = 1 /\ phase = "run" /\ ack = "none"
      /\ told = FALSE /\ late = FALSE /\ worked = FALSE /\ confused = FALSE /\ failures = 0
  BY DEF Commands!Init
<1>2. Proper(h)
  BY <1>1, HandlersProper
<1>3. PICK k : Opens(h, k)
  BY <1>2, BeginsSomewhere
<1>4. Len(h) \in Nat /\ k \in Nat /\ 1 <= k /\ (h # <<>> => Len(h) # 0)
  <2>1. Len(<<>>) \in Nat
    OBVIOUS
  <2> HIDE DEF h
  <2>2. CASE DefersAt(h, k)
    BY <2>2 DEF DefersAt
  <2>3. CASE RepliesLast(h) /\ k = Len(h)
    BY <2>3 DEF RepliesLast
  <2>4. CASE h = <<>> /\ k = 1
    BY <2>1, <2>4
  <2>5. k \in Nat
    BY <1>3 DEF Opens
  <2> QED
    BY <1>3, <2>2, <2>3, <2>4, <2>5 DEF Opens
<1>5. Commands!TypeOK
  <2>1. MaxFailures \in Nat /\ 0 \in 0..MaxFailures
    BY ServicesAssumption
  <2> HIDE DEF h
  <2>2. 1 \in 1..(Len(h) + 1)
    BY <1>4
  <2> QED
    BY <1>1, <2>1, <2>2, Zenon DEF Commands!TypeOK, h
<1>6. Handling(h)
  BY <1>1, <1>3, <1>4 DEF Handling
<1>7. Commands!CommandsAnswered
  BY <1>1 DEF Commands!CommandsAnswered, Commands!NeverConfused, Commands!EndsAnswered,
              Commands!NothingDoneUnheard
<1> QED
  BY <1>5, <1>6, <1>7 DEF CommandsInv

LEMMA CommandsStepInv ==
    ASSUME CommandsInv, [Commands!Next]_Commands!vars PROVE CommandsInv'
<1>1. CASE Commands!Next
  BY <1>1, SendInv, DecideInv, AwaitInv, EndsInv DEF Commands!Next
<1>2. CASE UNCHANGED Commands!vars
  <2>1. Commands!TypeOK' /\ Commands!CommandsAnswered'
    BY <1>2 DEF Commands!vars, CommandsInv, Commands!TypeOK, Commands!CommandsAnswered,
                Commands!NeverConfused, Commands!EndsAnswered, Commands!NothingDoneUnheard
  <2>2. Handling(Commands!Handlers[command])'
    BY <1>2 DEF Commands!vars, CommandsInv, Handling
  <2> QED
    BY <2>1, <2>2 DEF CommandsInv
<1> QED
  BY <1>1, <1>2


\* No handler makes a call discord.js refuses, a guarded command that ended has
\* been answered, and nothing is changed for an interaction given up on
\* (index.js and the command modules of the Discord service).
THEOREM CommandsAlwaysAnswered == ServicesSpec => []CommandsAnswered
<1> DEFINE Inv == focus = "commands" => CommandsInv
<1>1. ServicesInit => Inv
  BY CommandsStarts, CommandsInitInv
<1>2. Inv /\ [ServicesNext]_<<focus, places>> => Inv'
  BY CommandsGoes, CommandsStepInv
<1>3. Inv => CommandsAnswered
  BY DEF CommandsAnswered, CommandsInv
<1> QED
  BY <1>1, <1>2, <1>3, PTL DEF ServicesSpec

-----------------------------------------------------------------------------
\* Whichever service it is, what it stores, what its requests carry and what is
\* remembered of them keeps its type: the rows, lists and maps of the panel
\* (server/index.ts), the copies and screens that follow them, the records of
\* the orchestrator (incidents.py, living_fleet.py) and the bot's bookkeeping.
THEOREM ServicesTypes == ServicesSpec => []ServicesTypeOK
<1> DEFINE Inv ==
      /\ focus = "settings" => SettingsInv
      /\ focus = "lists" => ListsInv
      /\ focus = "deploys" => DeploysTyped
      /\ focus = "setup" => SetupInv
      /\ focus = "apps" => AppsInv
      /\ focus = "secrets" => SecretsInv
      /\ focus = "audit" => AuditInv
      /\ focus = "flags" => FlagsInv /\ FlagsTyped
      /\ focus = "terminal" => SharedInv
      /\ focus = "tasks" => TasksInv
      /\ focus = "watch" => WatchInv
      /\ focus = "tickets" => TicketsInv
      /\ focus = "commands" => CommandsInv
      /\ focus = "advice" => Advice!TypeOK
      /\ focus = "views" => ViewsInv
      /\ focus = "incidents" => DutyInv
      /\ focus = "fleet" => FleetInv
      /\ focus = "gate" => GateInv
<1>1. ServicesInit => Inv
  <2>1. ServicesInit =>
           /\ focus = "settings" => SettingsInv
           /\ focus = "lists" => ListsInv
           /\ focus = "deploys" => DeploysTyped
           /\ focus = "setup" => SetupInv
           /\ focus = "apps" => AppsInv
           /\ focus = "flags" => FlagsInv /\ FlagsTyped
           /\ focus = "advice" => Advice!TypeOK
           /\ focus = "gate" => GateInv
    BY SettingsStarts, ListsStarts, DeploysStarts, SetupStarts, AppsStarts, FlagsStarts,
       AdviceStarts, GateStarts, SettingsInitInv, ListsInitInv, DeploysInitTyped, SetupInitInv,
       AppsInitInv, FlagsInitInv, FlagsInitTyped, AdviceInitTyped, GateInitInv
  <2>2. ServicesInit =>
           /\ focus = "secrets" => SecretsInv
           /\ focus = "audit" => AuditInv
           /\ focus = "terminal" => SharedInv
           /\ focus = "views" => ViewsInv
           /\ focus = "incidents" => DutyInv
           /\ focus = "fleet" => FleetInv
    BY SecretsStarts, AuditStarts, SharedStarts, ViewsStarts, DutyStarts, FleetStarts,
       SecretsInitInv, AuditInitInv, SharedInitInv, ViewsInitInv, DutyInitInv, FleetInitInv
  <2>3. ServicesInit =>
           /\ focus = "tasks" => TasksInv
           /\ focus = "watch" => WatchInv
           /\ focus = "tickets" => TicketsInv
           /\ focus = "commands" => CommandsInv
    BY TasksStarts, WatchStarts, TicketsStarts, CommandsStarts,
       TasksInitInv, WatchInitInv, TicketsInitInv, CommandsInitInv
  <2> QED
    BY <2>1, <2>2, <2>3
<1>2. Inv /\ [ServicesNext]_<<focus, places>> => Inv'
  <2> SUFFICES ASSUME Inv, [ServicesNext]_<<focus, places>> PROVE Inv'
    OBVIOUS
  <2>1. UNCHANGED focus
    BY SettingsGoes
  <2>2. /\ focus = "settings" => SettingsInv'
        /\ focus = "lists" => ListsInv'
        /\ focus = "deploys" => DeploysTyped'
        /\ focus = "setup" => SetupInv'
    BY SettingsGoes, ListsGoes, DeploysGoes, SetupGoes,
       SettingsStepInv, ListsStepInv, DeploysStepTyped, SetupStepInv
  <2>3. /\ focus = "apps" => AppsInv'
        /\ focus = "flags" => FlagsInv' /\ FlagsTyped'
        /\ focus = "advice" => Advice!TypeOK'
        /\ focus = "gate" => GateInv'
    BY AppsGoes, FlagsGoes, AdviceGoes, GateGoes,
       AppsStepInv, FlagsStepInv, FlagsStepTyped, AdviceStepTyped, GateStepInv,
       ServicesAssumption
  <2>4. /\ focus = "secrets" => SecretsInv'
        /\ focus = "audit" => AuditInv'
        /\ focus = "terminal" => SharedInv'
        /\ focus = "views" => ViewsInv'
        /\ focus = "incidents" => DutyInv'
        /\ focus = "fleet" => FleetInv'
    BY SecretsGoes, AuditGoes, SharedGoes, ViewsGoes, DutyGoes, FleetGoes,
       SecretsStepInv, AuditStepInv, SharedStepInv, ViewsStepInv, DutyStepInv, FleetStepInv
  <2>5. /\ focus = "tasks" => TasksInv'
        /\ focus = "watch" => WatchInv'
        /\ focus = "tickets" => TicketsInv'
        /\ focus = "commands" => CommandsInv'
    BY TasksGoes, WatchGoes, TicketsGoes, CommandsGoes,
       TasksStepInv, WatchStepInv, TicketsStepInv, CommandsStepInv
  <2> QED
    BY <2>1, <2>2, <2>3, <2>4, <2>5
<1>3. Inv => ServicesTypeOK
  BY DeploysTypesHold, FlagsTypesHold
     DEF ServicesTypeOK, SettingsInv, ListsInv, SetupInv, AppsInv, SecretsInv, AuditInv,
         SharedInv, TasksInv, WatchInv, TicketsInv, CommandsInv, ViewsInv, DutyInv, FleetInv,
         GateInv
<1> HIDE DEF Inv
<1> QED
  BY <1>1, <1>2, <1>3, PTL DEF ServicesSpec

=============================================================================
