---------------------------- MODULE DiscordWatch ----------------------------
(***************************************************************************)
(* What the Discord service does by the clock: the health checks           *)
(* (modules/healthChecks.js), the collection of statistics with its alerts *)
(* (modules/monitoring.js), the users' alerts (modules/alertManager.js)    *)
(* and the status widget of a channel (modules/serverStatus.js).  A timer  *)
(* fires whether or not the lap it began last is over; a lap awaits the    *)
(* database, Docker and Discord.  The four share nothing: a behaviour is   *)
(* that of one of them.                                                    *)
(***************************************************************************)
EXTENDS Naturals, FiniteSets, Sequences

CONSTANTS
    Container,      \* containers: 1..n, in the order of a lap
    None,           \* not there
    Cooldown,       \* ALERT_COOLDOWN_MS, in ticks
    MaxTime,        \* bound: ticks
    MaxLaps,        \* bound: laps under way of one loop
    MaxMessages     \* bound: widgets ever posted

VARIABLES
    loop,           \* which of the four
    now,            \* the time
    laps,           \* laps under way: [n, todo]
    loopRunning,    \* health checks: the guard
    alertState,     \* monitoring: when each container was last alerted about
    notified,       \* history: the times at which it was
    widget,         \* the message the widget of the channel is in
    messages,       \* the messages that are in the channel; the last one's number
    posting,        \* commands that have posted a widget
    updating,       \* updates of the widget under way: the message each has read
    timers,         \* the intervals that fire
    tracked         \* updateIntervals: the channel's interval

clock == <<loop, now, alertState, notified>>
widgets == <<widget, messages, posting, updating, timers, tracked>>
vars == <<clock, laps, loopRunning, widgets>>

Loop == {"health", "monitor", "alerts", "widget"}
Lap == [n : 1..MaxLaps, todo : Seq(Container)]

All == [i \in 1..Cardinality(Container) |-> i]

\* A lap begins with the list of what there is, or ends at once without it.
BeginLap ==
    \E n \in 1..MaxLaps :
        /\ \A m \in 1..n : m = n <=> m \notin {lap.n : lap \in laps}
        /\ laps' = laps \cup {[n |-> n, todo |-> All]}

EndLap(lap) == laps' = laps \ {lap}

Proceed(lap) == laps' = (laps \ {lap}) \cup {[lap EXCEPT !.todo = Tail(@)]}

-----------------------------------------------------------------------------
\* Health: runLoop.  A second lap does not begin.
healthFireAlways == BeginLap /\ loopRunning' = TRUE
healthFire ==
    IF loopRunning THEN UNCHANGED <<laps, loopRunning>>
    ELSE BeginLap /\ loopRunning' = TRUE

HealthFire == loop = "health" /\ healthFire /\ UNCHANGED <<clock, widgets>>

\* runHealthCheck, updateCheckStatus and notifyFailure for the next check; each
\* keeps its failures to itself.
HealthCheck(lap) ==
    /\ loop = "health" /\ lap.todo # <<>>
    /\ Proceed(lap)
    /\ UNCHANGED <<clock, loopRunning, widgets>>

\* The lap is over, at its end or because the checks could not be read.
HealthEnd(lap) ==
    /\ loop = "health" /\ lap.todo \in {All, <<>>}
    /\ EndLap(lap) /\ loopRunning' = FALSE
    /\ UNCHANGED <<clock, widgets>>

-----------------------------------------------------------------------------
\* Monitoring: collectLoop, every minute.
MonitorFire == loop = "monitor" /\ BeginLap /\ UNCHANGED <<clock, loopRunning, widgets>>

\* checkAlerts notes the time before it awaits the message, whether or not that
\* can be sent.
DueAlways(c) == TRUE
Due(c) == IF alertState[c] = None THEN TRUE ELSE now - alertState[c] >= Cooldown

\* The next container's statistics: not to be had, or below the threshold, or
\* above it.
Collect(lap) ==
    /\ loop = "monitor" /\ lap.todo # <<>>
    /\ Proceed(lap)
    /\ LET c == Head(lap.todo) IN
          \/ UNCHANGED <<alertState, notified>>
          \/ /\ Due(c)
             /\ alertState' = [alertState EXCEPT ![c] = now]
             /\ notified' = [notified EXCEPT ![c] = Append(@, now)]
    /\ UNCHANGED <<loop, now, loopRunning, widgets>>

MonitorEnd(lap) ==
    /\ loop = "monitor" /\ lap.todo \in {All, <<>>}
    /\ EndLap(lap)
    /\ UNCHANGED <<clock, loopRunning, widgets>>

-----------------------------------------------------------------------------
\* Alerts: alertCheckLoop, every two minutes, sends a message for each alert
\* that is above its threshold; it keeps nothing.
AlertsFire == loop = "alerts" /\ BeginLap /\ UNCHANGED <<clock, loopRunning, widgets>>

EvaluateAlert(lap) ==
    /\ loop = "alerts" /\ lap.todo # <<>>
    /\ Proceed(lap)
    /\ UNCHANGED <<clock, loopRunning, widgets>>

AlertsEnd(lap) ==
    /\ loop = "alerts" /\ lap.todo \in {All, <<>>}
    /\ EndLap(lap)
    /\ UNCHANGED <<clock, loopRunning, widgets>>

-----------------------------------------------------------------------------
\* createWidget posts a message, then makes it the channel's widget and starts
\* an interval in place of the one there was.
createWidget ==
    /\ loop = "widget" /\ messages.last < MaxMessages
    /\ messages' = [last |-> messages.last + 1, there |-> messages.there \cup {messages.last + 1}]
    /\ posting' = posting \cup {messages.last + 1}
    /\ UNCHANGED <<clock, laps, loopRunning, widget, updating, timers, tracked>>

\* Intervals are named by the widget they were started for.
startWidgetUpdate(m) ==
    /\ timers' = (timers \ {tracked}) \cup {m}
    /\ tracked' = m

Posted(m) ==
    /\ m \in posting /\ posting' = posting \ {m}
    /\ widget' = m
    /\ startWidgetUpdate(m)
    /\ UNCHANGED <<clock, laps, loopRunning, messages, updating>>

\* updateWidget, of an interval or of the refresh button: the widget is read,
\* its message fetched, and if that is not to be had the widget (the one there
\* is by now) is given up.
UpdateWidget ==
    /\ widget # None
    /\ timers # {} \/ widget \in messages.there
    /\ updating' = updating \cup {widget}
    /\ UNCHANGED <<clock, laps, loopRunning, widget, messages, posting, timers, tracked>>

Fetched(m) ==
    /\ m \in updating /\ updating' = updating \ {m}
    /\ \/ UNCHANGED <<widget, timers>>
       \/ widget' = None /\ timers' = timers \ {tracked}
    /\ UNCHANGED <<clock, laps, loopRunning, messages, posting, tracked>>

\* Somebody deletes the message.
Removed(m) ==
    /\ m \in messages.there
    /\ messages' = [messages EXCEPT !.there = @ \ {m}]
    /\ UNCHANGED <<clock, laps, loopRunning, widget, posting, updating, timers, tracked>>

-----------------------------------------------------------------------------
Tick ==
    /\ now < MaxTime /\ now' = now + 1
    /\ UNCHANGED <<loop, alertState, notified, laps, loopRunning, widgets>>

Init ==
    /\ loop \in Loop
    /\ now = 0
    /\ laps = {} /\ loopRunning = FALSE
    /\ alertState = [c \in Container |-> None]
    /\ notified = [c \in Container |-> <<>>]
    /\ widget = None /\ messages = [last |-> 0, there |-> {}]
    /\ posting = {} /\ updating = {} /\ timers = {} /\ tracked = None

Next ==
    \/ HealthFire \/ MonitorFire \/ AlertsFire \/ Tick
    \/ \E lap \in laps : \/ HealthCheck(lap) \/ HealthEnd(lap)
                         \/ Collect(lap) \/ MonitorEnd(lap)
                         \/ EvaluateAlert(lap) \/ AlertsEnd(lap)
    \/ createWidget \/ UpdateWidget
    \/ \E m \in 1..MaxMessages : Posted(m) \/ Fetched(m) \/ Removed(m)

Spec == Init /\ [][Next]_vars

-----------------------------------------------------------------------------
\* The laps, alerts and widgets have their types.
TypeOK ==
    /\ now \in 0..MaxTime
    /\ loop \in Loop
    /\ laps \subseteq Lap
    /\ loopRunning \in BOOLEAN
    /\ alertState \in [Container -> (0..now) \cup {None}]
    /\ widget \in (1..MaxMessages) \cup {None}
    /\ posting \cup updating \cup timers \subseteq 1..MaxMessages

\* The health checks never run two laps at once, and the guard is down again
\* after each (runLoop's finally).
OneLap ==
    loop = "health" => Cardinality(laps) = (IF loopRunning THEN 1 ELSE 0)

\* However laps overlap, no container is alerted about twice within the
\* cooldown (checkAlerts).
NotifiedOnce ==
    \A c \in Container : \A i \in 1..Len(notified[c]) - 1 :
        notified[c][i + 1] - notified[c][i] >= Cooldown

\* A channel never has two intervals, nor one that clearInterval cannot reach.
OneTimer == timers \subseteq {tracked}

\* Timers and laps do not pile up, nor do the messages they send.
WatchesKept == OneLap /\ NotifiedOnce /\ OneTimer

=============================================================================
