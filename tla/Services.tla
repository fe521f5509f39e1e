------------------------------ MODULE Services ------------------------------
(***************************************************************************)
(* The services of the management panel, the bot and the orchestrator that *)
(* keep their state to themselves.  They meet nowhere: a behaviour is one  *)
(* of one of them, the one in focus, and the others stay out of it.  The   *)
(* variables of all are the shared places s1..s18, of which a service      *)
(* takes the first few and leaves the rest empty.                          *)
(***************************************************************************)
EXTENDS Naturals, Sequences, FiniteSets

CONSTANTS
    None, User, Slot,
    \* ConfigVersions
    Vars, Java, Limit,
    \* SharedLists
    Kind,
    \* Deployments
    Admin, Window, PolicyBody, SignalsBody, Environment, ConfigsOf, Forwarding,
    \* PanelSetup
    DemoCustomers, DemoApps,
    \* AuditTrail
    AuditTable,
    \* PanelApps
    AppsOwner,
    \* PanelFlags
    Rule, Bucket,
    \* Terminal
    Session, OutputCap, ScreenCap,
    \* DiscordWatch
    Container, Cooldown,
    \* Incidents
    Rotas, Person,
    \* LivingFleet
    Workload, GHOST_MINUTES,
    \* FreezeWeek
    Days, Day,
    \* bounds of some services each, by their focus, and of one service
    Requests, Time,
    SetupFailures, MaxFailures, MaxRestarts, MaxFetches, MaxMounts, MaxSockets,
    MaxCommands, MaxTasks, MaxJobs, MaxRuns, MaxLaps, MaxMessages, MaxPresses,
    MaxLoads, MaxWrites, MaxSubjects, MaxIncidents, MaxEvents

VARIABLES focus, s1, s2, s3, s4, s5, s6, s7, s8, s9,
          s10, s11, s12, s13, s14, s15, s16, s17, s18

rest14 == <<s15, s16, s17, s18>>
rest13 == <<s14, rest14>>
rest12 == <<s13, rest13>>
rest11 == <<s12, rest12>>
rest10 == <<s11, rest11>>
rest9 == <<s10, rest10>>
rest8 == <<s9, rest9>>
rest7 == <<s8, rest8>>
rest6 == <<s7, rest7>>
rest5 == <<s6, rest6>>
places == <<s1, s2, s3, s4, s5, rest5>>

Empty14 == s15 = None /\ s16 = None /\ s17 = None /\ s18 = None
Empty13 == s14 = None /\ Empty14
Empty12 == s13 = None /\ Empty13
Empty11 == s12 = None /\ Empty12
Empty10 == s11 = None /\ Empty11
Empty9 == s10 = None /\ Empty10
Empty8 == s9 = None /\ Empty9
Empty7 == s8 = None /\ Empty8
Empty6 == s7 = None /\ Empty7
Empty5 == s6 = None /\ Empty6

\* The services' names for their places.
req == s1
answer == s1
store == s1
sockets == s1
lastRunStatus == s1
loop == s1
counter == s1
command == s1
open == s1
requests == s2
manual == s2
unread == s2
peer == s2
live == s2
laps == s2
tickets == s2
at == s2
scope == s2
subject == s2
failures == s3
session == s3
loopRunning == s3
text == s3
asked == s3
restarts == s4
now == s4
view == s4
exists == s4
accounts == s4
secret == s4
state == s4
taskOf == s4
phase == s4
report == s4
rota == s4
windows == s5
rows == s5
shown == s5
settings == s5
kind == s5
status == s5
history == s5
room == s5
alertState == s5
channels == s5
ack == s5
heeded == s5
created == s5
reading == s5
excused == s6
told == s6
versions == s6
list == s6
policy == s6
running == s6
lost == s6
terminalRooms == s6
jobs == s6
notified == s6
made == s6
woken == s6
events == s6
seenUp == s6
file == s7
signals == s7
admins == s7
memory == s7
who == s7
clients == s7
registeredTasks == s7
widget == s7
category == s7
late == s7
loads == s7
named == s7
hooks == s8
alerts == s8
setups == s8
workspaces == s8
registered == s8
output == s8
reloads == s8
messages == s8
posts == s8
worked == s8
writes == s8
table == s7
trail == s8
deployments == s9
unsure == s9
flag == s9
inbox == s9
cmd == s9
posting == s9
handler == s9
confused == s9
pressed == s9
orchestrated == s10
rule == s10
wsRef == s10
runs == s10
updating == s10
presses == s10
done == s10
lasting == s11
nudges == s11
shows == s11
missed == s11
timers == s11
mounted == s12
commands == s12
tracked == s12
cache == s13
doubled == s13
busy == s11
kept == s14
clears == s12
fetches == s15
changes == s16
mounts == s17
polls == s18

\* What the services' types rest on: a week has days and a day has minutes
\* (FreezeWeek), what is seeded is finitely many names, none of them the word
\* for nothing (PanelSetup), what a body sets has passed the validation of
\* deploy-freeze.ts (Deployments) or feature-flags.ts (PanelFlags), the one
\* whose apps these are may call (PanelApps), a rota is a list of names
\* (Incidents), a minute is no answer (LivingFleet), there are finitely many
\* containers, 1..n among them, and a cooldown (DiscordWatch), requests have
\* finitely many slots, and None is no number and no entry of the audit log.
\* The bounds are numbers; one task, one question of a screen and one subject
\* are the least.
ASSUME ServicesAssumption ==
    /\ Days \in Nat \ {0} /\ Day \in Nat \ {0}
    /\ AppsOwner \in User
    /\ IsFiniteSet(DemoCustomers \cup DemoApps) /\ "nothing" \notin DemoCustomers \cup DemoApps
    /\ \A levels \in Rotas : levels \in Seq(STRING)
    /\ {GHOST_MINUTES, OutputCap, ScreenCap} \subseteq Nat
    /\ \A w \in Window : w.override \in BOOLEAN
    /\ \A body \in PolicyBody : \A f \in DOMAIN body :
           body[f] \in IF f = "floor" THEN {None} \cup Nat ELSE BOOLEAN
    /\ \A body \in SignalsBody : \A f \in DOMAIN body : body[f] \in {None} \cup Nat
    /\ Rule \subseteq [enabled : BOOLEAN, rollout : 0..100,
                       deny : SUBSET {"browser", "discord"},
                       target : SUBSET {"browser", "discord"}]
    /\ IsFiniteSet(Container) /\ 1..Cardinality(Container) \subseteq Container
    /\ Cooldown \in Nat /\ IsFiniteSet(Slot) /\ None \notin Nat
    /\ None \notin [user : User, action : {"create", "update", "delete"}, id : Nat, on : BOOLEAN]
    /\ Requests \in [{"settings", "lists", "deploys", "setup", "apps", "secrets",
                       "flags", "audit"} -> Nat]
    /\ Time \in [{"deploys", "watch", "fleet"} -> Nat]
    /\ {SetupFailures, MaxFailures, MaxRestarts, MaxFetches, MaxMounts, MaxSockets,
        MaxCommands, MaxTasks, MaxJobs, MaxRuns, MaxLaps, MaxMessages, MaxPresses,
        MaxLoads, MaxWrites, MaxSubjects, MaxIncidents, MaxEvents} \subseteq Nat
    /\ 0 \notin {MaxTasks, MaxLoads, MaxSubjects}

-----------------------------------------------------------------------------
Settings == INSTANCE ConfigVersions WITH
    MaxRequests <- Requests.settings
SettingsInit == Settings!Init /\ Empty6
SettingsStep == focus = "settings" /\ Settings!Next /\ UNCHANGED <<focus, rest6>>

Lists == INSTANCE SharedLists WITH
    Nobody <- None, MaxRequests <- Requests.lists
ListsInit == Lists!Init /\ Empty8
ListsStep == focus = "lists" /\ Lists!Next /\ UNCHANGED <<focus, rest8>>

Deploys == INSTANCE Deployments WITH
    MaxTime <- Time.deploys, MaxRequests <- Requests.deploys
DeploysInit == Deploys!Init /\ Empty11
DeploysStep == focus = "deploys" /\ Deploys!Next /\ UNCHANGED <<focus, rest11>>

Setup == INSTANCE PanelSetup WITH
    Customers <- DemoCustomers, Apps <- DemoApps, MaxFailures <- SetupFailures,
    MaxRequests <- Requests.setup
SetupInit == Setup!Init /\ Empty8
SetupStep == focus = "setup" /\ Setup!Next /\ UNCHANGED <<focus, rest8>>

Apps == INSTANCE PanelApps WITH
    Owner <- AppsOwner, MaxRequests <- Requests.apps
AppsInit == Apps!Init /\ Empty9
AppsStep == focus = "apps" /\ Apps!Next /\ UNCHANGED <<focus, rest9>>

Secrets == INSTANCE PanelSecrets WITH
    MaxRequests <- Requests.secrets
SecretsInit == Secrets!Init /\ Empty6
SecretsStep == focus = "secrets" /\ Secrets!Next /\ UNCHANGED <<focus, rest6>>

Audit == INSTANCE AuditTrail WITH
    Table <- AuditTable, MaxRequests <- Requests.audit
AuditInit == Audit!Init /\ Empty8
AuditStep == focus = "audit" /\ Audit!Next /\ UNCHANGED <<focus, rest8>>

Flags == INSTANCE PanelFlags WITH
    MaxRequests <- Requests.flags
FlagsInit == Flags!Init
FlagsStep == focus = "flags" /\ Flags!Next /\ UNCHANGED focus

Shared == INSTANCE Terminal WITH
    Client <- Slot
SharedInit == Shared!Init /\ Empty13
SharedStep == focus = "terminal" /\ Shared!Next /\ UNCHANGED <<focus, rest13>>

Tasks == INSTANCE DiscordTasks
TasksInit == Tasks!Init /\ Empty11
TasksStep == focus = "tasks" /\ Tasks!Next /\ UNCHANGED <<focus, rest11>>

Watch == INSTANCE DiscordWatch WITH
    MaxTime <- Time.watch
WatchInit == Watch!Init /\ Empty12
WatchStep == focus = "watch" /\ Watch!Next /\ UNCHANGED <<focus, rest12>>

Tickets == INSTANCE DiscordTickets
TicketsInit == Tickets!Init /\ Empty10
TicketsStep == focus = "tickets" /\ Tickets!Next /\ UNCHANGED <<focus, rest10>>

Commands == INSTANCE DiscordCommands
CommandsInit == Commands!Init /\ Empty9
CommandsStep == focus = "commands" /\ Commands!Next /\ UNCHANGED <<focus, rest9>>

Advice == INSTANCE ConfigAdvice
AdviceInit == Advice!Init /\ Empty6
AdviceStep == focus = "advice" /\ Advice!Next /\ UNCHANGED <<focus, rest6>>

Views == INSTANCE PanelViews
ViewsInit == Views!Init /\ Empty12
ViewsStep == focus = "views" /\ Views!Next /\ UNCHANGED <<focus, rest12>>

Duty == INSTANCE Incidents
DutyInit == Duty!Init /\ Empty6
DutyStep == focus = "incidents" /\ Duty!Next /\ UNCHANGED <<focus, rest6>>

Fleet == INSTANCE LivingFleet WITH
    MaxTime <- Time.fleet
FleetInit == Fleet!Init /\ Empty7
FleetStep == focus = "fleet" /\ Fleet!Next /\ UNCHANGED <<focus, rest7>>

Gate == INSTANCE FreezeWeek
GateInit == Gate!Init /\ s3 = None /\ Empty5
GateStep == focus = "gate" /\ Gate!Next /\ UNCHANGED <<focus, s3, rest5>>

-----------------------------------------------------------------------------
ServicesInit ==
    \/ focus = "settings" /\ SettingsInit
    \/ focus = "lists" /\ ListsInit
    \/ focus = "deploys" /\ DeploysInit
    \/ focus = "setup" /\ SetupInit
    \/ focus = "apps" /\ AppsInit
    \/ focus = "secrets" /\ SecretsInit
    \/ focus = "audit" /\ AuditInit
    \/ focus = "flags" /\ FlagsInit
    \/ focus = "terminal" /\ SharedInit
    \/ focus = "tasks" /\ TasksInit
    \/ focus = "watch" /\ WatchInit
    \/ focus = "tickets" /\ TicketsInit
    \/ focus = "commands" /\ CommandsInit
    \/ focus = "advice" /\ AdviceInit
    \/ focus = "views" /\ ViewsInit
    \/ focus = "incidents" /\ DutyInit
    \/ focus = "fleet" /\ FleetInit
    \/ focus = "gate" /\ GateInit

ServicesNext ==
    \/ SettingsStep
    \/ ListsStep
    \/ DeploysStep
    \/ SetupStep
    \/ AppsStep
    \/ SecretsStep
    \/ AuditStep
    \/ FlagsStep
    \/ SharedStep
    \/ TasksStep
    \/ WatchStep
    \/ TicketsStep
    \/ CommandsStep
    \/ AdviceStep
    \/ ViewsStep
    \/ DutyStep
    \/ FleetStep
    \/ GateStep

ServicesSpec == ServicesInit /\ [][ServicesNext]_<<focus, places>>

-----------------------------------------------------------------------------
\* Whichever service it is, its state has its type.
ServicesTypeOK ==
    /\ focus = "settings" => Settings!TypeOK
    /\ focus = "lists" => Lists!TypeOK
    /\ focus = "deploys" => Deploys!TypeOK
    /\ focus = "setup" => Setup!TypeOK
    /\ focus = "apps" => Apps!TypeOK
    /\ focus = "secrets" => Secrets!TypeOK
    /\ focus = "audit" => Audit!TypeOK
    /\ focus = "flags" => Flags!TypeOK
    /\ focus = "terminal" => Shared!TypeOK
    /\ focus = "tasks" => Tasks!TypeOK
    /\ focus = "watch" => Watch!TypeOK
    /\ focus = "tickets" => Tickets!TypeOK
    /\ focus = "commands" => Commands!TypeOK
    /\ focus = "advice" => Advice!TypeOK
    /\ focus = "views" => Views!TypeOK
    /\ focus = "incidents" => Duty!TypeOK
    /\ focus = "fleet" => Fleet!TypeOK
    /\ focus = "gate" => Gate!TypeOK

\* The history of an app's settings only grows, at its end, until the app is
\* deleted (ConfigVersions).
SettingsLog == IF focus = "settings" THEN Settings!History ELSE <<>>
SettingsOpen == focus = "settings" => exists
Log == INSTANCE VersionLog WITH
    Snapshot <- Settings!Snapshot, log <- SettingsLog, open <- SettingsOpen
HistoryIsALog == Log!Spec

\* The JSON lists of the panel: no handler loses what it has read
\* (SharedLists).
LostOnlyToStaleReads ==
    [][focus = "lists" => Lists!DropsOnlyStale]_<<focus, places>>

\* The deployment freezes: what freezes the panel all along keeps everybody out
\* whom it does not let pass (Deployments), and the weekly windows of the
\* orchestrator freeze when they say (FreezeWeek).
LastingFreezeHolds ==
    /\ focus = "deploys" => Deploys!LastingFreezeHolds
    /\ focus = "gate" => Gate!FreezeExact

\* The panel's first start and the seeding: what is to be made once is made
\* once, as far as the code and the schema see to it (PanelSetup).
MadeOnce == focus = "setup" => Setup!MadeOnce

\* Start, stop, restart: an app's row says what its container does, or there
\* is a request about to tell it or a reason not to know (PanelApps).
StatusTold == focus = "apps" => Apps!StatusTold

\* What is kept beside a state agrees with it: the current value of a secret is
\* the one its history names (PanelSecrets), the audit log tells of the rows the
\* lists show (AuditTrail), an incident is what its timeline tells (Incidents), a
\* creature what was read of its workload (LivingFleet).
RecordsAgree ==
    /\ focus = "secrets" => Secrets!CurrentRecorded
    /\ focus = "audit" => Audit!TrailTells
    /\ focus = "incidents" => Duty!TimelinesTell
    /\ focus = "fleet" => Fleet!CreaturesTrue

\* Feature flags: who follows a flag has its latest rule once told of it or
\* once it has polled (PanelFlags).
FollowersCatchUp == focus = "flags" => Flags!FollowersCatchUp

\* The shared terminal: those in a session see the same (Terminal).
ScreensAgree == focus = "terminal" => Shared!ScreensAgree

\* The bot's own bookkeeping: every enabled task has one job that fires, every
\* watcher one lap and its messages under the cooldown, every ticket its number
\* and transcript (DiscordTasks, DiscordWatch, DiscordTickets).
BotKeepsTrack ==
    /\ focus = "tasks" => Tasks!JobsKept
    /\ focus = "watch" => Watch!WatchesKept
    /\ focus = "tickets" => Tickets!TicketsKept

\* The bot's commands: each ends with an answer the user can read, and no call
\* that discord.js refuses (DiscordCommands).
CommandsAnswered == focus = "commands" => Commands!CommandsAnswered

\* The configuration advisor: advice that was followed falls silent
\* (ConfigAdvice).
AdviceHeeded == focus = "advice" => Advice!AdviceHeeded

\* The panel's screens: what the answer to the latest question holds and is
\* about, and what a disabled button keeps apart (PanelViews).
ViewsCurrent == focus = "views" => Views!ViewsCurrent

=============================================================================
