---------------------------- MODULE DiscordCommands ---------------------------
(***************************************************************************)
(* How the Discord bot answers a slash command: the handlers of the        *)
(* command modules and the dispatcher of index.js.  Discord gives a        *)
(* command three seconds: until then the bot either replies or defers,     *)
(* after which it edits its deferred reply.  discord.js refuses a call     *)
(* that does not fit (a second reply, an edit of nothing), Discord refuses *)
(* one that is late, and either throws in the handler.                     *)
(*                                                                         *)
(* A handler is the sequence of its steps.  Only what decides the answer   *)
(* is kept of them: which call may fail, what that leads to and by which   *)
(* method each exit answers.  What the calls do to containers, tasks,      *)
(* pools and tickets is in the modules about those.                        *)
(***************************************************************************)
EXTENDS Naturals, Sequences

CONSTANT MaxFailures     \* messages Discord refuses for no fault of the bot

VARIABLES command,       \* the command that was given
          at,            \* the step its handler is at
          phase,         \* where control is
          ack,           \* the interaction: "none", "deferred" or "replied"
          told,          \* the user reads an answer
          late,          \* the three seconds are over
          worked,        \* something was changed for the command
          confused,      \* discord.js refused a call that does not fit
          failures

vars == <<command, at, phase, ack, told, late, worked, confused, failures>>

-----------------------------------------------------------------------------

(* Steps.  "or" is what a failure leads to: "throw" leaves the handler,     *)
(* "on" is swallowed, and a method answers from the handler's own catch.    *)

Defer == [op |-> "defer", by |-> "defer", or |-> "throw"]

Call == [op |-> "call", by |-> "none", or |-> "throw"]
CallOr(m) == [Call EXCEPT !.or = m]

\* A call that changes something.
Work == [op |-> "work", by |-> "none", or |-> "throw"]
WorkOr(m) == [Work EXCEPT !.or = m]

\* An assignment, which neither fails nor takes time.
Assign == [Work EXCEPT !.or = "never"]

\* A condition under which the handler answers and returns.
Exit(m) == [op |-> "exit", by |-> m, or |-> "throw"]

\* An answer; what it rejects with is caught only where it is awaited.
Say(m) == [op |-> "say", by |-> m, or |-> "throw"]
SayOr(m, n) == [Say(m) EXCEPT !.or = n]

E == Exit("edit")
R == Exit("reply")

\* vpsCommands.js: everything is deferred first.  deletevps asks for a button,
\* whose own interaction it updates once the VPS is gone.
vpsLifecycle == [
    createvps |-> <<Defer, Work, E, Say("edit")>>,
    listvps   |-> <<Defer, Call, E, Say("edit")>>,
    runvps    |-> <<Defer, Call, E, Work, Say("edit")>>,
    deletevps |-> <<Defer, Call, E, Say("edit"), CallOr("edit"),
                    Exit("update"), WorkOr("edit"), Say("update")>>]

vpsRecords == [
    vpsstats   |-> <<Defer, Call, E, Call, E, Say("edit")>>,
    backup     |-> <<Defer, Call, E, E, Work, E, Say("edit")>>,
    backuplist |-> <<Defer, Call, E, Call, E, Say("edit")>>,
    restore    |-> <<Defer, Call, E, Work, Say("edit")>>,
    vpsupdate  |-> <<Defer, Call, E, E, WorkOr("edit"), WorkOr("edit"), Say("edit")>>]

monitoring == [
    vpsgraph          |-> <<Defer, Call, E, Call, E, Say("edit")>>,
    setalertthreshold |-> <<R, R, Assign, Say("reply")>>]

healthChecks == [
    health       |-> <<CallOr("on"), Defer, Call, E, WorkOr("on"), Say("edit")>>,
    healthcreate |-> <<CallOr("on"), Defer, Call, E, E, WorkOr("edit"), Say("edit")>>,
    healthlist   |-> <<CallOr("on"), Defer, Call, E, Say("edit")>>]

alertManager == [
    alertcreate |-> <<R, Call, R, WorkOr("reply"), Say("reply")>>,
    alertlist   |-> <<CallOr("on"), R, Say("reply")>>,
    alertdelete |-> <<WorkOr("on"), R, Say("reply")>>]

taskScheduler == [
    cron_create |-> <<Defer, E, Call, E, WorkOr("edit"), CallOr("edit"), Say("edit")>>,
    cron_list   |-> <<Defer, CallOr("on"), E, Say("edit")>>,
    cron_delete |-> <<Defer, E, WorkOr("edit"), CallOr("edit"), Say("edit")>>,
    cron_toggle |-> <<Defer, E, WorkOr("edit"), CallOr("edit"), Say("edit")>>,
    cron_other  |-> <<Defer, Say("edit")>>]

maintenance == [
    cleanupdryrun |-> <<Defer, Call, E, Call, Say("edit")>>,
    cleanuprun    |-> <<Defer, Call, E, WorkOr("on"), Say("edit")>>,
    updatecheck   |-> <<Defer, Call, E, CallOr("edit"), Say("edit")>>,
    updateapply   |-> <<Defer, Call, E, WorkOr("edit"), Say("edit")>>]

templateManager == [
    templatecreate |-> <<WorkOr("reply"), Say("reply")>>,
    templateapply  |-> <<Defer, CallOr("edit"), E, WorkOr("edit"), E, Say("edit")>>,
    templatelist   |-> <<CallOr("reply"), Say("reply")>>]

resourcePools == [
    resourcepoolcreate |-> <<CallOr("on"), WorkOr("reply"), Say("reply")>>,
    resourcepooldelete |-> <<CallOr("on"), WorkOr("on"), R, Say("reply")>>,
    resourcepoollist   |-> <<CallOr("on"), CallOr("on"), R, Say("reply")>>,
    resourcepooladd    |-> <<CallOr("on"), Call, R, Work, R, Say("reply")>>,
    resourcepoolremove |-> <<CallOr("on"), Call, R, Work, R, Say("reply")>>]

dbManager == [
    db_create |-> <<Defer, CallOr("on"), WorkOr("on"), E, CallOr("on"), Say("edit")>>,
    db_list   |-> <<Defer, CallOr("on"), CallOr("on"), E, Say("edit")>>,
    db_delete |-> <<Defer, CallOr("on"), WorkOr("edit"), Say("edit")>>,
    db_info   |-> <<Defer, CallOr("on"), CallOr("on"), E, CallOr("edit"),
                    SayOr("edit", "edit")>>]

\* legacyCommands.js creates its table before any of them.
legacyServers == [
    node      |-> <<CallOr("on"), Call, Say("reply")>>,
    deploy    |-> <<CallOr("on"), Defer, Call, E, WorkOr("edit"), E, Say("edit")>>,
    regen_ssh |-> <<CallOr("on"), Defer, Call, E, WorkOr("edit"), E, Say("edit")>>]

legacyCredits == [
    earncredit |-> <<CallOr("on"), R, CallOr("on"), R, R, CallOr("reply"), R,
                     WorkOr("reply"), WorkOr("on"), Say("reply")>>,
    bal        |-> <<CallOr("on"), CallOr("on"), Say("reply")>>,
    renew      |-> <<CallOr("on"), Call, R, WorkOr("on"), R, WorkOr("on"), Say("reply")>>]

legacyPorts == [
    port_add  |-> <<CallOr("on"), R, Call, R, Defer, WorkOr("edit"), Say("edit")>>,
    port_http |-> <<CallOr("on"), R, Call, R, Defer, Work, E, Say("edit")>>]

petCommands == [
    pet        |-> <<Defer, CallOr("edit"), E, SayOr("edit", "edit"),
                     SayOr("followUp", "edit")>>,
    pet_status |-> <<Defer, CallOr("edit"), Say("edit")>>]

Names(modules) == UNION {DOMAIN m : m \in modules}
Handler(c, modules) == (CHOOSE m \in modules : c \in DOMAIN m)[c]

\* The dispatcher catches what these throw.
COMMAND_MODULES ==
    {vpsLifecycle, vpsRecords, monitoring, healthChecks, alertManager, taskScheduler,
     maintenance, templateManager, resourcePools, dbManager, legacyServers,
     legacyCredits, legacyPorts, petCommands}
Guarded == Names(COMMAND_MODULES)

\* The handlers index.js calls without a catch.  A channel or a member that a
\* direct message does not have throws before the first answer.
ticketCommands == [
    setuptickets |-> <<Defer, WorkOr("edit"), SayOr("edit", "edit")>>,
    addstaff     |-> <<Call, R, WorkOr("on"), SayOr("reply", "reply")>>,
    removestaff  |-> <<Call, R, WorkOr("on"), SayOr("reply", "reply")>>,
    ticketstats  |-> <<Defer, Say("edit")>>]

statsCommands == [
    serverstats |-> <<Defer, Call, E, E, CallOr("edit"), E, SayOr("edit", "edit")>>,
    leaderboard |-> <<Defer, E, E, CallOr("edit"), E, SayOr("edit", "edit")>>]

serverStatus == [
    status_widget |-> <<Call, R, Defer, Work, Say("edit")>>,
    status_info   |-> <<Defer, Say("edit")>>]

\* /server in its channel; elsewhere it, /role and /report reach no handler.
interactionCreate == [
    server    |-> <<Call, R, Say("reply")>>,
    role      |-> << >>,
    report    |-> << >>]

Unguarded == {ticketCommands, statsCommands, serverStatus, interactionCreate}

Handlers ==
    [c \in Guarded \cup Names(Unguarded) |->
        IF c \in Guarded THEN Handler(c, COMMAND_MODULES) ELSE Handler(c, Unguarded)]

-----------------------------------------------------------------------------

TypeOK ==
    /\ command \in DOMAIN Handlers
    /\ at \in 1..(Len(Handlers[command]) + 1)
    /\ phase \in {"run", "edit", "reply", "fallback", "ended", "dead"}
    /\ ack \in {"none", "deferred", "replied"}
    /\ told \in BOOLEAN /\ late \in BOOLEAN
    /\ worked \in BOOLEAN /\ confused \in BOOLEAN
    /\ failures \in 0..MaxFailures

Init ==
    /\ command \in DOMAIN Handlers
    /\ at = 1
    /\ phase = "run"
    /\ ack = "none"
    /\ told = FALSE
    /\ late = FALSE
    /\ worked = FALSE
    /\ confused = FALSE
    /\ failures = 0

Step == Handlers[command][at]

\* discord.js: the first answer, or one that follows it.
Fits(m) == m = "update" \/ (m \in {"defer", "reply"} <=> ack = "none")

\* Where a failure goes that the handler leaves uncaught: to the dispatcher's
\* catch, or to nobody and then the process ends.
Uncaught == IF command \in Guarded THEN "fallback" ELSE "dead"

Fails(or) == IF or = "throw" THEN Uncaught ELSE or

Goto(p) == phase' = p /\ UNCHANGED at
Onward == at' = at + 1 /\ UNCHANGED phase

Accepted(m) ==
    /\ Fits(m)
    /\ late => m \notin {"defer", "reply"}
    /\ ack' = CASE m = "defer" -> "deferred"
                [] m = "reply" -> "replied"
                [] OTHER       -> ack
    /\ told' = (told \/ m # "defer")
    /\ UNCHANGED <<confused, failures>>

\* Refused by discord.js, by Discord because it is late, or by Discord for no
\* fault of the bot.  A button is answered after as long as its work takes.
Refused(m) ==
    /\ \/ ~Fits(m) /\ confused' = TRUE /\ UNCHANGED failures
       \/ /\ Fits(m) /\ ((late /\ m \in {"defer", "reply"}) \/ m = "update")
          /\ UNCHANGED <<confused, failures>>
       \/ /\ Fits(m) /\ failures < MaxFailures /\ failures' = failures + 1
          /\ UNCHANGED confused
    /\ UNCHANGED <<ack, told>>

-----------------------------------------------------------------------------

Running(op) == phase = "run" /\ at <= Len(Handlers[command]) /\ Step.op = op

\* Defer and Say.
Send ==
    /\ Running("defer") \/ Running("say")
    /\ \/ Accepted(Step.by) /\ Onward
       \/ Refused(Step.by) /\ Goto(Fails(Step.or))
    /\ UNCHANGED <<command, late, worked>>

Decide ==
    /\ Running("exit")
    /\ \/ Onward /\ UNCHANGED <<ack, told, confused, failures>>
       \/ Accepted(Step.by) /\ Goto("ended")
       \/ Refused(Step.by) /\ Goto(Uncaught)
    /\ UNCHANGED <<command, late, worked>>

\* A call takes as long as it takes: an interaction nothing has answered yet
\* may run out meanwhile.  One that changes something may do so and still fail.
Await ==
    /\ Running("call") \/ Running("work")
    /\ \/ Onward /\ worked' = (worked \/ Step.op = "work")
       \/ /\ Step.or \notin {"on", "never"}
          /\ Goto(Fails(Step.or))
          /\ worked' \in {worked, worked \/ Step.op = "work"}
       \/ Step.or = "on" /\ Onward /\ UNCHANGED worked
    /\ late' \in {late, late \/ (ack = "none" /\ Step.or # "never")}
    /\ UNCHANGED <<command, ack, told, confused, failures>>

Return ==
    /\ phase = "run" /\ at > Len(Handlers[command])
    /\ Goto("ended")
    /\ UNCHANGED <<command, ack, told, late, worked, confused, failures>>

\* A catch of the handler's own: it answers by the method of its row.
Catch ==
    /\ phase \in {"edit", "reply"}
    /\ \/ Accepted(phase) /\ Goto("ended")
       \/ Refused(phase) /\ Goto(Uncaught)
    /\ UNCHANGED <<command, late, worked>>

\* A dispatcher that always replies.
FallbackRepliesOnly == "reply"

\* The dispatcher edits what is deferred or replied and replies otherwise.
FallbackMethod == IF ack # "none" THEN "edit" ELSE "reply"

\* The dispatcher's catch; a failure of it is only logged.
Fallback ==
    /\ phase = "fallback"
    /\ \/ Accepted(FallbackMethod)
       \/ Refused(FallbackMethod)
    /\ Goto("ended")
    /\ UNCHANGED <<command, late, worked>>

Next == Send \/ Decide \/ Await \/ Return \/ Catch \/ Fallback

Spec == Init /\ [][Next]_vars

-----------------------------------------------------------------------------

\* No handler makes a call discord.js refuses: never a second reply, never an
\* edit of an answer that was not begun, on any path through its catches and
\* the dispatcher's.
NeverConfused == ~confused

\* A command of COMMAND_MODULES that ended has answered, whatever its calls
\* did, unless Discord refused a message or the command ran out of time: the
\* user is not left with a deferred reply that nothing edits.
EndsAnswered ==
    phase = "ended" /\ command \in Guarded /\ failures = 0 /\ ~late => told

\* A command that defers changes nothing for an interaction Discord has given
\* up on: what it does comes after the deferral was accepted.
Deferring == {c \in DOMAIN Handlers : \E i \in DOMAIN Handlers[c] : Handlers[c][i] = Defer}

NothingDoneUnheard == command \in Deferring /\ worked => ack # "none"

CommandsAnswered == NeverConfused /\ EndsAnswered /\ NothingDoneUnheard
=============================================================================
