------------------------------ MODULE PanelViews ------------------------------
(***************************************************************************)
(* The screens of the management panel (src/App.tsx, src/pages,            *)
(* src/components): what each fetches and when, what it does with an       *)
(* answer, what its buttons send and what it shows after them.             *)
(*                                                                         *)
(* One definition per screen says which of the machine's choices its code  *)
(* makes; the machine plays one screen, chosen initially, against a server *)
(* that answers in any order or not at all.  The server's data is the set  *)
(* of this screen's writes it has carried out; what a screen shows is the  *)
(* set an answer brought, and what it is about: the app, filter, page or   *)
(* query the screen had when it asked.                                     *)
(***************************************************************************)
EXTENDS Integers, FiniteSets

CONSTANTS
    None,               \* no button is disabled; a question not yet read
    MaxLoads,           \* bound: questions a screen asks
    MaxWrites,          \* bound: buttons pressed
    MaxSubjects         \* bound: apps, filters, pages or queries visited

VARIABLES
    view,               \* the screen
    open,               \* it is mounted
    subject,            \* what it is about now
    asked,              \* the number of questions asked
    loads,              \* the questions not yet answered
    writes,             \* the requests of its buttons not yet settled
    pressed,            \* the number of buttons pressed
    done,               \* the writes the server carried out
    told,               \* the writes the screen was told of and shows
    shown,              \* what the screen shows, and which question brought it
    busy,               \* what its disabled buttons are disabled for
    clears              \* a timer will enable them again

vars == <<view, open, subject, asked, loads, writes, pressed, done, told,
          shown, busy, clears>>

-------------------------------------------------------------------------------
(* When a screen asks: "mount", "change" (of its subject), "timer" (an     *)
(* interval), "turn" (a timer started by the answer), "press" (a button),  *)
(* "press idle" (a button disabled while it waits).  A failure keeps what  *)
(* is shown, empties it, or leaves the screen.                             *)
Screen(when, onError, ops) ==
    [when |-> when, onError |-> onError, ops |-> ops, cancels |-> FALSE]

(* A screen whose effect's cleanup makes it ignore the answers to the      *)
(* questions of its earlier runs.                                          *)
Cancelling(s) == [s EXCEPT !.cancels = TRUE]

(* A button.  While its request is under way it is enabled ("free"), all   *)
(* are disabled ("flag"), those of the same row are ("row"), or all are    *)
(* and a callback of an earlier press may enable them ("late"); an input   *)
(* that sends what was typed disables them all, is never disabled itself,  *)
(* and enables them all again ("input").  After a success the screen asks  *)
(* again ("reload"; "await" if the button waits for that too; "later"      *)
(* after a second), changes what it shows ("patch"), shows the answer      *)
(* ("replace"), is left ("leave"), or neither ("none").                    *)
Button(guard, next) == [guard |-> guard, next |-> next]

App == Cancelling(Screen({"mount"}, "empty", {}))
AccessLogViewer == Screen({"mount", "timer"}, "empty", {})
ActivityFeed == Cancelling(Screen({"mount", "change"}, "empty", {}))
AIConfigAdvisor ==
    Screen({"mount", "change", "press idle"}, "keep", {Button("row", "none")})
AlertConfig == Screen({"mount"}, "empty", {Button("free", "reload")})
AlertHistory == Screen({"mount", "timer"}, "empty", {Button("free", "patch")})
BackupArtifacts == Screen({"mount"}, "empty", {})
BackupManager == Screen({"mount"}, "empty", {Button("free", "reload")})
BackupStatus == Screen({"mount", "timer"}, "keep", {})
BillingDashboard == Screen({"mount"}, "keep", {Button("late", "replace")})

(* The awaited question is the poll of the batch's status; a poll that was *)
(* under way at a rollback enables the button of the next batch.           *)
BulkOperations == Screen({"mount"}, "keep", {Button("late", "await")})
ChangeApproval ==
    Screen({"mount", "change", "timer"}, "keep",
           {Button("flag", "reload"), Button("free", "reload")})

(* Saving with Ctrl+S does not look at the button.                         *)
ConfigEditor == Screen({"change"}, "empty", {Button("free", "patch")})
ConfigVersionControl ==
    Screen({"mount", "change"}, "empty",
           {Button("flag", "reload"), Button("free", "reload")})
CronJobManager == Screen({"mount"}, "empty", {Button("free", "reload")})
DatabaseManager == Screen({"mount"}, "empty", {Button("free", "reload")})
GitDeployManager == Screen({"mount"}, "empty", {Button("free", "reload")})
GlobalSearch == Screen({"change"}, "keep", {})
HealthCheckDashboard == Screen({"mount", "timer"}, "empty", {})
LiveLogs == Screen({"change", "press"}, "empty", {})
MainLayout == Cancelling(Screen({"mount", "turn"}, "empty", {}))
MaintenanceScheduler == Screen({"mount"}, "empty", {Button("free", "reload")})
MetricsConfig ==
    Screen({"mount", "press idle"}, "empty", {Button("flag", "none")})
MetricsOverview == Screen({"mount", "timer"}, "empty", {})

(* Its list of installations; its search shows another list.               *)
ModpackBrowser == Screen({"mount", "change"}, "keep", {Button("flag", "later")})
ModpackSearch == Screen({"press"}, "keep", {})
RealtimeMetrics == Screen({"mount", "change", "timer"}, "keep", {})
ResourceDistribution == Cancelling(Screen({"mount", "timer"}, "keep", {}))
ResourceMonitor == Cancelling(Screen({"mount", "timer"}, "keep", {}))
ServerOperationsHub ==
    Screen({"mount", "change"}, "keep",
           {Button("free", "patch"), Button("free", "none")})
SystemOverview == Cancelling(Screen({"mount", "timer"}, "keep", {}))
TwoFactorSetup == Screen({"mount"}, "keep", {Button("free", "replace")})
AppDetail ==
    Screen({"mount", "change"}, "leave",
           {Button("flag", "replace"), Button("flag", "leave")})
AppForm == Screen({"mount", "change"}, "leave", {Button("flag", "leave")})
AuditLog == Screen({"mount", "change", "press"}, "keep", {})
Customers ==
    Screen({"mount", "change"}, "keep",
           {Button("free", "patch"), Button("flag", "await")})
Dashboard == Screen({"mount", "timer"}, "keep", {})

(* The error budget is sent when its input is left, disabled or not.       *)
DeployFreeze ==
    Screen({"mount", "change"}, "keep",
           {Button("flag", "await"), Button("input", "await")})
FeatureFlags == Screen({"mount"}, "keep", {Button("row", "await")})
GitBlame == Screen({"press idle"}, "empty", {})
KnowledgeBase == Screen({"mount", "press"}, "keep", {Button("free", "reload")})
Monitoring == Screen({"change", "timer"}, "empty", {})
Reports == Screen({"press idle"}, "keep", {})
Setup == Screen({}, "keep", {Button("flag", "leave")})

Views ==
    {App, AccessLogViewer, ActivityFeed, AIConfigAdvisor, AlertConfig,
     AlertHistory, BackupArtifacts, BackupManager, BackupStatus,
     BillingDashboard, BulkOperations, ChangeApproval, ConfigEditor,
     ConfigVersionControl, CronJobManager, DatabaseManager, GitDeployManager,
     GlobalSearch, HealthCheckDashboard, LiveLogs, MainLayout,
     MaintenanceScheduler, MetricsConfig, MetricsOverview, ModpackBrowser,
     ModpackSearch, RealtimeMetrics, ResourceDistribution, ResourceMonitor,
     ServerOperationsHub, SystemOverview, TwoFactorSetup, AppDetail, AppForm,
     AuditLog, Customers, Dashboard, DeployFreeze, FeatureFlags, GitBlame,
     KnowledgeBase, Monitoring, Reports, Setup}

-------------------------------------------------------------------------------
Empty == [from |-> 0, about |-> 0, has |-> {}]

(* A question about `about`, asked on behalf of write `by` (0: of none).   *)
Question(about, by) ==
    [id |-> asked + 1, about |-> about, by |-> by, read |-> None,
     past |-> FALSE]

Ask(about, by) ==
    /\ asked < MaxLoads
    /\ asked' = asked + 1
    /\ loads' = loads \union {Question(about, by)}

Init ==
    /\ view \in Views
    /\ open = TRUE
    /\ subject = 1
    /\ loads = IF "mount" \in view.when
               THEN {[id |-> 1, about |-> 1, by |-> 0, read |-> None,
                      past |-> FALSE]}
               ELSE {}
    /\ asked = Cardinality(loads)
    /\ writes = {}
    /\ pressed = 0
    /\ done = {}
    /\ told = {}
    /\ shown = Empty
    /\ busy = None
    /\ clears = FALSE

(* An interval fires, a timer left by the answer fires, a button is used.  *)
Refresh ==
    /\ open
    /\ \/ view.when \intersect {"timer", "press"} # {}
       \/ view.when \intersect {"turn", "press idle"} # {} /\ loads = {}
    /\ Ask(subject, 0)
    /\ UNCHANGED <<view, open, subject, writes, pressed, done, told, shown,
                   busy, clears>>

(* The subject changes: the effect's cleanup runs, then its next run.      *)
Change ==
    /\ open
    /\ "change" \in view.when
    /\ subject < MaxSubjects
    /\ asked < MaxLoads
    /\ subject' = subject + 1
    /\ asked' = asked + 1
    /\ loads' = {[l EXCEPT !.past = TRUE] : l \in loads}
                    \union {Question(subject + 1, 0)}
    /\ UNCHANGED <<view, open, writes, pressed, done, told, shown, busy,
                   clears>>

-------------------------------------------------------------------------------
(* The server reads its data for question l.                               *)
Read(l) ==
    /\ l.read = None
    /\ loads' = (loads \ {l}) \union {[l EXCEPT !.read = done]}
    /\ UNCHANGED <<view, open, subject, asked, writes, pressed, done, told,
                   shown, busy, clears>>

(* The screen takes notice of the outcome of l.                            *)
HeardAlways(l) == open

Heard(l) == open /\ ~(view.cancels /\ l.past)

(* The button that waited for question l is enabled again.                 *)
Enabled(l) == IF l.by # 0 THEN None ELSE busy

(* The answer arrives, whatever was asked and answered in between.         *)
Answer(l) ==
    /\ l.read # None
    /\ loads' = loads \ {l}
    /\ writes' = {w \in writes : w.id # l.by}
    /\ busy' = Enabled(l)
    /\ shown' = IF Heard(l)
                THEN [from |-> l.id, about |-> l.about, has |-> l.read]
                ELSE shown
    /\ UNCHANGED <<view, open, subject, asked, pressed, done, told, clears>>

(* The question fails.                                                     *)
Fail(l) ==
    /\ loads' = loads \ {l}
    /\ writes' = {w \in writes : w.id # l.by}
    /\ busy' = Enabled(l)
    /\ open' = (open /\ ~(Heard(l) /\ view.onError = "leave"))
    /\ shown' = IF Heard(l) /\ view.onError = "empty" THEN Empty ELSE shown
    /\ UNCHANGED <<view, subject, asked, pressed, done, told, clears>>

-------------------------------------------------------------------------------
(* Button b, of row `row`, can be pressed.                                 *)
Pressable(b, row) ==
    CASE b.guard \in {"free", "input"} -> TRUE
      [] b.guard = "row" -> busy # row
      [] OTHER -> busy = None

Press(b, row) ==
    /\ open
    /\ pressed < MaxWrites
    /\ Pressable(b, row)
    /\ pressed' = pressed + 1
    /\ writes' = writes \union
            {[id |-> pressed + 1, button |-> b, about |-> subject,
              at |-> "sent", saw |-> {}]}
    /\ busy' = IF b.guard = "free" THEN busy ELSE row
    /\ UNCHANGED <<view, open, subject, asked, loads, done, told, shown,
                   clears>>

Moved(w, at, saw) ==
    (writes \ {w}) \union {[w EXCEPT !.at = at, !.saw = saw]}

(* The server carries w out.                                               *)
Perform(w) ==
    /\ w.at = "sent"
    /\ done' = done \union {w.id}
    /\ writes' = Moved(w, "done", done')
    /\ UNCHANGED <<view, open, subject, asked, loads, pressed, told, shown,
                   busy, clears>>

(* The screen learns of success: what its handler does next.               *)
Told(w) ==
    /\ w.at = "done"
    /\ told' = told \union {w.id}
    /\ CASE w.button.next = "reload" ->
                /\ Ask(w.about, 0)
                /\ writes' = writes \ {w}
                /\ UNCHANGED <<open, shown>>
         [] w.button.next = "await" ->
                /\ Ask(w.about, w.id)
                /\ writes' = Moved(w, "awaits", w.saw)
                /\ UNCHANGED <<open, shown>>
         [] w.button.next = "later" ->
                /\ writes' = Moved(w, "later", w.saw)
                /\ UNCHANGED <<asked, loads, open, shown>>
         [] w.button.next = "patch" ->
                /\ writes' = writes \ {w}
                /\ shown' = [shown EXCEPT !.has = @ \union {w.id}]
                /\ UNCHANGED <<asked, loads, open>>
         [] w.button.next = "replace" ->
                /\ writes' = writes \ {w}
                /\ shown' = [from |-> 0, about |-> w.about, has |-> w.saw]
                /\ UNCHANGED <<asked, loads, open>>
         [] OTHER ->
                /\ writes' = writes \ {w}
                /\ open' = (open /\ w.button.next # "leave")
                /\ UNCHANGED <<asked, loads, shown>>
    /\ busy' = IF w.button.guard = "free" \/ w.button.next = "await"
               THEN busy ELSE None
    /\ clears' = (clears \/ w.button.guard = "late")
    /\ UNCHANGED <<view, subject, pressed, done>>

(* The screen learns of a failure, whether or not the server carried w     *)
(* out: a message, and the button is enabled.                              *)
Refused(w) ==
    /\ w.at \in {"sent", "done"}
    /\ writes' = writes \ {w}
    /\ busy' = IF w.button.guard = "free" THEN busy ELSE None
    /\ clears' = (clears \/ w.button.guard = "late")
    /\ UNCHANGED <<view, open, subject, asked, loads, pressed, done, told,
                   shown>>

(* The second after an installation is over.                               *)
Later(w) ==
    /\ w.at = "later"
    /\ Ask(w.about, 0)
    /\ writes' = writes \ {w}
    /\ UNCHANGED <<view, open, subject, pressed, done, told, shown, busy,
                   clears>>

(* A callback an earlier press left behind enables the buttons.            *)
Clear ==
    /\ clears
    /\ clears' = FALSE
    /\ busy' = None
    /\ UNCHANGED <<view, open, subject, asked, loads, writes, pressed, done,
                   told, shown>>

Next ==
    \/ Refresh
    \/ Change
    \/ \E l \in loads : Read(l) \/ Answer(l) \/ Fail(l)
    \/ \E b \in view.ops, row \in 1..2 : Press(b, row)
    \/ \E w \in writes : Perform(w) \/ Told(w) \/ Refused(w) \/ Later(w)
    \/ Clear

Spec == Init /\ [][Next]_vars

-------------------------------------------------------------------------------
TypeOK ==
    /\ view \in Views /\ open \in BOOLEAN
    /\ subject \in 1..MaxSubjects /\ asked \in 0..MaxLoads
    /\ loads \subseteq [id : 1..MaxLoads, about : 1..MaxSubjects,
                        by : 0..MaxWrites, past : BOOLEAN,
                        read : {None} \union SUBSET (1..MaxWrites)]
    /\ writes \subseteq [id : 1..MaxWrites, button : view.ops,
                         about : 1..MaxSubjects, saw : SUBSET (1..MaxWrites),
                         at : {"sent", "done", "awaits", "later"}]
    /\ pressed \in 0..MaxWrites
    /\ done \subseteq 1..MaxWrites /\ told \subseteq done
    /\ shown \in [from : 0..MaxLoads, about : 0..MaxSubjects,
                  has : SUBSET (1..MaxWrites)]
    /\ busy \in {None, 1, 2} /\ clears \in BOOLEAN

(* The screens that ask again as soon as a request has succeeded.          *)
Asking ==
    {AlertConfig, BackupManager, BulkOperations, ChangeApproval,
     ConfigVersionControl, CronJobManager, DatabaseManager, DeployFreeze,
     FeatureFlags, GitDeployManager, KnowledgeBase, MaintenanceScheduler}

(* The screens with a filter, a query or a tab, and no handler that asks   *)
(* about the one of the moment its button was pressed.                     *)
Filtering ==
    {ActivityFeed, AIConfigAdvisor, AppDetail, AppForm, AuditLog,
     ConfigEditor, GlobalSearch, LiveLogs, Monitoring, RealtimeMetrics,
     ServerOperationsHub}

(* The screen shows the answer to its latest question.                     *)
UpToDate == open /\ asked > 0 /\ shown.from = asked

(* The latest answer of a screen that asks again holds every write the     *)
(* user was told of.                                                       *)
ShowsOwnWrites == view \in Asking /\ UpToDate => told \subseteq shown.has

(* The latest answer is about what the user last chose; what the activity  *)
(* feed shows when nothing is under way is, even after a late answer.      *)
ShowsOwnSubject ==
    /\ view \in Filtering /\ UpToDate => shown.about = subject
    /\ view = ActivityFeed /\ open /\ loads = {} => shown.about \in {0, subject}

(* Two requests of buttons that a flag disables are under way together on  *)
(* no screen but the freeze's, whose input enables them.                   *)
Exclusive ==
    view # DeployFreeze =>
        Cardinality({w \in writes : w.button.guard = "flag"
                                       /\ w.at # "later"}) <= 1

(* The three.                                                              *)
ViewsCurrent == ShowsOwnWrites /\ ShowsOwnSubject /\ Exclusive
===============================================================================
