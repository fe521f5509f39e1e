---------------------------- MODULE Deployments ----------------------------
(***************************************************************************)
(* The deployments of the management panel (server/index.ts), which are    *)
(* the JSON list git_deployments, and the freeze that guards new ones      *)
(* (deploy-freeze.ts): the admins' windows, policy and signals, three more *)
(* JSON values, and the user's open alerts.  Another request may change    *)
(* any of them between two statements of a handler.  A read that fails is  *)
(* an empty value, and a write that fails is answered as a success.        *)
(***************************************************************************)
EXTENDS Naturals

CONSTANTS
    User,
    Admin,          \* the users whose profile has the role admin
    Window,         \* windows that may be created: [env, from, until, override]
    PolicyBody,     \* what a PUT of the policy may set: functions on some of its fields
    SignalsBody,    \* what a PUT of the signals may set
    Environment,    \* environments that are deployed to
    ConfigsOf,      \* of each user, the ids of the alert configurations that may be made
    None,           \* null; a value that has not been read yet
    Forwarding,     \* is ORCHESTRATOR_API_TOKEN set?
    Slot,           \* requests that may be handled together: 1..n
    MaxTime,        \* bound: the clock
    MaxRequests,    \* bound: requests begun
    MaxFailures     \* bound: statements that fail

VARIABLES
    windows, policy, signals,   \* the values in shared_config
    alerts,         \* of each user, the configurations with unacknowledged
                    \* alerts of the last 24 hours
    deployments,    \* the list git_deployments
    orchestrated,   \* deployments the orchestrator has accepted
    req,            \* the requests being handled
    lasting,        \* history: the reasons in force all the while a request was at the gate
    now, requests, failures

stored == <<windows, policy, signals, alerts>>
vars == <<stored, deployments, orchestrated, req, lasting, now, requests, failures>>

DEFAULT_FREEZE_POLICY ==
    [enabled |-> TRUE, alerts |-> TRUE, floor |-> 5, quality |-> TRUE, override |-> TRUE]
EMPTY_SIGNALS == [budget |-> None, failed |-> None]

AlertConfig == UNION {ConfigsOf[user] : user \in User}
Policy == [enabled : BOOLEAN, alerts : BOOLEAN, floor : {None} \cup Nat,
           quality : BOOLEAN, override : BOOLEAN]
Signals == [budget : {None} \cup Nat, failed : {None} \cup Nat]
Deployment == [id : Nat, user : User, dry : BOOLEAN, enabled : BOOLEAN, orchestration : BOOLEAN]
Reason ==
    [kind : {"window"}, about : Window, override : BOOLEAN]
    \cup [kind : {"alerts"}, about : AlertConfig, override : BOOLEAN]
    \cup [kind : {"quality"}, about : {None}, override : BOOLEAN]
    \cup [kind : {"budget"}, about : Nat \X Nat, override : BOOLEAN]

Idle == [at |-> "idle"]
Gated == [at : {"gate"}, id : Nat, user : User, env : Environment, override : BOOLEAN,
          windows : {None} \cup SUBSET Window, policy : {None} \cup Policy,
          signals : {None} \cup Signals, configs : {None} \cup SUBSET AlertConfig,
          blind : BOOLEAN]
Passed == [at : {"list", "forward"}, entry : Deployment, env : Environment,
           read : SUBSET Deployment, blind : BOOLEAN]
Writing(q) ==
    /\ q.at = "write"
    /\ \/ q.to = "deployments" /\ q.value \subseteq Deployment
       \/ q.to = "windows" /\ q.value \subseteq Window
       \/ q.to = "policy" /\ q.value \in Policy

\* The slots are names: the first that is free is taken.
Begin(r) ==
    /\ req[r] = Idle /\ \A other \in Slot : other < r => req[other] # Idle
    /\ requests < MaxRequests /\ requests' = requests + 1
Goto(r, next) == req' = [req EXCEPT ![r] = next]

\* A read: of what is there, or of nothing.  seen is whether it was answered.
Ok == UNCHANGED failures
Error == failures < MaxFailures /\ failures' = failures + 1
Answered(seen) == IF seen THEN Ok ELSE Error

-----------------------------------------------------------------------------
\* isWindowActive
Active(w, env, time) ==
    /\ w.env \in {"all", env}
    /\ w.from <= time
    /\ w.until = None \/ time < w.until

\* evaluateDeployFreeze: a reason for each active window and, while the policy
\* is enabled, for each signal that it heeds.  The message about the budget
\* names the budget and its floor.  Open alerts are one reason, which gives
\* their count; here each configuration with open alerts gives one, all alike.
WindowReason(w) == [kind |-> "window", about |-> w, override |-> w.override]
Because(kind, about, holds, p) ==
    IF holds THEN {[kind |-> kind, about |-> about, override |-> p.override]} ELSE {}

Spent(p, s) == p.floor # None /\ s.budget # None /\ s.budget <= p.floor

Reasons(ws, p, s, open, env, time) ==
    {WindowReason(w) : w \in {v \in ws : Active(v, env, time)}}
    \cup (IF ~p.enabled THEN {}
          ELSE (UNION {Because("alerts", config, p.alerts, p) : config \in open})
               \cup Because("budget", <<s.budget, p.floor>>, Spent(p, s), p)
               \cup Because("quality", None, p.quality /\ s.failed \notin {None, 0}, p))

OverrideAllowedBySome(reasons) == \E reason \in reasons : reason.override
OverrideAllowed(reasons) == \A reason \in reasons : reason.override

-----------------------------------------------------------------------------
\* POST /api/deployments.  A dry run passes the gate at once; the reads of the
\* others' gate go out together.
Entry(user, dry) ==
    [id |-> requests + 1, user |-> user, dry |-> dry, enabled |-> TRUE, orchestration |-> FALSE]

createDeployment(r, user, env, dry, override) ==
    /\ Begin(r)
    /\ Goto(r, IF dry THEN [at |-> "list", entry |-> Entry(user, TRUE), env |-> env,
                            read |-> {}, blind |-> FALSE]
               ELSE [at |-> "gate", id |-> requests + 1, user |-> user, env |-> env,
                     override |-> override, windows |-> None, policy |-> None,
                     signals |-> None, configs |-> None, blind |-> FALSE])
    /\ UNCHANGED <<stored, deployments, orchestrated, now, failures>>

ReadFor(r, field, there, empty) ==
    /\ req[r].at = "gate" /\ req[r][field] = None
    /\ \E seen \in BOOLEAN :
         /\ Answered(seen)
         /\ req' = [req EXCEPT ![r][field] = IF seen THEN there ELSE empty,
                               ![r].blind = @ \/ ~seen]
    /\ UNCHANGED <<stored, deployments, orchestrated, now, requests>>

getFreezeWindows(r) == ReadFor(r, "windows", windows, {})
getFreezePolicy(r) == ReadFor(r, "policy", policy, DEFAULT_FREEZE_POLICY)
getStoredFreezeSignals(r) == ReadFor(r, "signals", signals, EMPTY_SIGNALS)

AllRead(r) ==
    req[r].at = "gate" /\ req[r].windows # None /\ req[r].policy # None /\ req[r].signals # None

\* countOpenCriticalAlerts: the ids of the user's configurations, once the three
\* are read.  Those with open alerts are among them; others are or are not, and
\* one that is made later has another id.
getAlertConfigs(r) ==
    /\ AllRead(r) /\ req[r].configs = None
    /\ \E seen \in BOOLEAN : \E others \in SUBSET ConfigsOf[req[r].user] :
         /\ Answered(seen)
         /\ req' = [req EXCEPT ![r].configs = IF seen THEN alerts[req[r].user] \cup others ELSE {},
                               ![r].blind = @ \/ ~seen]
    /\ UNCHANGED <<stored, deployments, orchestrated, now, requests>>

\* enforceDeployFreeze, from the count of the open alerts of those on (without
\* any, 0): no reason, or an override by an admin that every reason allows; the
\* audit entry and the answer follow.  A profile that cannot be read is no
\* admin's, and a count that fails is 0.
MayPass(r, reasons) ==
    reasons = {} \/ (req[r].override /\ req[r].user \in Admin /\ OverrideAllowed(reasons))

enforceDeployFreeze(r) ==
    /\ AllRead(r) /\ req[r].configs # None
    /\ \E counted \in (IF req[r].configs = {} THEN {TRUE} ELSE BOOLEAN) :
         LET open == IF counted THEN req[r].configs \cap alerts[req[r].user] ELSE {}
             reasons == Reasons(req[r].windows, req[r].policy, req[r].signals, open,
                                req[r].env, now)
         IN  /\ Answered(counted)
             /\ Goto(r, IF MayPass(r, reasons)
                        THEN [at |-> "list", read |-> {}, env |-> req[r].env,
                              entry |-> [Entry(req[r].user, FALSE) EXCEPT !.id = req[r].id],
                              blind |-> req[r].blind \/ ~counted]
                        ELSE Idle)
    /\ UNCHANGED <<stored, deployments, orchestrated, now, requests>>

\* name and repoUrl are looked at only now; then the list is read.
getDeployments(r) ==
    /\ req[r].at = "list"
    /\ \/ Goto(r, Idle) /\ Ok
       \/ \E seen \in BOOLEAN :
            /\ Answered(seen)
            /\ req' = [req EXCEPT ![r].at = "forward",
                                  ![r].read = IF seen THEN deployments ELSE {}]
    /\ UNCHANGED <<stored, deployments, orchestrated, now, requests>>

\* Up to 30 seconds later the orchestrator has taken the manifest or not; it
\* may have taken it although its answer is lost, and the entry then does not
\* say so.
forwardDeploymentToOrchestrator(r) ==
    /\ req[r].at = "forward"
    /\ \E taken \in (IF Forwarding THEN BOOLEAN ELSE {FALSE}) : \E known \in {FALSE, taken} :
         /\ orchestrated' = orchestrated \cup (IF taken THEN {req[r].entry.id} ELSE {})
         /\ Goto(r, [at |-> "write", to |-> "deployments",
                     value |-> req[r].read \cup {[req[r].entry EXCEPT !.orchestration = known]}])
    /\ UNCHANGED <<stored, deployments, now, requests, failures>>

\* DELETE and toggle: the caller's entry of that id, or 404.
Edit(r, user, id, Edited(_)) ==
    /\ Begin(r)
    /\ \E seen \in BOOLEAN :
         LET read == IF seen THEN deployments ELSE {}
             mine == {d \in read : d.id = id /\ d.user = user}
         IN  /\ Answered(seen)
             /\ Goto(r, IF mine = {} THEN Idle
                        ELSE [at |-> "write", to |-> "deployments",
                              value |-> (read \ mine) \cup ({Edited(d) : d \in mine} \ {None})])
    /\ UNCHANGED <<stored, deployments, orchestrated, now>>

deleteDeployment(r, user, id) == Edit(r, user, id, LAMBDA d : None)
toggleDeployment(r, user, id) ==
    Edit(r, user, id, LAMBDA d : [d EXCEPT !.enabled = ~@])

-----------------------------------------------------------------------------
\* The routes of the admins under /api/deploy-freeze, after requireFlagAdmin.
\* What a body sets replaces what was there.
With(read, body) == [f \in DOMAIN read |-> IF f \in DOMAIN body THEN body[f] ELSE read[f]]

ReadThenWrite(r, to, there, empty, Edited(_)) ==
    /\ Begin(r)
    /\ \E seen \in BOOLEAN :
         /\ Answered(seen)
         /\ LET edited == Edited(IF seen THEN there ELSE empty)
            IN  Goto(r, IF edited = None THEN Idle
                        ELSE [at |-> "write", to |-> to, value |-> edited])
    /\ UNCHANGED <<stored, deployments, orchestrated, now>>

createWindow(r, w) == ReadThenWrite(r, "windows", windows, {}, LAMBDA read : read \cup {w})

\* 404 when the window is not in the list that was read.
deleteWindow(r, w) ==
    ReadThenWrite(r, "windows", windows, {},
                  LAMBDA read : IF w \in read THEN read \ {w} ELSE None)

putPolicy(r, body) ==
    ReadThenWrite(r, "policy", policy, DEFAULT_FREEZE_POLICY, LAMBDA read : With(read, body))

\* The signals are replaced as a whole.
putSignals(r, body) ==
    /\ Begin(r)
    /\ \/ signals' = With(EMPTY_SIGNALS, body) /\ Ok
       \/ Error /\ UNCHANGED signals
    /\ UNCHANGED <<windows, policy, alerts, deployments, orchestrated, req, now>>

\* The upsert with which all of them end.
setSharedConfig(r) ==
    /\ req[r].at = "write"
    /\ LET To(name, value) == IF req[r].to = name THEN req[r].value ELSE value IN
       \/ /\ windows' = To("windows", windows)
          /\ policy' = To("policy", policy)
          /\ deployments' = To("deployments", deployments)
          /\ Ok
       \/ UNCHANGED <<windows, policy, deployments>> /\ Error
    /\ Goto(r, Idle)
    /\ UNCHANGED <<signals, alerts, orchestrated, now, requests>>

\* The alerts are written elsewhere; anyone may acknowledge
\* (POST /api/alert-history/:id/acknowledge), they age, and they go with their
\* configuration.
Alerted(user, config) ==
    /\ \E open \in {alerts[user] \cup {config}, alerts[user] \ {config}} :
         alerts' = [alerts EXCEPT ![user] = open]
    /\ UNCHANGED <<windows, policy, signals, deployments, orchestrated, req, now, requests, failures>>

Tick ==
    /\ now < MaxTime /\ now' = now + 1
    /\ UNCHANGED <<stored, deployments, orchestrated, req, requests, failures>>

-----------------------------------------------------------------------------
\* History: what has been in force since the gate began, as long as it goes on.
Lasting ==
    lasting' = [r \in Slot |->
        IF req'[r].at \in {"idle", "write"} THEN {}
        ELSE IF req'[r].at # "gate" THEN lasting[r]
        ELSE LET inForce == Reasons(windows', policy', signals',
                                    alerts'[req'[r].user], req'[r].env, now')
             IN  IF req[r].at = "gate" THEN lasting[r] \cap inForce ELSE inForce]

Init ==
    /\ windows \in SUBSET Window
    /\ policy = DEFAULT_FREEZE_POLICY /\ signals = EMPTY_SIGNALS
    /\ alerts = [user \in User |-> {}]
    /\ deployments = {} /\ orchestrated = {}
    /\ req = [r \in Slot |-> Idle] /\ lasting = [r \in Slot |-> {}]
    /\ now = 0 /\ requests = 0 /\ failures = 0

Next ==
    /\ \/ \E r \in Slot, user \in User :
           \/ \E env \in Environment, dry, override \in BOOLEAN :
                createDeployment(r, user, env, dry, override)
           \/ \E id \in 1..requests : deleteDeployment(r, user, id) \/ toggleDeployment(r, user, id)
       \/ \E r \in Slot :
           \/ getFreezeWindows(r) \/ getFreezePolicy(r) \/ getStoredFreezeSignals(r)
           \/ getAlertConfigs(r)
           \/ enforceDeployFreeze(r)
           \/ getDeployments(r)
           \/ forwardDeploymentToOrchestrator(r)
           \/ \E w \in Window : createWindow(r, w) \/ deleteWindow(r, w)
           \/ \E body \in PolicyBody : putPolicy(r, body)
           \/ \E body \in SignalsBody : putSignals(r, body)
           \/ setSharedConfig(r)
       \/ \E user \in User : \E config \in ConfigsOf[user] : Alerted(user, config)
       \/ Tick
    /\ Lasting

Spec == Init /\ [][Next]_vars

-----------------------------------------------------------------------------
\* The stored values, the requests and the history have their types.
TypeOK ==
    /\ windows \subseteq Window /\ policy \in Policy /\ signals \in Signals
    /\ alerts \in [User -> SUBSET AlertConfig]
    /\ deployments \subseteq Deployment /\ orchestrated \subseteq Nat
    /\ \A r \in Slot : req[r] \in {Idle} \cup Gated \cup Passed \/ Writing(req[r])
    /\ lasting \in [Slot -> SUBSET Reason]

\* A reason to freeze that holds from the moment a request reaches the gate
\* until it leaves it keeps it out (enforceDeployFreeze), whatever the admins
\* change meanwhile: only an admin may pass it, and only if that very reason
\* allows it.  The open alerts of one configuration are such a reason; those of
\* several are not, one after the other, for a configuration that is made after
\* the ids were read is not counted.  Dry runs pass, and so do requests for which
\* a read failed.
LastingFreezeHolds ==
    \A r \in Slot :
        (req[r].at \in {"list", "forward"} /\ ~req[r].entry.dry /\ ~req[r].blind)
        => \A reason \in lasting[r] : reason.override /\ req[r].entry.user \in Admin

=============================================================================
