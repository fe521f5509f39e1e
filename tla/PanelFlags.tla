----------------------------- MODULE PanelFlags -----------------------------
(***************************************************************************)
(* One feature flag of the management panel: its rows in the database, the *)
(* routes that change it (server/index.ts, feature-flags.ts), and its two  *)
(* followers: a browser that is told by a socket to fetch it again         *)
(* (src/lib/feature-flags.ts, useFeatureFlag.ts) and the Discord service   *)
(* that polls it (discord-service/feature-flags.js).  The flag is boolean, *)
(* with rules for one environment.  The followers know nothing of each     *)
(* other: a behaviour follows one of them.                                 *)
(***************************************************************************)
EXTENDS Naturals, FiniteSets

CONSTANTS
    Rule,           \* rules that may be given: [enabled, rollout, deny, target]
    Bucket,         \* a follower's rolloutBucket
    None,           \* not there
    Slot,           \* admins' requests that may be handled together: 1..n
    MaxRequests,    \* bound: requests begun
    MaxFailures,    \* bound: statements and fetches that fail
    MaxFetches,     \* bound: fetches under way
    MaxMounts       \* bound: how often the browser's component mounts, or the
                    \* Discord service polls

VARIABLES
    who,            \* the follower
    registered,     \* is the flag in the compiled-in registry?
    flag, rule,     \* its rows
    req,            \* the admins' requests being handled
    nudges,         \* messages on the browser's socket; None when that is closed
    mounted,        \* is a component that shows the flag mounted?
    cache,          \* the browser's copy: a set of at most one value
    view,           \* what the component shows
    kept,           \* the Discord service's copy
    fetches,        \* GET .../evaluate under way
    changes,        \* history: the number of changes to the flag
    shown,          \* history: changes there were when the fetch began whose
                    \* answer the follower has
    excused,        \* history: the browser cannot be expected to be up to date
    requests, failures, mounts, polls

database == <<who, registered, flag, rule, changes>>
browser == <<nudges, mounted, cache, view, excused>>
bounds == <<requests, failures, mounts, polls>>
vars == <<database, req, browser, kept, fetches, shown, bounds>>

Flag == [active : BOOLEAN, default : BOOLEAN, expired : BOOLEAN]
Follower == {"browser", "discord"}
GivenRule == [enabled : BOOLEAN, rollout : 0..100, deny : SUBSET Follower,
              target : SUBSET Follower]
Value == BOOLEAN \cup {None}

Idle == [at |-> "idle"]
Request ==
    [at : {"nudge"}]
    \cup [at : {"select"}, rule : Rule]
    \cup [at : {"upsert"}, rule : Rule, existing : BOOLEAN]

\* The slots are names: the first that is free is taken.
Begin(r) ==
    /\ req[r] = Idle /\ \A other \in Slot : other < r => req[other] # Idle
    /\ requests < MaxRequests /\ requests' = requests + 1
Goto(r, next) == req' = [req EXCEPT ![r] = next]

Ok == UNCHANGED failures
Error == failures < MaxFailures /\ failures' = failures + 1

-----------------------------------------------------------------------------
\* evaluateFlag for an active flag; rules of an expired one do not count.
evaluateFlag(f, given) ==
    IF f.expired THEN f.default
    ELSE /\ given # None
         /\ given.enabled
         /\ who \notin given.deny
         /\ who \in given.target \/ Bucket[who] < given.rollout

\* loadFlagsFromDb takes active flags only; withRegistryFallback adds those of
\* the registry that are not among them, which have no rules.
Evaluated(f, given) ==
    IF f # None /\ f.active THEN evaluateFlag(f, given)
    ELSE IF registered THEN FALSE ELSE None

Current == Evaluated(flag, rule)

\* An admin's write, and whether it did anything.
Written(newFlag, newRule) ==
    /\ flag' = newFlag /\ rule' = newRule
    /\ changes' = IF newFlag = flag /\ newRule = rule THEN changes ELSE changes + 1
    /\ UNCHANGED <<who, registered>>

-----------------------------------------------------------------------------
\* POST /api/feature-flags: the flag, then its rules one by one.  A rule that
\* is not valid ends the request, with the flag there and nobody told.
createFlag(r, default, given) ==
    /\ Begin(r)
    /\ \/ /\ flag = None /\ Ok
          /\ Written([active |-> TRUE, default |-> default, expired |-> FALSE], None)
          /\ Goto(r, IF given = None THEN [at |-> "nudge"] ELSE [at |-> "select", rule |-> given])
          /\ UNCHANGED browser
       \/ /\ flag = None /\ Ok
          /\ Written([active |-> TRUE, default |-> default, expired |-> FALSE], None)
          /\ excused' = TRUE
          /\ UNCHANGED <<req, nudges, mounted, cache, view>>
       \/ /\ (flag # None /\ Ok) \/ Error
          /\ UNCHANGED <<database, req, browser>>
    /\ UNCHANGED <<kept, fetches, shown, mounts, polls>>

\* PATCH /api/feature-flags/:key with a rule, or with columns of the flag.
patchRule(r, given) ==
    /\ Begin(r)
    /\ Goto(r, [at |-> "select", rule |-> given])
    /\ UNCHANGED <<database, browser, kept, fetches, shown, failures, mounts, polls>>

patchFlag(r, active) ==
    /\ Begin(r)
    /\ \/ /\ Ok /\ Goto(r, [at |-> "nudge"])
          /\ Written(IF flag = None THEN None
                     ELSE [flag EXCEPT !.active = active], rule)
       \/ Error /\ UNCHANGED <<database, req>>
    /\ UNCHANGED <<browser, kept, fetches, shown, mounts, polls>>

\* POST /api/feature-flags/:key/kill switches all the rules off; whether that
\* worked is not looked at.
kill(r) ==
    /\ Begin(r)
    /\ \/ /\ Ok
          /\ Written(flag, IF rule = None THEN None
                           ELSE [rule EXCEPT !.enabled = FALSE, !.rollout = 0])
       \/ Error /\ UNCHANGED database
    /\ Goto(r, [at |-> "nudge"])
    /\ UNCHANGED <<browser, kept, fetches, shown, mounts, polls>>

\* upsertFlagRule looks for the rule; one it cannot read is not there.
SelectRule(r) ==
    /\ req[r].at = "select"
    /\ \E failed \in BOOLEAN :
         /\ IF failed THEN Error ELSE Ok
         /\ Goto(r, [at |-> "upsert", rule |-> req[r].rule, existing |-> ~failed /\ rule # None])
    /\ UNCHANGED <<database, browser, kept, fetches, shown, requests, mounts, polls>>

\* An insert fails without the flag, or if there is a rule by now.  The one
\* that fails after a new flag was inserted tells nobody of that.
UpsertRule(r) ==
    /\ req[r].at = "upsert"
    /\ \/ /\ req[r].existing \/ (rule = None /\ flag # None)
          /\ Ok
          /\ Written(flag, req[r].rule)
          /\ Goto(r, [at |-> "nudge"])
          /\ UNCHANGED browser
       \/ /\ (~req[r].existing /\ (rule # None \/ flag = None) /\ Ok) \/ Error
          /\ Goto(r, Idle)
          /\ excused' = TRUE
          /\ UNCHANGED <<database, nudges, mounted, cache, view>>
    /\ UNCHANGED <<kept, fetches, shown, requests, mounts, polls>>

\* broadcastFlagChange, to the sockets that are open.
broadcastToNobody == UNCHANGED nudges
broadcastFlagChange == nudges' = IF nudges = None THEN None ELSE nudges + 1

Nudge(r) ==
    /\ req[r].at = "nudge"
    /\ broadcastFlagChange
    /\ excused' = (excused \/ nudges = None)
    /\ Goto(r, Idle)
    /\ UNCHANGED <<database, mounted, cache, view, kept, fetches, shown, bounds>>

\* expires_at passes; nobody is told.
Expire ==
    /\ flag # None /\ ~flag.expired
    /\ Written([flag EXCEPT !.expired = TRUE], rule)
    /\ excused' = TRUE
    /\ UNCHANGED <<req, nudges, mounted, cache, view, kept, fetches, shown, bounds>>

-----------------------------------------------------------------------------
\* A fetch reads the flags and then the rules; what it cannot read is not
\* there.  n tells fetches apart; since, what it has read, if all of it.
Fetch(n) == [n |-> n, at |-> "flags"]
Reading ==
    [n : Nat, at : {"flags"}]
    \cup [n : Nat, at : {"rules"}, flag : Flag \cup {None}, since : Nat \cup {None}]
    \cup [n : Nat, at : {"answer"}, value : Value, since : Nat \cup {None}]

StartFetch ==
    \E n \in 1..MaxFetches :
        /\ \A m \in 1..n : m = n <=> m \notin {f.n : f \in fetches}
        /\ fetches' = fetches \cup {Fetch(n)}

EvaluateFlags(f) ==
    /\ f.at = "flags"
    /\ \E seen \in BOOLEAN :
         /\ IF seen THEN Ok ELSE Error
         /\ fetches' = (fetches \ {f}) \cup
              {[n |-> f.n, at |-> "rules",
                since |-> IF seen THEN changes ELSE None,
                flag |-> IF seen THEN flag ELSE None]}
    /\ UNCHANGED <<database, req, browser, kept, shown, requests, mounts, polls>>

EvaluateRules(f) ==
    /\ f.at = "rules"
    /\ \E seen \in BOOLEAN :
         /\ IF seen THEN Ok ELSE Error
         /\ fetches' = (fetches \ {f}) \cup
              {[n |-> f.n, at |-> "answer",
                since |-> IF seen THEN f.since ELSE None,
                value |-> Evaluated(f.flag, IF seen THEN rule ELSE None)]}
    /\ UNCHANGED <<database, req, browser, kept, shown, requests, mounts, polls>>

\* The browser keeps the answer and the component, if it is still there, shows
\* it, whether or not a later fetch was answered before.  The Discord service
\* never drops a key it has once had.
Fallback == FALSE
Shown(value) == IF value = None THEN Fallback ELSE value

Answer(f) ==
    /\ f.at = "answer"
    /\ fetches' = fetches \ {f}
    /\ IF who = "browser"
       THEN /\ cache' = {f.value}
            /\ view' = IF mounted THEN Shown(f.value) ELSE view
            /\ excused' = (f.since # changes)
            /\ UNCHANGED kept
       ELSE /\ kept' = IF f.value = None THEN kept ELSE f.value
            /\ UNCHANGED <<cache, view, excused>>
    /\ shown' = f.since
    /\ UNCHANGED <<database, req, nudges, mounted, bounds>>

FetchFails(f) ==
    /\ Error
    /\ fetches' = fetches \ {f}
    /\ excused' = TRUE
    /\ UNCHANGED <<database, req, nudges, mounted, cache, view, kept, shown, requests, mounts, polls>>

-----------------------------------------------------------------------------
\* useFeatureFlag: a component shows what is cached, however old, and fetches
\* unless that is younger than 30 seconds.
Mount ==
    /\ who = "browser" /\ ~mounted
    /\ mounts < MaxMounts /\ mounts' = mounts + 1
    /\ mounted' = TRUE
    /\ view' = IF cache = {} THEN Fallback ELSE Shown(CHOOSE v \in cache : TRUE)
    /\ StartFetch \/ (cache # {} /\ UNCHANGED fetches)
    /\ excused' = TRUE
    /\ UNCHANGED <<database, req, nudges, cache, kept, shown, requests, failures, polls>>

Unmount ==
    /\ mounted /\ mounted' = FALSE
    /\ UNCHANGED <<database, req, nudges, cache, view, excused, kept, fetches, shown, bounds>>

\* onChanged drops the cache and fetches; nobody listens while no component
\* is mounted.
onChanged ==
    /\ nudges \notin {None, 0} /\ nudges' = nudges - 1
    /\ IF mounted THEN /\ cache' = {}
                       /\ StartFetch
                       /\ UNCHANGED excused
       ELSE excused' = TRUE /\ UNCHANGED <<cache, fetches>>
    /\ UNCHANGED <<database, req, mounted, view, kept, shown, bounds>>

\* The socket is never opened again.
SocketCloses ==
    /\ nudges # None /\ nudges' = None
    /\ excused' = TRUE
    /\ UNCHANGED <<database, req, mounted, cache, view, kept, fetches, shown, bounds>>

\* Every 30 seconds; a poll gives up after 5.
refresh ==
    /\ polls < MaxMounts /\ polls' = polls + 1
    /\ who = "discord" /\ fetches = {} /\ StartFetch
    /\ UNCHANGED <<database, req, browser, kept, shown, requests, failures, mounts>>

-----------------------------------------------------------------------------
Init ==
    /\ who \in Follower /\ registered \in BOOLEAN
    /\ flag \in {None, [active |-> TRUE, default |-> FALSE, expired |-> FALSE]} /\ rule = None
    /\ req = [r \in Slot |-> Idle]
    /\ nudges = (IF who = "browser" THEN 0 ELSE None) /\ mounted = FALSE
    /\ cache \in {{}, {TRUE}} /\ view = Fallback
    /\ kept = None
    /\ fetches = {}
    /\ changes = 0 /\ shown = 0 /\ excused = FALSE
    /\ requests = 0 /\ failures = 0 /\ mounts = 0 /\ polls = 0

Next ==
    \/ \E r \in Slot :
        \/ \E default \in BOOLEAN, given \in Rule \cup {None} : createFlag(r, default, given)
        \/ \E given \in Rule : patchRule(r, given)
        \/ \E active \in BOOLEAN : patchFlag(r, active)
        \/ kill(r)
        \/ SelectRule(r) \/ UpsertRule(r) \/ Nudge(r)
    \/ Expire
    \/ \E f \in fetches : EvaluateFlags(f) \/ EvaluateRules(f) \/ Answer(f) \/ FetchFails(f)
    \/ Mount \/ Unmount \/ onChanged \/ SocketCloses
    \/ refresh

Spec == Init /\ [][Next]_vars

-----------------------------------------------------------------------------
\* The rows, the requests, the fetches and the followers' copies have their
\* types.
TypeOK ==
    /\ flag \in {None} \cup Flag
    /\ rule \in {None} \cup GivenRule
    /\ \A r \in Slot : req[r].at \in {"idle", "nudge", "select", "upsert"}
    /\ nudges \in {None} \cup Nat
    /\ cache \subseteq Value /\ view \in BOOLEAN /\ kept \in Value
    /\ fetches \subseteq Reading
    /\ shown \in 0..changes \cup {None}

\* When nothing is under way, no request, message or fetch, a mounted
\* component shows what the flag now is (broadcastFlagChange, onChanged), and
\* so does the Discord service's copy if its last poll began after the last
\* change and the flag is still known.  The component is excused where it was
\* never told: the flag expired, a creation ended half-way, its socket was
\* closed or nobody listened, a fetch failed, or an older answer came last.
FollowersCatchUp ==
    ((\A r \in Slot : req[r] = Idle) /\ fetches = {}) =>
        /\ (mounted /\ nudges = 0 /\ ~excused) => view = Shown(Current)
        /\ (who = "discord" /\ shown = changes /\ Current # None)
           => kept \in {None, Current}

=============================================================================
