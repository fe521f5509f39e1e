---------------------------- MODULE Panel_proofs ----------------------------
(***************************************************************************)
(* Proofs about the services that change the management panel's records:   *)
(* the settings of an app and their history, the deployment freezes, the   *)
(* starts and stops of an app, the first setup, the feature flags and the  *)
(* JSON lists; and the types of the deployments, the flags and the         *)
(* advisor, which those invariants do not need.                            *)
(* Each service has an invariant of its own that its steps keep; that a    *)
(* service is not disturbed by the others is a lemma about Services.       *)
(***************************************************************************)
EXTENDS Services, Sequences, FiniteSets, FiniteSetsExt, FiniteSetTheorems,
        WellFoundedInduction, TLAPS

-----------------------------------------------------------------------------
(***************************************************************************)
(* The numbers that are given are those up to some number.                 *)
(***************************************************************************)
\* A request never means to insert a number beyond the next.
NoneSkipped ==
    \A r \in Slot : req[r].at = "insert" /\ exists =>
        \A n \in Nat : Settings!Numbers = 1..n => req[r].version \in 1..(n + 1)

SettingsInv ==
    /\ Settings!TypeOK
    /\ \E n \in Nat : Settings!Numbers = 1..n
    /\ ~exists => versions = <<>>
    /\ NoneSkipped

\* The instance counts as FiniteSets does.
LEMMA SameCardinality == \A S : Settings!Cardinality(S) = Cardinality(S)
  BY DEF Settings!Cardinality, Cardinality

\* The highest of the numbers up to n, and how many there are.
LEMMA Counted ==
    ASSUME NEW n \in Nat, Settings!Numbers = 1..n
    PROVE  Settings!Latest = n /\ Cardinality(Settings!Numbers) = n
<1>1. Cardinality(1..n) = n
  BY FS_Interval
<1>2. CASE n = 0
  <2>1. Settings!Numbers = {}
    BY <1>2
  <2> QED
    BY <1>1, <1>2, <2>1 DEF Settings!Latest
<1>3. CASE n > 0
  <2>1. n \in 1..n /\ \A k \in 1..n : n >= k
    BY <1>3
  <2>2. \A m \in 1..n : (\A k \in 1..n : m >= k) => m = n
    BY <2>1
  <2>3. Settings!Max(1..n) = n
    BY <2>1, <2>2 DEF Settings!Max
  <2> QED
    BY <1>1, <1>3, <2>3 DEF Settings!Latest
<1> QED
  BY <1>1, <1>2, <1>3

\* The list is then the versions under these numbers.
LEMMA HistoryUpto ==
    ASSUME NEW n \in Nat, Settings!Numbers = 1..n
    PROVE  Settings!History = [v \in 1..n |-> versions[v]]
BY Counted, SameCardinality DEF Settings!History

LEMMA EmptyNumbers == DOMAIN <<>> = 1..0
OBVIOUS

-----------------------------------------------------------------------------
LEMMA SettingsInitInv == Settings!Init => SettingsInv
<1> SUFFICES ASSUME Settings!Init PROVE SettingsInv
  OBVIOUS
<1>1. Settings!Numbers = 1..0
  BY EmptyNumbers DEF Settings!Init, Settings!Numbers
<1>2. Settings!Numbers \subseteq Nat /\ versions \in [Settings!Numbers -> Settings!Snapshot]
  <2>1. versions = <<>>
    BY DEF Settings!Init
  <2> QED
    BY <1>1, <2>1 DEF Settings!Numbers
<1>3. settings \in Settings!Settings
  BY DEF Settings!Init, Settings!Settings, Settings!NoEnv, Settings!Env
<1>4. Settings!TypeOK
  BY <1>2, <1>3 DEF Settings!Init, Settings!TypeOK
<1>5. NoneSkipped
  BY DEF Settings!Init, NoneSkipped, Settings!Idle
<1> QED
  BY <1>1, <1>4, <1>5 DEF Settings!Init, SettingsInv

-----------------------------------------------------------------------------
(***************************************************************************)
(* The steps.                                                              *)
(***************************************************************************)
\* What each handler's step finds.
LEMMA SettingsMoved ==
    ASSUME Settings!TypeOK, NEW r \in Slot,
           NEW next \in {Settings!Idle} \cup Settings!Request, Settings!Goto(r, next)
    PROVE  /\ req' \in [Slot -> {Settings!Idle} \cup Settings!Request]
           /\ \A other \in Slot : req'[other] = IF other = r THEN next ELSE req[other]
BY DEF Settings!TypeOK, Settings!Goto

\* A step that leaves the rows alone, and starts no insertion, keeps the rest.
LEMMA RowsKept ==
    ASSUME SettingsInv, UNCHANGED <<exists, versions>>, settings' \in Settings!Settings,
           req' \in [Slot -> {Settings!Idle} \cup Settings!Request],
           \A r \in Slot : req'[r].at = "insert" =>
               \/ req'[r] = req[r]
               \/ exists => req'[r].version \in {Settings!Latest + 1, 1}
    PROVE  SettingsInv'
<1> USE DEF SettingsInv
<1>1. Settings!Numbers' = Settings!Numbers
  BY DEF Settings!Numbers
<1>2. Settings!TypeOK'
  BY <1>1 DEF Settings!TypeOK
<1>3. NoneSkipped'
  <2> SUFFICES ASSUME NEW r \in Slot, req'[r].at = "insert", exists,
                      NEW n \in Nat, Settings!Numbers = 1..n
               PROVE  req'[r].version \in 1..(n + 1)
    BY <1>1 DEF NoneSkipped
  <2>1. CASE req'[r] = req[r]
    BY <2>1 DEF NoneSkipped
  <2>2. CASE req'[r].version \in {Settings!Latest + 1, 1}
    BY <2>2, Counted
  <2> QED
    BY <2>1, <2>2
<1> QED
  BY <1>1, <1>2, <1>3

LEMMA SettingsStepInv == SettingsInv /\ [Settings!Next]_Settings!vars => SettingsInv'
<1> SUFFICES ASSUME SettingsInv, [Settings!Next]_Settings!vars PROVE SettingsInv'
  OBVIOUS
<1>t. Settings!TypeOK /\ settings \in Settings!Settings /\ req \in [Slot -> {Settings!Idle} \cup Settings!Request]
  BY DEF SettingsInv, Settings!TypeOK
<1>1. ASSUME NEW r \in Slot, NEW s \in Settings!Snapshot, Settings!createVersion(r, s)
             PROVE SettingsInv'
  <2>1. [at |-> "max", snapshot |-> s] \in Settings!Request
    BY DEF Settings!Request
  <2> QED
    BY <1>1, <1>t, <2>1, SettingsMoved, RowsKept DEF Settings!createVersion, Settings!Rows,
       Settings!Idle
<1>2. ASSUME NEW r \in Slot, Settings!ReadMax(r) PROVE SettingsInv'
  <2>1. PICK version \in {Settings!Latest + 1, 1} :
            Settings!Goto(r, [at |-> "insert", snapshot |-> req[r].snapshot,
              version |-> version])
    BY <1>2 DEF Settings!ReadMax, Settings!NextVersion
  <2>2. Settings!Latest \in Nat
    BY Counted DEF SettingsInv
  <2>3. req[r].snapshot \in Settings!Snapshot
    BY <1>2, <1>t DEF Settings!ReadMax, Settings!Request, Settings!Idle
  <2> DEFINE next == [at |-> "insert", snapshot |-> req[r].snapshot, version |-> version]
  <2>4. next \in Settings!Request
    BY <2>2, <2>3 DEF Settings!Request
  <2> QED
    BY <1>2, <1>t, <2>1, <2>4, SettingsMoved, RowsKept DEF Settings!ReadMax, Settings!Rows
<1>3. ASSUME NEW r \in Slot, Settings!InsertVersion(r) PROVE SettingsInv'
  <2>1. /\ Settings!Goto(r, Settings!Idle) /\ req[r].at = "insert"
        /\ UNCHANGED <<exists, settings>>
    BY <1>3 DEF Settings!InsertVersion
  <2>2. /\ req' \in [Slot -> {Settings!Idle} \cup Settings!Request]
        /\ \A other \in Slot : req'[other] = IF other = r THEN Settings!Idle ELSE req[other]
    BY <1>t, <2>1, SettingsMoved
  <2>3. CASE UNCHANGED versions
    BY <1>t, <2>1, <2>2, <2>3, RowsKept DEF Settings!Idle
  <2>4. CASE /\ Settings!Insertable(req[r].version)
             /\ versions' = Settings!Added(req[r].version, req[r].snapshot)
    <3>1. PICK n \in Nat : Settings!Numbers = 1..n
      BY DEF SettingsInv
    <3>2. exists /\ req[r].version \in 1..(n + 1) /\ req[r].version \notin 1..n
      BY <2>1, <2>4, <3>1 DEF SettingsInv, NoneSkipped, Settings!Insertable
    <3>3. req[r].version = n + 1
      BY <3>2
    <3>4. req[r].snapshot \in Settings!Snapshot
      BY <1>t, <2>1 DEF Settings!Request, Settings!Idle
    <3>5. Settings!Numbers' = 1..(n + 1)
      BY <2>4, <3>1, <3>3 DEF Settings!Added, Settings!Numbers
    <3>6. versions' \in [Settings!Numbers' -> Settings!Snapshot]
      BY <1>t, <2>4, <3>1, <3>3, <3>4, <3>5 DEF Settings!Added, Settings!Numbers,
         Settings!TypeOK
    <3>7. Settings!TypeOK'
      BY <1>t, <2>1, <2>2, <3>5, <3>6 DEF Settings!TypeOK
    <3>8. NoneSkipped'
      <4> SUFFICES ASSUME NEW s \in Slot, req'[s].at = "insert",
                          NEW m \in Nat, Settings!Numbers' = 1..m
                   PROVE  req'[s].version \in 1..(m + 1)
        BY DEF NoneSkipped
      <4>1. m = n + 1
        BY <3>5
      <4>2. req'[s] = req[s]
        BY <2>2 DEF Settings!Idle
      <4>3. req[s].version \in 1..(n + 1)
        BY <3>1, <3>2, <4>2 DEF SettingsInv, NoneSkipped
      <4> QED
        BY <4>1, <4>2, <4>3
    <3> QED
      BY <2>1, <3>2, <3>5, <3>7, <3>8 DEF SettingsInv
  <2> QED
    BY <1>3, <2>3, <2>4 DEF Settings!InsertVersion
<1>4. ASSUME NEW r \in Slot, NEW v \in 1..(Settings!Latest + 1), Settings!rollback(r,
             v) PROVE SettingsInv'
  <2>1. CASE UNCHANGED req
    BY <1>4, <1>t, <2>1, RowsKept DEF Settings!rollback, Settings!Rows
  <2>2. CASE v \in Settings!Numbers /\ Settings!Goto(r, [at |-> "apply",
             snapshot |-> versions[v]])
    <3>1. [at |-> "apply", snapshot |-> versions[v]] \in Settings!Request
      BY <1>t, <2>2 DEF Settings!Request, Settings!TypeOK
    <3> QED
      BY <1>4, <1>t, <2>2, <3>1, SettingsMoved, RowsKept DEF Settings!rollback, Settings!Rows
  <2> QED
    BY <1>4, <2>1, <2>2 DEF Settings!rollback
<1>5. ASSUME NEW r \in Slot, Settings!ApplySnapshot(r) PROVE SettingsInv'
  <2>1. req[r].at = "apply" /\ UNCHANGED <<exists, versions>>
    BY <1>5 DEF Settings!ApplySnapshot
  <2>2. req[r].snapshot \in Settings!Snapshot
    BY <1>t, <2>1 DEF Settings!Request, Settings!Idle
  <2>3. [at |-> "max", snapshot |-> req[r].snapshot] \in Settings!Request
    BY <2>2 DEF Settings!Request
  <2>4. Settings!Applied(req[r].snapshot) \in Settings!Settings
    BY <1>t, <2>2 DEF Settings!Applied, Settings!Snapshot, Settings!Settings, Settings!NoEnv,
       Settings!Env
  <2>5. settings' \in Settings!Settings
    BY <1>5, <1>t, <2>4 DEF Settings!ApplySnapshot
  <2>6. \/ Settings!Goto(r, Settings!Idle)
        \/ Settings!Goto(r, [at |-> "max", snapshot |-> req[r].snapshot])
    BY <1>5 DEF Settings!ApplySnapshot
  <2> QED
    BY <1>t, <2>1, <2>3, <2>5, <2>6, SettingsMoved, RowsKept DEF Settings!Idle
<1>6. ASSUME NEW e \in Settings!Env \cup {None}, NEW l \in Limit \cup {None},
             Settings!Update(e, l)
      PROVE  settings' \in Settings!Settings /\ UNCHANGED <<exists, versions>>
  BY <1>6, <1>t DEF Settings!Update, Settings!Settings
<1>7. ASSUME NEW r \in Slot, NEW e \in Settings!Env \cup {None}, NEW l \in Limit \cup {None},
             Settings!patch(r, e, l)
      PROVE  SettingsInv'
  BY <1>6, <1>7, <1>t, RowsKept DEF Settings!patch
<1>8. ASSUME NEW r \in Slot, NEW j \in Java, NEW l \in Limit \cup {None},
             Settings!patchJava(r, j, l)
      PROVE  SettingsInv'
  <2>1. PICK env \in {settings.env, Settings!NoEnv} :
            Settings!Goto(r, [at |-> "patch", java |-> j, env |-> env, limit |-> l])
    BY <1>8 DEF Settings!patchJava
  <2>2. env \in Settings!Env
    BY <1>t DEF Settings!Settings, Settings!NoEnv, Settings!Env
  <2>3. [at |-> "patch", java |-> j, env |-> env, limit |-> l] \in Settings!Request
    BY <2>2 DEF Settings!Request
  <2> QED
    BY <1>8, <1>t, <2>1, <2>3, SettingsMoved, RowsKept DEF Settings!patchJava, Settings!Rows
<1>9. ASSUME NEW r \in Slot, Settings!WriteJava(r) PROVE SettingsInv'
  <2>1. req[r] \in [at : {"patch"}, java : Java, env : Settings!Env, limit : Limit \cup {None}]
    BY <1>9, <1>t DEF Settings!WriteJava, Settings!Request, Settings!Idle
  <2>2. [req[r].env EXCEPT !.java = req[r].java] \in Settings!Env
    BY <2>1 DEF Settings!Env
  <2>3. settings' \in Settings!Settings /\ UNCHANGED <<exists, versions>>
    BY <1>6, <1>9, <2>1, <2>2 DEF Settings!WriteJava
  <2> QED
    BY <1>9, <1>t, <2>3, SettingsMoved, RowsKept DEF Settings!WriteJava, Settings!Idle
<1>10. ASSUME NEW r \in Slot, Settings!deleteApp(r) PROVE SettingsInv'
  <2>1. CASE UNCHANGED <<exists, versions>>
    BY <1>10, <1>t, <2>1, RowsKept DEF Settings!deleteApp
  <2>2. CASE exists' = FALSE /\ versions' = <<>>
    <3>1. Settings!Numbers' = 1..0
      BY <2>2, EmptyNumbers DEF Settings!Numbers
    <3>2. versions' \in [Settings!Numbers' -> Settings!Snapshot]
      BY <2>2, <3>1 DEF Settings!Numbers
    <3>3. Settings!TypeOK'
      <4>1. UNCHANGED <<settings, req>> /\ exists' \in BOOLEAN
        BY <1>10, <2>2 DEF Settings!deleteApp
      <4>2. Settings!Numbers' \subseteq Nat
        BY <3>1
      <4> QED
        BY <1>t, <3>2, <4>1, <4>2 DEF Settings!TypeOK
    <3>4. \E n \in Nat : Settings!Numbers' = 1..n
      BY <3>1
    <3>5. NoneSkipped'
      BY <2>2 DEF NoneSkipped
    <3> QED
      BY <2>2, <3>3, <3>4, <3>5 DEF SettingsInv
  <2> QED
    BY <1>10, <2>1, <2>2 DEF Settings!deleteApp
<1>11. CASE UNCHANGED Settings!vars
  BY <1>11, <1>t, RowsKept DEF Settings!vars
<1> QED
  BY <1>1, <1>2, <1>3, <1>4, <1>5, <1>7, <1>8, <1>9, <1>10, <1>11 DEF Settings!Next

-----------------------------------------------------------------------------
(***************************************************************************)
(* The settings among the services.                                        *)
(***************************************************************************)
LEMMA SettingsStarts == ServicesInit /\ focus = "settings" => Settings!Init
  BY DEF ServicesInit, SettingsInit, ListsInit, DeploysInit, SetupInit,
         AppsInit, SecretsInit, AuditInit, FlagsInit, SharedInit, TasksInit,
         WatchInit, TicketsInit, CommandsInit, AdviceInit, ViewsInit, DutyInit,
         FleetInit, GateInit

LEMMA SettingsGoes ==
    [ServicesNext]_<<focus, places>> =>
        UNCHANGED focus /\ (focus = "settings" => [Settings!Next]_Settings!vars)
  BY DEF ServicesNext, SettingsStep, ListsStep, DeploysStep, SetupStep,
         AppsStep, SecretsStep, AuditStep, FlagsStep, SharedStep, TasksStep,
         WatchStep, TicketsStep, CommandsStep, AdviceStep, ViewsStep, DutyStep,
         FleetStep, GateStep, places, rest5, rest6, Settings!vars, exists,
         settings, versions, req, requests, failures

\* In every behaviour the numbers of the versions are those up to some number,
\* no request means to skip one, and the state has its types.
THEOREM SettingsAlways == ServicesSpec => [](focus = "settings" => SettingsInv)
<1>1. ServicesInit => (focus = "settings" => SettingsInv)
  BY SettingsStarts, SettingsInitInv
<1>2. (focus = "settings" => SettingsInv) /\ [ServicesNext]_<<focus, places>>
        => (focus = "settings" => SettingsInv)'
  BY SettingsGoes, SettingsStepInv
<1> QED
  BY <1>1, <1>2, PTL DEF ServicesSpec

-----------------------------------------------------------------------------
(***************************************************************************)
(* ConfigVersions implements VersionLog.                                   *)
(***************************************************************************)
LEMMA LogInit == ServicesInit => Log!Init
<1> SUFFICES ASSUME ServicesInit, focus = "settings" PROVE Log!Init
  BY DEF Log!Init, SettingsLog, SettingsOpen
<1>0. Settings!Init
  BY SettingsStarts
<1>1. Settings!Numbers = 1..0
  BY <1>0, EmptyNumbers DEF Settings!Init, Settings!Numbers
<1>2. Settings!History = <<>>
  BY <1>1, HistoryUpto
<1> QED
  BY <1>0, <1>2 DEF Settings!Init, Log!Init, SettingsLog, SettingsOpen

\* The list while the rows are there.
LEMMA LogStep ==
    ASSUME focus = "settings", UNCHANGED focus,
           SettingsInv, SettingsInv', [Settings!Next]_Settings!vars
    PROVE  [Log!Next]_<<SettingsLog, SettingsOpen>>
<1>0. SettingsLog = Settings!History /\ SettingsLog' = Settings!History'
      /\ SettingsOpen = exists /\ SettingsOpen' = exists'
  BY DEF SettingsLog, SettingsOpen, SettingsInv, Settings!TypeOK
<1>1. CASE UNCHANGED <<exists, versions>>
  BY <1>0, <1>1 DEF Settings!History, Settings!Numbers
<1>2. ASSUME NEW r \in Slot, Settings!InsertVersion(r), ~UNCHANGED versions PROVE Log!Next
  <2>1. PICK n \in Nat : Settings!Numbers = 1..n
    BY DEF SettingsInv
  <2>2. /\ Settings!Insertable(req[r].version) /\ req[r].at = "insert" /\ UNCHANGED exists
        /\ versions' = Settings!Added(req[r].version, req[r].snapshot)
    BY <1>2 DEF Settings!InsertVersion
  <2>3. exists /\ req[r].version \in 1..(n + 1) /\ req[r].version \notin 1..n
    BY <2>1, <2>2 DEF SettingsInv, NoneSkipped, Settings!Insertable
  <2>4. req[r].version = n + 1
    BY <2>3
  <2>5. Settings!Numbers' = 1..(n + 1)
    BY <2>1, <2>2, <2>4 DEF Settings!Added, Settings!Numbers
  <2>6. Settings!History = [v \in 1..n |-> versions[v]]
    BY <2>1, HistoryUpto
  <2>7. Settings!History' = [v \in 1..(n + 1) |-> versions'[v]]
    <3>1. Cardinality(1..(n + 1)) = n + 1
      BY FS_Interval
    <3>2. Cardinality(Settings!Numbers') = n + 1
      BY <2>5, <3>1
    <3>3. \A v \in 1..(n + 1) : v \in Settings!Numbers'
      BY <2>5
    <3> QED
      BY <3>2, <3>3, SameCardinality DEF Settings!History
  <2>8. versions' = [v \in 1..(n + 1) |-> IF v = n + 1 THEN req[r].snapshot ELSE versions[v]]
    BY <2>1, <2>2, <2>4 DEF Settings!Added, Settings!Numbers
  <2>9. \A v \in 1..n : versions[v] \in Settings!Snapshot
    BY <2>1 DEF SettingsInv, Settings!TypeOK
  <2>10. req[r].snapshot \in Settings!Snapshot
    BY <2>2 DEF SettingsInv, Settings!TypeOK, Settings!Request, Settings!Idle
  <2>11. Settings!History \in Seq(Settings!Snapshot) /\ Len(Settings!History) = n
    BY <2>6, <2>9
  <2>12. Settings!History' = Append(Settings!History, req[r].snapshot)
    BY <2>6, <2>7, <2>8, <2>10, <2>11
  <2> QED
    BY <1>0, <2>2, <2>3, <2>10, <2>12 DEF Log!Next, Log!Record
<1>3. ASSUME NEW r \in Slot, Settings!deleteApp(r), ~UNCHANGED <<exists, versions>>
             PROVE Log!Next
  <2>1. exists' = FALSE /\ versions' = <<>> /\ exists
    BY <1>3 DEF Settings!deleteApp, SettingsInv, Settings!TypeOK
  <2>2. Settings!Numbers' = 1..0 /\ Cardinality(1..0) = 0
    BY <2>1, EmptyNumbers, FS_Interval DEF Settings!Numbers
  <2>3. Settings!History' = <<>>
    BY <2>2, SameCardinality DEF Settings!History
  <2> QED
    BY <1>0, <2>1, <2>3 DEF Log!Next, Log!Close
<1>4. \/ UNCHANGED <<exists, versions>>
      \/ \E r \in Slot : Settings!InsertVersion(r) \/ Settings!deleteApp(r)
  BY DEF Settings!Next, Settings!vars, Settings!Rows, Settings!createVersion,
         Settings!ReadMax, Settings!rollback, Settings!ApplySnapshot, Settings!patch,
         Settings!patchJava, Settings!WriteJava, Settings!Update
<1>5. CASE \E r \in Slot : Settings!InsertVersion(r)
  BY <1>1, <1>2, <1>5 DEF Settings!InsertVersion
<1> QED
  BY <1>1, <1>3, <1>4, <1>5

\* The history of the settings is a list that only grows at its end until the
\* app is deleted: ConfigVersions implements VersionLog (POST config-versions,
\* rollback).
THEOREM HistoryKept == ServicesSpec => HistoryIsALog
<1> DEFINE Inv == focus = "settings" => SettingsInv
<1>1. Inv /\ Inv' /\ [ServicesNext]_<<focus, places>>
        => [Log!Next]_<<SettingsLog, SettingsOpen>>
  <2> SUFFICES ASSUME Inv, Inv', [ServicesNext]_<<focus, places>>
               PROVE  [Log!Next]_<<SettingsLog, SettingsOpen>>
    OBVIOUS
  <2>1. UNCHANGED focus /\ (focus = "settings" => [Settings!Next]_Settings!vars)
    BY SettingsGoes
  <2>2. CASE focus = "settings"
    BY <2>1, <2>2, LogStep
  <2>3. CASE focus # "settings"
    BY <2>1, <2>3 DEF SettingsLog, SettingsOpen
  <2> QED
    BY <2>2, <2>3
<1> QED
  BY <1>1, LogInit, SettingsAlways, PTL DEF ServicesSpec, HistoryIsALog, Log!Spec

-----------------------------------------------------------------------------
(***************************************************************************)
(* The deployment freeze of the panel.  The gate reads the windows, the    *)
(* policy and the signals at different times; the invariant says that each *)
(* of the three, once read, still has its part of every reason to freeze   *)
(* that has been in force since the request came to the gate.              *)
(***************************************************************************)
\* The policy and the signals have their parts of a reason.
PolicyGives(reason, p) ==
    /\ p.enabled /\ p.override = reason.override
    /\ reason.kind = "alerts" => p.alerts
    /\ reason.kind = "quality" => p.quality
    /\ reason.kind = "budget" => p.floor = reason.about[2]
SignalsGive(reason, s) ==
    /\ reason.kind = "quality" => s.failed \notin {None, 0}
    /\ reason.kind = "budget" => s.budget = reason.about[1]

\* What a request has read has its part of a reason.
SeenIn(reason, q) ==
    /\ reason.kind = "window" /\ q.windows # None => reason.about \in q.windows
    /\ reason.kind # "window" /\ q.policy # None => PolicyGives(reason, q.policy)
    /\ q.signals # None => SignalsGive(reason, q.signals)
    /\ reason.kind = "alerts" /\ q.configs # None => reason.about \in q.configs

InForce(q) == Deploys!Reasons(windows, policy, signals, alerts[q.user], q.env, now)

GateShape(q) ==
    q = [at |-> "gate", id |-> q.id, user |-> q.user, env |-> q.env, override |-> q.override,
         windows |-> q.windows, policy |-> q.policy, signals |-> q.signals,
         configs |-> q.configs, blind |-> q.blind]
PassShape(q) ==
    q = [at |-> q.at, entry |-> q.entry, env |-> q.env, read |-> q.read, blind |-> q.blind]

\* A request at the gate, and one that has passed it.
AtGate(r) ==
    req[r].at = "gate" =>
        /\ GateShape(req[r])
        /\ lasting[r] \subseteq InForce(req[r])
        /\ ~req[r].blind => \A reason \in lasting[r] : SeenIn(reason, req[r])
Beyond(r) ==
    req[r].at \in {"list", "forward"} =>
        /\ PassShape(req[r])
        /\ (~req[r].entry.dry /\ ~req[r].blind)
              => \A reason \in lasting[r] : reason.override /\ req[r].entry.user \in Admin

DeploysInv ==
    /\ req = [r \in Slot |-> req[r]]
    /\ \A r \in Slot : AtGate(r) /\ Beyond(r)

-----------------------------------------------------------------------------
(***************************************************************************)
(* The reasons.                                                            *)
(***************************************************************************)
\* The reasons, case by case (evaluateDeployFreeze).
LEMMA ReasonCases ==
    ASSUME NEW ws, NEW p, NEW s, NEW counting, NEW env, NEW time, NEW reason
    PROVE  reason \in Deploys!Reasons(ws, p, s, counting, env, time) <=>
             \/ \E w \in ws : Deploys!Active(w, env, time) /\ reason = Deploys!WindowReason(w)
             \/ /\ p.enabled
                /\ \/ \E config \in counting :
                         reason \in Deploys!Because("alerts", config, p.alerts, p)
                   \/ reason \in Deploys!Because("budget", <<s.budget, p.floor>>,
                                                 Deploys!Spent(p, s), p)
                   \/ reason \in Deploys!Because("quality", None,
                                                 p.quality /\ s.failed \notin {None, 0}, p)
<1> DEFINE alertReasons == UNION {Deploys!Because("alerts", config, p.alerts, p) :
                                      config \in counting}
           budgetReasons == Deploys!Because("budget", <<s.budget, p.floor>>,
                                            Deploys!Spent(p, s), p)
           qualityReasons == Deploys!Because("quality", None,
                                             p.quality /\ s.failed \notin {None, 0}, p)
           windowReasons == {Deploys!WindowReason(w) :
                                 w \in {v \in ws : Deploys!Active(v, env, time)}}
<1>1. reason \in alertReasons <=>
          \E config \in counting : reason \in Deploys!Because("alerts", config, p.alerts, p)
  <2> DEFINE of(config) == Deploys!Because("alerts", config, p.alerts, p)
  <2>1. alertReasons = UNION {of(config) : config \in counting}
    OBVIOUS
  <2> HIDE DEF alertReasons
  <2>2. reason \in alertReasons <=> \E config \in counting : reason \in of(config)
    <3> HIDE DEF of
    <3> QED
      BY <2>1, Zenon
  <2> QED
    BY <2>2, Zenon
<1>2. reason \in windowReasons <=>
          \E w \in ws : Deploys!Active(w, env, time) /\ reason = Deploys!WindowReason(w)
  OBVIOUS
<1>3. Deploys!Reasons(ws, p, s, counting, env, time)
      = windowReasons \cup (IF ~p.enabled THEN {}
                            ELSE alertReasons \cup budgetReasons \cup qualityReasons)
  BY DEF Deploys!Reasons
<1> HIDE DEF alertReasons, windowReasons
<1> QED
  BY <1>1, <1>2, <1>3

\* What a reason in force rests on.
LEMMA Grounds ==
    ASSUME NEW ws, NEW p, NEW s, NEW counting, NEW env, NEW time,
           NEW reason \in Deploys!Reasons(ws, p, s, counting, env, time)
    PROVE  /\ reason.kind \in {"window", "alerts", "budget", "quality"}
           /\ reason = [kind |-> reason.kind, about |-> reason.about,
                        override |-> reason.override]
           /\ reason.kind = "window" =>
                 /\ reason.about \in ws /\ Deploys!Active(reason.about, env, time)
                 /\ reason = Deploys!WindowReason(reason.about)
           /\ reason.kind # "window" => PolicyGives(reason, p) /\ SignalsGive(reason, s)
           /\ reason.kind = "quality" => reason.about = None
           /\ reason.kind = "alerts" => reason.about \in counting
           /\ reason.kind = "budget" =>
                 /\ reason.about = <<reason.about[1], reason.about[2]>>
                 /\ reason.about[1] # None /\ reason.about[2] # None
                 /\ reason.about[1] <= reason.about[2]
<1>1. CASE \E w \in ws : Deploys!Active(w, env, time) /\ reason = Deploys!WindowReason(w)
  BY <1>1 DEF Deploys!WindowReason, PolicyGives, SignalsGive
<1>2. CASE /\ p.enabled
           /\ \E config \in counting : reason \in Deploys!Because("alerts", config, p.alerts, p)
  BY <1>2 DEF Deploys!Because, PolicyGives, SignalsGive
<1>3. CASE p.enabled /\ reason \in Deploys!Because("budget", <<s.budget, p.floor>>,
           Deploys!Spent(p, s), p)
  BY <1>3 DEF Deploys!Because, Deploys!Spent, PolicyGives, SignalsGive
<1>4. CASE /\ p.enabled
           /\ reason \in Deploys!Because("quality", None, p.quality /\ s.failed \notin {None,
              0}, p)
  BY <1>4 DEF Deploys!Because, PolicyGives, SignalsGive
<1> QED
  BY <1>1, <1>2, <1>3, <1>4, ReasonCases

\* What was read, with its part of a reason in force, gives that reason.
LEMMA Reevaluated ==
    ASSUME NEW q, NEW reason \in InForce(q), SeenIn(reason, q),
           q.windows # None, q.policy # None, q.signals # None, q.configs # None
    PROVE  reason \in Deploys!Reasons(q.windows, q.policy, q.signals,
                                     q.configs \cap alerts[q.user], q.env, now)
<1>1. reason \in Deploys!Reasons(windows, policy, signals, alerts[q.user], q.env, now)
  BY DEF InForce
<1>2. CASE reason.kind = "window"
  <2>1. /\ reason.about \in q.windows /\ Deploys!Active(reason.about, q.env, now)
        /\ reason = Deploys!WindowReason(reason.about)
    BY <1>1, <1>2, Grounds DEF SeenIn
  <2> QED
    BY <2>1, ReasonCases
<1>3. ASSUME reason.kind # "window"
      PROVE  PolicyGives(reason, q.policy) /\ SignalsGive(reason, q.signals)
  BY <1>3 DEF SeenIn
<1>4. CASE reason.kind = "alerts"
  <2>1. reason = [kind |-> "alerts", about |-> reason.about, override |-> q.policy.override]
    BY <1>1, <1>3, <1>4, Grounds DEF PolicyGives
  <2>2. q.policy.enabled /\ q.policy.alerts
    BY <1>3, <1>4 DEF PolicyGives
  <2>3. reason.about \in q.configs \cap alerts[q.user]
    BY <1>1, <1>4, Grounds DEF SeenIn
  <2>4. reason \in Deploys!Because("alerts", reason.about, q.policy.alerts, q.policy)
    BY <2>1, <2>2 DEF Deploys!Because
  <2> QED
    BY <2>2, <2>3, <2>4, ReasonCases
<1>5. CASE reason.kind = "quality"
  <2>1. reason = [kind |-> "quality", about |-> None, override |-> q.policy.override]
    BY <1>1, <1>3, <1>5, Grounds DEF PolicyGives
  <2>2. q.policy.enabled /\ q.policy.quality /\ q.signals.failed \notin {None, 0}
    BY <1>3, <1>5 DEF PolicyGives, SignalsGive
  <2> QED
    BY <2>1, <2>2, ReasonCases DEF Deploys!Because
<1>6. CASE reason.kind = "budget"
  <2>1. reason.about = <<q.signals.budget, q.policy.floor>> /\ Deploys!Spent(q.policy,
        q.signals)
    <3>1. /\ reason.about = <<reason.about[1], reason.about[2]>>
          /\ reason.about[1] # None /\ reason.about[2] # None
          /\ reason.about[1] <= reason.about[2]
      BY <1>1, <1>6, Grounds
    <3>2. q.policy.floor = reason.about[2] /\ q.signals.budget = reason.about[1]
      BY <1>3, <1>6 DEF PolicyGives, SignalsGive
    <3> QED
      BY <3>1, <3>2 DEF Deploys!Spent
  <2>2. reason = [kind |-> "budget", about |-> <<q.signals.budget, q.policy.floor>>,
                  override |-> q.policy.override]
    BY <1>1, <1>3, <1>6, <2>1, Grounds DEF PolicyGives
  <2>3. q.policy.enabled
    BY <1>3, <1>6 DEF PolicyGives
  <2> QED
    BY <2>1, <2>2, <2>3, ReasonCases DEF Deploys!Because
<1> QED
  BY <1>1, <1>2, <1>4, <1>5, <1>6, Grounds

-----------------------------------------------------------------------------
(***************************************************************************)
(* The requests, one by one.                                               *)
(***************************************************************************)
\* One that is not moved: what lasts can only become less.
LEMMA Untouched ==
    ASSUME DeploysInv, Deploys!Lasting, NEW r \in Slot, req'[r] = req[r]
    PROVE  AtGate(r)' /\ Beyond(r)'
<1>1. CASE req[r].at = "gate"
  <2>1. lasting'[r] = lasting[r] \cap InForce(req[r])'
    BY <1>1 DEF Deploys!Lasting, InForce
  <2> QED
    BY <1>1, <2>1 DEF DeploysInv, AtGate, Beyond
<1>2. CASE req[r].at \in {"list", "forward"}
  <2>1. lasting'[r] = lasting[r]
    BY <1>2 DEF Deploys!Lasting
  <2> QED
    BY <1>2, <2>1 DEF DeploysInv, AtGate, Beyond
<1> QED
  BY <1>1, <1>2 DEF AtGate, Beyond

LEMMA AllUntouched ==
    ASSUME DeploysInv, Deploys!Lasting, UNCHANGED req
    PROVE  DeploysInv'
BY Untouched DEF DeploysInv

\* One that is moved, the others as they were.
LEMMA DeploysMoved ==
    ASSUME DeploysInv, Deploys!Lasting, NEW r \in Slot, NEW q, Deploys!Goto(r, q),
           req'[r] = q => AtGate(r)' /\ Beyond(r)'
    PROVE  DeploysInv'
<1>1. /\ req' = [s \in Slot |-> req'[s]]
      /\ \A s \in Slot : req'[s] = IF s = r THEN q ELSE req[s]
  BY DEF DeploysInv, Deploys!Goto
<1> QED
  BY <1>1, Untouched DEF DeploysInv

\* One that has answered, or that goes on to the upsert.
LEMMA RequestGone ==
    ASSUME DeploysInv, Deploys!Lasting, NEW r \in Slot, NEW q, Deploys!Goto(r, q),
           q.at \in {"idle", "write"}
    PROVE  DeploysInv'
BY DeploysMoved DEF AtGate, Beyond

\* What the edits of a request at the gate, and of one beyond it, make of it.
LEMMA WindowsEdit ==
    ASSUME NEW q, GateShape(q), NEW read, NEW blind
    PROVE  [q EXCEPT !.windows = read, !.blind = blind]
           = [at |-> "gate", id |-> q.id, user |-> q.user, env |-> q.env,
              override |-> q.override, windows |-> read, policy |-> q.policy,
              signals |-> q.signals, configs |-> q.configs, blind |-> blind]
<1>1. PICK i, u, e, o, w, p, s, c, b :
          q = [at |-> "gate", id |-> i, user |-> u, env |-> e, override |-> o,
               windows |-> w, policy |-> p, signals |-> s, configs |-> c, blind |-> b]
  BY DEF GateShape
<1>2. /\ q.id = i /\ q.user = u /\ q.env = e /\ q.override = o
      /\ q.windows = w /\ q.policy = p /\ q.signals = s /\ q.configs = c
  BY <1>1
<1> DEFINE q1 == [q EXCEPT !.windows = read]
<1>3. q1
      = [at |-> "gate", id |-> i, user |-> u, env |-> e, override |-> o,
         windows |-> read, policy |-> p, signals |-> s, configs |-> c, blind |-> b]
  BY <1>1
<1> HIDE DEF q1
<1>4. [q1 EXCEPT !.blind = blind]
      = [at |-> "gate", id |-> i, user |-> u, env |-> e, override |-> o,
         windows |-> read, policy |-> p, signals |-> s, configs |-> c, blind |-> blind]
  BY <1>3
<1> QED
  BY <1>2, <1>4 DEF q1

LEMMA PolicyEdit ==
    ASSUME NEW q, GateShape(q), NEW read, NEW blind
    PROVE  [q EXCEPT !.policy = read, !.blind = blind]
           = [at |-> "gate", id |-> q.id, user |-> q.user, env |-> q.env,
              override |-> q.override, windows |-> q.windows, policy |-> read,
              signals |-> q.signals, configs |-> q.configs, blind |-> blind]
<1>1. PICK i, u, e, o, w, p, s, c, b :
          q = [at |-> "gate", id |-> i, user |-> u, env |-> e, override |-> o,
               windows |-> w, policy |-> p, signals |-> s, configs |-> c, blind |-> b]
  BY DEF GateShape
<1>2. /\ q.id = i /\ q.user = u /\ q.env = e /\ q.override = o
      /\ q.windows = w /\ q.policy = p /\ q.signals = s /\ q.configs = c
  BY <1>1
<1> DEFINE q1 == [q EXCEPT !.policy = read]
<1>3. q1
      = [at |-> "gate", id |-> i, user |-> u, env |-> e, override |-> o,
         windows |-> w, policy |-> read, signals |-> s, configs |-> c, blind |-> b]
  BY <1>1
<1> HIDE DEF q1
<1>4. [q1 EXCEPT !.blind = blind]
      = [at |-> "gate", id |-> i, user |-> u, env |-> e, override |-> o,
         windows |-> w, policy |-> read, signals |-> s, configs |-> c, blind |-> blind]
  BY <1>3
<1> QED
  BY <1>2, <1>4 DEF q1

LEMMA SignalsEdit ==
    ASSUME NEW q, GateShape(q), NEW read, NEW blind
    PROVE  [q EXCEPT !.signals = read, !.blind = blind]
           = [at |-> "gate", id |-> q.id, user |-> q.user, env |-> q.env,
              override |-> q.override, windows |-> q.windows, policy |-> q.policy,
              signals |-> read, configs |-> q.configs, blind |-> blind]
<1>1. PICK i, u, e, o, w, p, s, c, b :
          q = [at |-> "gate", id |-> i, user |-> u, env |-> e, override |-> o,
               windows |-> w, policy |-> p, signals |-> s, configs |-> c, blind |-> b]
  BY DEF GateShape
<1>2. /\ q.id = i /\ q.user = u /\ q.env = e /\ q.override = o
      /\ q.windows = w /\ q.policy = p /\ q.signals = s /\ q.configs = c
  BY <1>1
<1> DEFINE q1 == [q EXCEPT !.signals = read]
<1>3. q1
      = [at |-> "gate", id |-> i, user |-> u, env |-> e, override |-> o,
         windows |-> w, policy |-> p, signals |-> read, configs |-> c, blind |-> b]
  BY <1>1
<1> HIDE DEF q1
<1>4. [q1 EXCEPT !.blind = blind]
      = [at |-> "gate", id |-> i, user |-> u, env |-> e, override |-> o,
         windows |-> w, policy |-> p, signals |-> read, configs |-> c, blind |-> blind]
  BY <1>3
<1> QED
  BY <1>2, <1>4 DEF q1

LEMMA ConfigsEdit ==
    ASSUME NEW q, GateShape(q), NEW read, NEW blind
    PROVE  [q EXCEPT !.configs = read, !.blind = blind]
           = [at |-> "gate", id |-> q.id, user |-> q.user, env |-> q.env,
              override |-> q.override, windows |-> q.windows, policy |-> q.policy,
              signals |-> q.signals, configs |-> read, blind |-> blind]
<1>1. PICK i, u, e, o, w, p, s, c, b :
          q = [at |-> "gate", id |-> i, user |-> u, env |-> e, override |-> o,
               windows |-> w, policy |-> p, signals |-> s, configs |-> c, blind |-> b]
  BY DEF GateShape
<1>2. /\ q.id = i /\ q.user = u /\ q.env = e /\ q.override = o
      /\ q.windows = w /\ q.policy = p /\ q.signals = s /\ q.configs = c
  BY <1>1
<1> DEFINE q1 == [q EXCEPT !.configs = read]
<1>3. q1
      = [at |-> "gate", id |-> i, user |-> u, env |-> e, override |-> o,
         windows |-> w, policy |-> p, signals |-> s, configs |-> read, blind |-> b]
  BY <1>1
<1> HIDE DEF q1
<1>4. [q1 EXCEPT !.blind = blind]
      = [at |-> "gate", id |-> i, user |-> u, env |-> e, override |-> o,
         windows |-> w, policy |-> p, signals |-> s, configs |-> read, blind |-> blind]
  BY <1>3
<1> QED
  BY <1>2, <1>4 DEF q1

LEMMA PassEdits ==
    ASSUME NEW q, PassShape(q), NEW where, NEW read
    PROVE  [q EXCEPT !.at = where, !.read = read]
           = [at |-> where, entry |-> q.entry, env |-> q.env, read |-> read, blind |-> q.blind]
<1>1. PICK a, n, e, d, b :
          q = [at |-> a, entry |-> n, env |-> e, read |-> d, blind |-> b]
  BY DEF PassShape
<1>2. q.entry = n /\ q.env = e /\ q.blind = b
  BY <1>1
<1>3. [q EXCEPT !.at = where] = [at |-> where, entry |-> n, env |-> e, read |-> d, blind |-> b]
  BY <1>1
<1>4. [[at |-> where, entry |-> n, env |-> e, read |-> d, blind |-> b] EXCEPT !.read = read]
      = [at |-> where, entry |-> n, env |-> e, read |-> read, blind |-> b]
  OBVIOUS
<1> QED
  BY <1>2, <1>3, <1>4

LEMMA DeploysInitInv == Deploys!Init => DeploysInv
BY DEF Deploys!Init, DeploysInv, AtGate, Beyond, Deploys!Idle

-----------------------------------------------------------------------------
(***************************************************************************)
(* The steps.                                                              *)
(***************************************************************************)
\* A new request has read nothing; a dry run is past the gate.
LEMMA Created ==
    ASSUME DeploysInv, Deploys!Lasting, NEW r \in Slot, NEW user, NEW env, NEW dry \in BOOLEAN,
           NEW override, Deploys!createDeployment(r, user, env, dry, override)
    PROVE  DeploysInv'
<1> DEFINE
      listed == [at |-> "list", entry |-> Deploys!Entry(user, TRUE), env |-> env,
                 read |-> {}, blind |-> FALSE]
      gated == [at |-> "gate", id |-> requests + 1, user |-> user, env |-> env,
                override |-> override, windows |-> None, policy |-> None,
                signals |-> None, configs |-> None, blind |-> FALSE]
<1>1. CASE dry
  <2>1. Deploys!Goto(r, listed)
    BY <1>1 DEF Deploys!createDeployment
  <2>2. listed.entry.dry /\ PassShape(listed) /\ listed.at = "list"
    BY DEF Deploys!Entry, PassShape
  <2> HIDE DEF listed
  <2> QED
    BY <2>1, <2>2, DeploysMoved DEF AtGate, Beyond
<1>2. CASE ~dry
  <2>1. Deploys!Goto(r, gated) /\ req[r].at = "idle"
    BY <1>2 DEF Deploys!createDeployment, Deploys!Begin, Deploys!Idle
  <2>2. GateShape(gated) /\ gated.at = "gate"
    BY DEF GateShape
  <2>3. /\ gated.windows = None /\ gated.policy = None /\ gated.signals = None
        /\ gated.configs = None
    OBVIOUS
  <2> HIDE DEF gated
  <2>4. ASSUME req'[r] = gated PROVE AtGate(r)' /\ Beyond(r)'
    <3>1. lasting'[r] = InForce(req[r])'
      BY <2>1, <2>2, <2>4 DEF Deploys!Lasting, InForce
    <3> QED
      BY <2>2, <2>3, <2>4, <3>1 DEF AtGate, Beyond, SeenIn
  <2> QED
    BY <2>1, <2>4, DeploysMoved
<1> QED
  BY <1>1, <1>2

\* A read finds what every lasting reason rests on, or blinds the request.
LEMMA ReadGate ==
    ASSUME DeploysInv, Deploys!Lasting, NEW r \in Slot, UNCHANGED <<Deploys!stored, now>>,
           req[r].at = "gate",
           NEW q, Deploys!Goto(r, q), GateShape(q), q.at = "gate",
           q.user = req[r].user, q.env = req[r].env,
           ~q.blind => /\ ~req[r].blind
                       /\ \A reason \in InForce(req[r]) :
                              SeenIn(reason, req[r]) => SeenIn(reason, q)
    PROVE  DeploysInv'
<1>1. ASSUME req'[r] = q PROVE AtGate(r)' /\ Beyond(r)'
  <2>1. InForce(req[r])' = InForce(req[r])
    BY <1>1 DEF InForce, Deploys!stored
  <2>2. lasting'[r] = lasting[r] \cap InForce(req[r])'
    BY <1>1 DEF Deploys!Lasting, InForce
  <2> QED
    BY <1>1, <2>1, <2>2 DEF DeploysInv, AtGate, Beyond
<1> QED
  BY <1>1, DeploysMoved

\* Each of the three reads (the values in shared_config).
LEMMA WindowsRead ==
    ASSUME DeploysInv, Deploys!Lasting, NEW r \in Slot, Deploys!getFreezeWindows(r)
    PROVE  DeploysInv'
<1>1. /\ req[r].at = "gate" /\ req[r].windows = None /\ GateShape(req[r])
      /\ UNCHANGED <<Deploys!stored, now>>
  BY DEF Deploys!getFreezeWindows, Deploys!ReadFor, DeploysInv, AtGate
<1>2. PICK seen \in BOOLEAN :
          req' = [req EXCEPT ![r]["windows"] = IF seen THEN windows ELSE {},
                             ![r].blind = @ \/ ~seen]
  BY DEF Deploys!getFreezeWindows, Deploys!ReadFor
<1> DEFINE read == IF seen THEN windows ELSE {}
           blind == req[r].blind \/ ~seen
           q == [req[r] EXCEPT !.windows = read, !.blind = blind]
<1>3. Deploys!Goto(r, q)
  BY <1>1, <1>2 DEF DeploysInv, Deploys!Goto
<1> HIDE DEF read, blind
<1>4. q = [at |-> "gate", id |-> req[r].id, user |-> req[r].user, env |-> req[r].env,
           override |-> req[r].override, windows |-> read,
           policy |-> req[r].policy, signals |-> req[r].signals,
           configs |-> req[r].configs, blind |-> blind]
  BY <1>1, WindowsEdit
<1> HIDE DEF q
<1>5. GateShape(q)
  BY <1>4 DEF GateShape
<1>6. ASSUME ~q.blind, NEW reason \in InForce(req[r]), SeenIn(reason, req[r])
      PROVE  SeenIn(reason, q)
  <2>1. seen /\ q.windows = windows
    BY <1>4, <1>6 DEF read, blind
  <2>2. reason.kind = "window" => reason.about \in windows
    BY Grounds DEF InForce
  <2> QED
    BY <1>4, <1>6, <2>1, <2>2 DEF SeenIn
<1>7. ~q.blind => ~req[r].blind
  BY <1>4 DEF blind
<1>8. q.at = "gate" /\ q.user = req[r].user /\ q.env = req[r].env
  BY <1>4
<1> QED
  BY <1>1, <1>3, <1>5, <1>6, <1>7, <1>8, ReadGate

LEMMA PolicyRead ==
    ASSUME DeploysInv, Deploys!Lasting, NEW r \in Slot, Deploys!getFreezePolicy(r)
    PROVE  DeploysInv'
<1>1. /\ req[r].at = "gate" /\ req[r].policy = None /\ GateShape(req[r])
      /\ UNCHANGED <<Deploys!stored, now>>
  BY DEF Deploys!getFreezePolicy, Deploys!ReadFor, DeploysInv, AtGate
<1>2. PICK seen \in BOOLEAN :
          req' = [req EXCEPT ![r]["policy"] = IF seen THEN policy ELSE Deploys!DEFAULT_FREEZE_POLICY,
                             ![r].blind = @ \/ ~seen]
  BY DEF Deploys!getFreezePolicy, Deploys!ReadFor
<1> DEFINE read == IF seen THEN policy ELSE Deploys!DEFAULT_FREEZE_POLICY
           blind == req[r].blind \/ ~seen
           q == [req[r] EXCEPT !.policy = read, !.blind = blind]
<1>3. Deploys!Goto(r, q)
  BY <1>1, <1>2 DEF DeploysInv, Deploys!Goto
<1> HIDE DEF read, blind
<1>4. q = [at |-> "gate", id |-> req[r].id, user |-> req[r].user, env |-> req[r].env,
           override |-> req[r].override, windows |-> req[r].windows,
           policy |-> read,
           signals |-> req[r].signals, configs |-> req[r].configs, blind |-> blind]
  BY <1>1, PolicyEdit
<1> HIDE DEF q
<1>5. GateShape(q)
  BY <1>4 DEF GateShape
<1>6. ASSUME ~q.blind, NEW reason \in InForce(req[r]), SeenIn(reason, req[r])
      PROVE  SeenIn(reason, q)
  <2>1. seen /\ q.policy = policy
    BY <1>4, <1>6 DEF read, blind
  <2>2. reason.kind # "window" => PolicyGives(reason, policy)
    BY Grounds DEF InForce
  <2> QED
    BY <1>4, <1>6, <2>1, <2>2 DEF SeenIn
<1>7. ~q.blind => ~req[r].blind
  BY <1>4 DEF blind
<1>8. q.at = "gate" /\ q.user = req[r].user /\ q.env = req[r].env
  BY <1>4
<1> QED
  BY <1>1, <1>3, <1>5, <1>6, <1>7, <1>8, ReadGate

LEMMA SignalsRead ==
    ASSUME DeploysInv, Deploys!Lasting, NEW r \in Slot, Deploys!getStoredFreezeSignals(r)
    PROVE  DeploysInv'
<1>1. /\ req[r].at = "gate" /\ req[r].signals = None /\ GateShape(req[r])
      /\ UNCHANGED <<Deploys!stored, now>>
  BY DEF Deploys!getStoredFreezeSignals, Deploys!ReadFor, DeploysInv, AtGate
<1>2. PICK seen \in BOOLEAN :
          req' = [req EXCEPT ![r]["signals"] = IF seen THEN signals ELSE Deploys!EMPTY_SIGNALS,
                             ![r].blind = @ \/ ~seen]
  BY DEF Deploys!getStoredFreezeSignals, Deploys!ReadFor
<1> DEFINE read == IF seen THEN signals ELSE Deploys!EMPTY_SIGNALS
           blind == req[r].blind \/ ~seen
           q == [req[r] EXCEPT !.signals = read, !.blind = blind]
<1>3. Deploys!Goto(r, q)
  BY <1>1, <1>2 DEF DeploysInv, Deploys!Goto
<1> HIDE DEF read, blind
<1>4. q = [at |-> "gate", id |-> req[r].id, user |-> req[r].user, env |-> req[r].env,
           override |-> req[r].override, windows |-> req[r].windows,
           policy |-> req[r].policy,
           signals |-> read,
           configs |-> req[r].configs, blind |-> blind]
  BY <1>1, SignalsEdit
<1> HIDE DEF q
<1>5. GateShape(q)
  BY <1>4 DEF GateShape
<1>6. ASSUME ~q.blind, NEW reason \in InForce(req[r]), SeenIn(reason, req[r])
      PROVE  SeenIn(reason, q)
  <2>1. seen /\ q.signals = signals
    BY <1>4, <1>6 DEF read, blind
  <2>2. SignalsGive(reason, signals)
    <3>1. reason.kind # "window" => SignalsGive(reason, signals)
      BY Grounds DEF InForce
    <3> QED
      BY <3>1 DEF SignalsGive
  <2> QED
    BY <1>4, <1>6, <2>1, <2>2 DEF SeenIn
<1>7. ~q.blind => ~req[r].blind
  BY <1>4 DEF blind
<1>8. q.at = "gate" /\ q.user = req[r].user /\ q.env = req[r].env
  BY <1>4
<1> QED
  BY <1>1, <1>3, <1>5, <1>6, <1>7, <1>8, ReadGate

\* The ids of the configurations (countOpenCriticalAlerts).
LEMMA ConfigsRead ==
    ASSUME DeploysInv, Deploys!Lasting, NEW r \in Slot, Deploys!getAlertConfigs(r)
    PROVE  DeploysInv'
<1>1. /\ req[r].at = "gate" /\ req[r].configs = None /\ GateShape(req[r])
      /\ UNCHANGED <<Deploys!stored, now>>
  BY DEF Deploys!getAlertConfigs, Deploys!AllRead, DeploysInv, AtGate
<1>2. PICK seen \in BOOLEAN, others \in SUBSET ConfigsOf[req[r].user] :
          req' = [req EXCEPT ![r].configs = IF seen THEN alerts[req[r].user] \cup others ELSE {},
                             ![r].blind = @ \/ ~seen]
  BY DEF Deploys!getAlertConfigs
<1> DEFINE read == IF seen THEN alerts[req[r].user] \cup others ELSE {}
           blind == req[r].blind \/ ~seen
           q == [req[r] EXCEPT !.configs = read, !.blind = blind]
<1>3. Deploys!Goto(r, q)
  BY <1>1, <1>2 DEF DeploysInv, Deploys!Goto
<1> HIDE DEF read, blind
<1>4. q = [at |-> "gate", id |-> req[r].id, user |-> req[r].user, env |-> req[r].env,
           override |-> req[r].override, windows |-> req[r].windows,
           policy |-> req[r].policy, signals |-> req[r].signals,
           configs |-> read, blind |-> blind]
  BY <1>1, ConfigsEdit
<1> HIDE DEF q
<1>5. GateShape(q)
  BY <1>4 DEF GateShape
<1>6. ASSUME ~q.blind, NEW reason \in InForce(req[r]), SeenIn(reason, req[r])
      PROVE  SeenIn(reason, q)
  <2>1. seen /\ q.configs = alerts[req[r].user] \cup others
    BY <1>4, <1>6 DEF read, blind
  <2>2. reason.kind = "alerts" => reason.about \in alerts[req[r].user]
    BY Grounds DEF InForce
  <2> QED
    BY <1>4, <1>6, <2>1, <2>2 DEF SeenIn
<1>7. ~q.blind => ~req[r].blind
  BY <1>4 DEF blind
<1>8. q.at = "gate" /\ q.user = req[r].user /\ q.env = req[r].env
  BY <1>4
<1> QED
  BY <1>1, <1>3, <1>5, <1>6, <1>7, <1>8, ReadGate

\* Whoever passes does so for no reason that lasted, or as an admin whom all of
\* them allow.
LEMMA Enforced ==
    ASSUME DeploysInv, Deploys!Lasting, NEW r \in Slot, Deploys!enforceDeployFreeze(r)
    PROVE  DeploysInv'
<1>1. PICK counted \in BOOLEAN :
          LET counting == IF counted THEN req[r].configs \cap alerts[req[r].user] ELSE {}
              reasons == Deploys!Reasons(req[r].windows, req[r].policy, req[r].signals,
                                         counting, req[r].env, now)
          IN  Deploys!Goto(r, IF Deploys!MayPass(r, reasons)
                      THEN [at |-> "list", read |-> {}, env |-> req[r].env,
                            entry |-> [Deploys!Entry(req[r].user,
                              FALSE) EXCEPT !.id = req[r].id],
                            blind |-> req[r].blind \/ ~counted]
                      ELSE Deploys!Idle)
  BY DEF Deploys!enforceDeployFreeze
<1> DEFINE counting == IF counted THEN req[r].configs \cap alerts[req[r].user] ELSE {}
           reasons == Deploys!Reasons(req[r].windows, req[r].policy, req[r].signals,
                                      counting, req[r].env, now)
           q == [at |-> "list", read |-> {}, env |-> req[r].env,
                 entry |-> [Deploys!Entry(req[r].user, FALSE) EXCEPT !.id = req[r].id],
                 blind |-> req[r].blind \/ ~counted]
<1>2. /\ req[r].at = "gate"
      /\ req[r].windows # None /\ req[r].policy # None /\ req[r].signals # None
      /\ req[r].configs # None
  BY DEF Deploys!enforceDeployFreeze, Deploys!AllRead
<1>3. CASE ~Deploys!MayPass(r, reasons)
  BY <1>1, <1>3, RequestGone DEF Deploys!Idle
<1>4. CASE Deploys!MayPass(r, reasons)
  <2>1. Deploys!Goto(r, q)
    BY <1>1, <1>4
  <2>2. /\ q.at = "list" /\ PassShape(q) /\ q.entry.user = req[r].user
        /\ q.blind = (req[r].blind \/ ~counted)
    BY DEF PassShape, Deploys!Entry
  <2>3. ASSUME ~q.blind, NEW reason \in lasting[r]
        PROVE  reason.override /\ q.entry.user \in Admin
    <3>1. counted /\ ~req[r].blind
      BY <2>2, <2>3
    <3>2. reason \in InForce(req[r]) /\ SeenIn(reason, req[r])
      BY <1>2, <2>3, <3>1 DEF DeploysInv, AtGate
    <3>3. reason \in reasons
      BY <1>2, <3>1, <3>2, Reevaluated
    <3> HIDE DEF reasons
    <3> QED
      BY <1>4, <2>2, <3>3 DEF Deploys!MayPass, Deploys!OverrideAllowed
  <2> HIDE DEF q
  <2>4. ASSUME req'[r] = q PROVE AtGate(r)' /\ Beyond(r)'
    <3>1. lasting'[r] = lasting[r]
      BY <2>2, <2>4 DEF Deploys!Lasting
    <3> QED
      BY <2>2, <2>3, <2>4, <3>1 DEF AtGate, Beyond
  <2> QED
    BY <2>1, <2>4, DeploysMoved
<1> QED
  BY <1>3, <1>4

LEMMA Listed ==
    ASSUME DeploysInv, Deploys!Lasting, NEW r \in Slot, Deploys!getDeployments(r)
    PROVE  DeploysInv'
<1>1. CASE Deploys!Goto(r, Deploys!Idle)
  BY <1>1, RequestGone DEF Deploys!Idle
<1>2. ASSUME NEW seen \in BOOLEAN,
             req' = [req EXCEPT ![r].at = "forward",
                                ![r].read = IF seen THEN deployments ELSE {}]
      PROVE  DeploysInv'
  <2> DEFINE q == [req[r] EXCEPT !.at = "forward",
                                 !.read = IF seen THEN deployments ELSE {}]
  <2>1. req[r].at = "list" /\ PassShape(req[r])
    BY DEF Deploys!getDeployments, DeploysInv, Beyond
  <2>2. Deploys!Goto(r, q)
    BY <1>2, <2>1 DEF DeploysInv, Deploys!Goto
  <2>3. q = [at |-> "forward", entry |-> req[r].entry, env |-> req[r].env,
             read |-> IF seen THEN deployments ELSE {}, blind |-> req[r].blind]
    BY <2>1, PassEdits
  <2> HIDE DEF q
  <2>4. PassShape(q) /\ q.at = "forward" /\ q.entry = req[r].entry /\ q.blind = req[r].blind
    BY <2>3 DEF PassShape
  <2>5. ASSUME req'[r] = q PROVE AtGate(r)' /\ Beyond(r)'
    <3>1. lasting'[r] = lasting[r]
      BY <2>4, <2>5 DEF Deploys!Lasting
    <3> QED
      BY <2>1, <2>4, <2>5, <3>1 DEF DeploysInv, AtGate, Beyond
  <2> QED
    BY <2>2, <2>5, DeploysMoved
<1> QED
  BY <1>1, <1>2 DEF Deploys!getDeployments

\* The requests of the other routes end, or go on to the upsert.
LEMMA Elsewhere ==
    ASSUME DeploysInv, Deploys!Lasting, NEW r \in Slot,
           \/ Deploys!forwardDeploymentToOrchestrator(r)
           \/ \E user \in User, id \in 1..requests :
                 Deploys!deleteDeployment(r, user, id) \/ Deploys!toggleDeployment(r, user, id)
           \/ \E w \in Window : Deploys!createWindow(r, w) \/ Deploys!deleteWindow(r, w)
           \/ \E body \in PolicyBody : Deploys!putPolicy(r, body)
           \/ Deploys!setSharedConfig(r)
    PROVE  DeploysInv'
<1>1. ASSUME NEW q, Deploys!Goto(r, q), q.at \in {"idle", "write"} PROVE DeploysInv'
  BY <1>1, RequestGone
<1>2. CASE Deploys!forwardDeploymentToOrchestrator(r)
  BY <1>1, <1>2 DEF Deploys!forwardDeploymentToOrchestrator
<1>3. ASSUME NEW user, NEW id, Deploys!deleteDeployment(r, user, id) PROVE DeploysInv'
  BY <1>1, <1>3 DEF Deploys!deleteDeployment, Deploys!Edit, Deploys!Idle
<1>4. ASSUME NEW user, NEW id, Deploys!toggleDeployment(r, user, id) PROVE DeploysInv'
  BY <1>1, <1>4 DEF Deploys!toggleDeployment, Deploys!Edit, Deploys!Idle
<1>5. ASSUME NEW w, Deploys!createWindow(r, w) PROVE DeploysInv'
  BY <1>1, <1>5 DEF Deploys!createWindow, Deploys!ReadThenWrite, Deploys!Idle
<1>6. ASSUME NEW w, Deploys!deleteWindow(r, w) PROVE DeploysInv'
  BY <1>1, <1>6 DEF Deploys!deleteWindow, Deploys!ReadThenWrite, Deploys!Idle
<1>7. ASSUME NEW body, Deploys!putPolicy(r, body) PROVE DeploysInv'
  BY <1>1, <1>7 DEF Deploys!putPolicy, Deploys!ReadThenWrite, Deploys!Idle
<1>8. CASE Deploys!setSharedConfig(r)
  BY <1>1, <1>8 DEF Deploys!setSharedConfig, Deploys!Idle
<1> QED
  BY <1>2, <1>3, <1>4, <1>5, <1>6, <1>7, <1>8

LEMMA DeploysStepInv == DeploysInv /\ [Deploys!Next]_Deploys!vars => DeploysInv'
<1> SUFFICES ASSUME DeploysInv, [Deploys!Next]_Deploys!vars PROVE DeploysInv'
  OBVIOUS
<1>1. CASE UNCHANGED Deploys!vars
  BY <1>1 DEF Deploys!vars, Deploys!stored, DeploysInv, AtGate, Beyond, InForce
<1>2. CASE Deploys!Next
  <2>1. Deploys!Lasting
    BY <1>2 DEF Deploys!Next
  <2>2. ASSUME NEW r \in Slot, NEW body, Deploys!putSignals(r, body) PROVE DeploysInv'
    BY <2>1, <2>2, AllUntouched DEF Deploys!putSignals
  <2>3. ASSUME NEW user, NEW config, Deploys!Alerted(user, config) PROVE DeploysInv'
    BY <2>1, <2>3, AllUntouched DEF Deploys!Alerted
  <2>4. CASE Deploys!Tick
    BY <2>1, <2>4, AllUntouched DEF Deploys!Tick
  <2> QED
    BY <1>2, <2>1, <2>2, <2>3, <2>4, Created, WindowsRead, PolicyRead, SignalsRead,
       ConfigsRead, Enforced, Listed, Elsewhere DEF Deploys!Next
<1> QED
  BY <1>1, <1>2

-----------------------------------------------------------------------------
(***************************************************************************)
(* The freeze windows of the orchestrator: their arithmetic is exact, for  *)
(* every length of the day and the week and any set of windows.            *)
(***************************************************************************)
\* A minute of the week is a number.
LEMMA DaysPositive == Days \in Nat \ {0} /\ Day \in Nat \ {0}
  BY ServicesAssumption

LEMMA WeekPositive == Gate!Week \in Nat \ {0}
  BY DaysPositive, SMT DEF Gate!Week

\* A valid entry starts and ends in the week.
LEMMA EntryInWeek ==
    ASSUME NEW e \in Gate!Entry, Gate!Valid(e)
    PROVE  Gate!Start(e) \in 0..(Gate!Week - 1) /\ Gate!Ending(e) \in 0..(Gate!Week - 1)
<1> USE DaysPositive
<1>1. \A d \in 0..(Days - 1), m \in 0..(Day - 1) : d * Day + m \in 0..(Gate!Week - 1)
  <2> SUFFICES ASSUME NEW d \in 0..(Days - 1), NEW m \in 0..(Day - 1)
               PROVE  d * Day + m \in 0..(Days * Day - 1)
    BY DEF Gate!Week
  <2>1. d * Day \in Int /\ 0 <= d * Day
    BY SMT
  <2>2. (d + 1) * Day = d * Day + Day
    BY SMT
  <2>3. (d + 1) * Day <= Days * Day
    <3>1. Days - (d + 1) \in Nat
      BY SMT
    <3>2. (Days - (d + 1)) * Day >= 0
      BY <3>1, SMT
    <3>3. (Days - (d + 1)) * Day = Days * Day - (d + 1) * Day
      BY <3>1, SMT
    <3> QED
      BY <3>2, <3>3, SMT
  <2> QED
    BY <2>1, <2>2, <2>3, SMT
<1>2. e.day \in 0..(Days - 1) /\ e.last \in 0..(Days - 1)
      /\ e.from \in 0..(Day - 1) /\ e.until \in 0..(Day - 1)
  BY DEF Gate!Entry, Gate!Valid
<1> QED
  BY <1>1, <1>2 DEF Gate!Start, Gate!Ending

\* Looking for the minute in this week and the next is looking whether the
\* last start is more recent than the last end.
LEMMA RangeIsOpen ==
    ASSUME NEW e \in Gate!Entry, Gate!Valid(e), NEW minute \in 0..(Gate!Week - 1)
    PROVE  Gate!InRange(e, minute) <=> Gate!Open(e, minute)
<1>1. Gate!Week \in Nat \ {0}
  BY WeekPositive
<1>2. Gate!Start(e) \in 0..(Gate!Week - 1) /\ Gate!Ending(e) \in 0..(Gate!Week - 1)
  BY EntryInWeek
<1>3. Gate!InRange(e, minute) <=>
        \/ Gate!Start(e) <= minute /\ minute < Gate!End(e)
        \/ Gate!Start(e) <= minute + Gate!Week /\ minute + Gate!Week < Gate!End(e)
  BY DEF Gate!InRange
<1>4. CASE Gate!Ending(e) <= Gate!Start(e)
  <2>1. Gate!End(e) = Gate!Ending(e) + Gate!Week
    BY <1>4 DEF Gate!End
  <2> QED
    BY <1>1, <1>2, <1>3, <1>4, <2>1, SMT DEF Gate!Open, Gate!Since
<1>5. CASE Gate!Start(e) < Gate!Ending(e)
  <2>1. Gate!End(e) = Gate!Ending(e)
    BY <1>2, <1>5, SMT DEF Gate!End
  <2> QED
    BY <1>1, <1>2, <1>3, <1>5, <2>1, SMT DEF Gate!Open, Gate!Since
<1> QED
  BY <1>1, <1>2, <1>4, <1>5, SMT

\* Hence the code freezes exactly when a freeze is due.
LEMMA ActiveIsDue ==
    ASSUME Gate!TypeOK
    PROVE  Gate!freeze_active <=> manual \/ \E e \in windows : Gate!Valid(e) /\ Gate!Open(e,
           now)
<1>1. \A e \in windows : Gate!Valid(e) => (Gate!InRange(e, now) <=> Gate!Open(e, now))
  BY RangeIsOpen DEF Gate!TypeOK
<1> QED
  BY <1>1 DEF Gate!freeze_active


GateInv == Gate!TypeOK /\ Gate!FreezeExact

LEMMA GateInitInv == Gate!Init => GateInv
<1> SUFFICES ASSUME Gate!Init PROVE GateInv
  OBVIOUS
<1>1. now \in 0..(Gate!Week - 1)
  BY WeekPositive, SMT DEF Gate!Init
<1>2. windows \subseteq Gate!Entry
  BY DEF Gate!Init
<1> QED
  BY <1>1, <1>2 DEF Gate!Init, GateInv, Gate!TypeOK, Gate!FreezeExact

LEMMA GateStepInv == GateInv /\ [Gate!Next]_Gate!vars => GateInv'
<1> SUFFICES ASSUME Gate!TypeOK, Gate!FreezeExact, [Gate!Next]_Gate!vars
             PROVE  Gate!TypeOK' /\ Gate!FreezeExact'
  BY DEF GateInv
<1>1. CASE Gate!Tick
  <2>1. Gate!TypeOK'
    BY <1>1, WeekPositive, SMT DEF Gate!Tick, Gate!TypeOK
  <2> QED
    BY <1>1, <2>1 DEF Gate!Tick, Gate!FreezeExact
<1>2. CASE Gate!Restart
  BY <1>2 DEF Gate!Restart, Gate!TypeOK, Gate!FreezeExact
<1>3. ASSUME NEW body \in Gate!Request, Gate!deployment_apply(body)
      PROVE  Gate!TypeOK' /\ Gate!FreezeExact'
  <2>1. UNCHANGED <<manual, windows, now>>
    BY <1>3 DEF Gate!deployment_apply
  <2>2. /\ answer'.body = body
        /\ answer'.said = IF ~body.may THEN "refused"
                          ELSE IF Gate!check_deploy_allowed(body) THEN "reconciled"
                          ELSE "frozen"
    BY <1>3 DEF Gate!deployment_apply
  <2>3. Gate!freeze_active
          <=> manual \/ \E e \in windows : Gate!Valid(e) /\ Gate!Open(e, now)
    BY ActiveIsDue
  <2>4. (manual \/ \E e \in windows : Gate!Valid(e) /\ Gate!Open(e, now))'
          <=> Gate!freeze_active
    BY <2>1, <2>3 DEF Gate!Open, Gate!Valid, Gate!Since, Gate!Start, Gate!Ending,
                      Gate!Week
  <2>5. Gate!FreezeExact'
    BY <2>2, <2>4 DEF Gate!FreezeExact, Gate!check_deploy_allowed
  <2>6. Gate!TypeOK'
    BY <1>3 DEF Gate!deployment_apply, Gate!TypeOK, Gate!Answer
  <2> QED
    BY <2>5, <2>6
<1>4. CASE UNCHANGED Gate!vars
  BY <1>4 DEF Gate!vars, Gate!TypeOK, Gate!FreezeExact, Gate!Open, Gate!Valid,
              Gate!Since, Gate!Start, Gate!Ending, Gate!Week
<1> QED
  BY <1>1, <1>2, <1>3, <1>4 DEF Gate!Next

-----------------------------------------------------------------------------
(***************************************************************************)
(* The two freezes among the services.                                     *)
(***************************************************************************)
LEMMA DeploysStarts == ServicesInit /\ focus = "deploys" => Deploys!Init
  BY DEF ServicesInit, SettingsInit, ListsInit, DeploysInit, SetupInit,
         AppsInit, SecretsInit, AuditInit, FlagsInit, SharedInit, TasksInit,
         WatchInit, TicketsInit, CommandsInit, AdviceInit, ViewsInit, DutyInit,
         FleetInit, GateInit

LEMMA DeploysGoes ==
    [ServicesNext]_<<focus, places>> =>
        UNCHANGED focus /\ (focus = "deploys" => [Deploys!Next]_Deploys!vars)
  BY DEF ServicesNext, SettingsStep, ListsStep, DeploysStep, SetupStep,
         AppsStep, SecretsStep, AuditStep, FlagsStep, SharedStep, TasksStep,
         WatchStep, TicketsStep, CommandsStep, AdviceStep, ViewsStep, DutyStep,
         FleetStep, GateStep, places, rest5, rest6, rest7, rest8, rest9,
         rest10, rest11, Deploys!vars, Deploys!stored, windows, policy,
         signals, alerts, deployments, orchestrated, req, lasting, now,
         requests, failures

LEMMA GateStarts == ServicesInit /\ focus = "gate" => Gate!Init
  BY DEF ServicesInit, SettingsInit, ListsInit, DeploysInit, SetupInit,
         AppsInit, SecretsInit, AuditInit, FlagsInit, SharedInit, TasksInit,
         WatchInit, TicketsInit, CommandsInit, AdviceInit, ViewsInit, DutyInit,
         FleetInit, GateInit

LEMMA GateGoes ==
    [ServicesNext]_<<focus, places>> =>
        UNCHANGED focus /\ (focus = "gate" => [Gate!Next]_Gate!vars)
  BY DEF ServicesNext, SettingsStep, ListsStep, DeploysStep, SetupStep,
         AppsStep, SecretsStep, AuditStep, FlagsStep, SharedStep, TasksStep,
         WatchStep, TicketsStep, CommandsStep, AdviceStep, ViewsStep, DutyStep,
         FleetStep, GateStep, places, rest5, Gate!vars, manual, windows, now,
         answer

\* A reason to freeze that is in force all the while a request is at the gate
\* keeps it out unless that reason lets an admin pass, however the windows, the
\* policy, the signals and the alerts change meanwhile (enforceDeployFreeze);
\* and a deployment by the orchestrator goes ahead without override only when
\* no freeze is due by the operator's reading of the weekly windows, and is
\* held up only when one is (check_deploy_allowed).
THEOREM FreezeHolds == ServicesSpec => []LastingFreezeHolds
<1> DEFINE Inv == /\ focus = "deploys" => DeploysInv
                  /\ focus = "gate" => GateInv
<1>1. ServicesInit => Inv
  BY DeploysStarts, DeploysInitInv, GateStarts, GateInitInv
<1>2. Inv /\ [ServicesNext]_<<focus, places>> => Inv'
  BY DeploysGoes, DeploysStepInv, GateGoes, GateStepInv
<1>3. Inv => LastingFreezeHolds
  BY DEF DeploysInv, Beyond, Deploys!LastingFreezeHolds, GateInv, LastingFreezeHolds
<1> QED
  BY <1>1, <1>2, <1>3, PTL DEF ServicesSpec

LEMMA AppsStarts == ServicesInit /\ focus = "apps" => Apps!Init
  BY DEF ServicesInit, SettingsInit, ListsInit, DeploysInit, SetupInit,
         AppsInit, SecretsInit, AuditInit, FlagsInit, SharedInit, TasksInit,
         WatchInit, TicketsInit, CommandsInit, AdviceInit, ViewsInit, DutyInit,
         FleetInit, GateInit

LEMMA AppsGoes ==
    [ServicesNext]_<<focus, places>> =>
        UNCHANGED focus /\ (focus = "apps" => [Apps!Next]_Apps!vars)
  BY DEF ServicesNext, SettingsStep, ListsStep, DeploysStep, SetupStep,
         AppsStep, SecretsStep, AuditStep, FlagsStep, SharedStep, TasksStep,
         WatchStep, TicketsStep, CommandsStep, AdviceStep, ViewsStep, DutyStep,
         FleetStep, GateStep, places, rest5, rest6, rest7, rest8, rest9,
         Apps!vars, status, running, memory, workspaces, req, unsure, requests,
         failures, restarts

-----------------------------------------------------------------------------
(***************************************************************************)
(* Start, stop and restart.  A command that has run on its own and is not  *)
(* next yet is clean: there is no other like it, and the container does    *)
(* what it says.  One that is not clean leaves the row in doubt.           *)
(***************************************************************************)
Telling(r) == req[r].at = "update"

Clean(r) ==
    /\ running = (req[r].command # "stop")
    /\ \A other \in Slot : Telling(other) => other = r

\* A command that is next is clean or leaves the row in doubt.
Accounted(r) == Telling(r) => IF req[r].clean THEN Clean(r) ELSE unsure

\* A clone is not the first app.
Apart(r) == req[r].at = "clone" => req[r].new # Apps!First

AppsInv ==
    /\ Apps!TypeOK
    /\ requests \in Nat
    /\ \A r \in Slot : Accounted(r) /\ Apart(r)
    /\ Apps!StatusTold

LEMMA AppsInitInv == Apps!Init => AppsInv
<1> SUFFICES ASSUME Apps!Init PROVE AppsInv
  OBVIOUS
<1>1. Apps!App = {1} /\ status[1] = "stopped" /\ DOMAIN memory = {}
  BY DEF Apps!Init, Apps!First, Apps!App
<1>2. Apps!TypeOK
  <2>1. workspaces \in {None} \cup SUBSET {"Default Workspace", "made"}
    BY DEF Apps!Init
  <2>2. req \in [Slot -> {Apps!Idle} \cup Apps!Request]
    BY DEF Apps!Init
  <2>3. running = FALSE /\ unsure = FALSE
    BY DEF Apps!Init
  <2>4. Apps!App \subseteq Nat /\ \A a \in Apps!App : status[a] \in {"stopped", "running"}
    BY <1>1
  <2>5. \A a \in DOMAIN memory : memory[a] \in Apps!Maps
    BY <1>1
  <2> QED
    BY <2>1, <2>2, <2>3, <2>4, <2>5 DEF Apps!TypeOK
<1> QED
  BY <1>1, <1>2 DEF Apps!Init, AppsInv, Accounted, Apart, Telling, Apps!Idle,
                    Apps!StatusTold, Apps!First

\* The first app's row is as before, or gone.
FirstKept ==
    Apps!First \in Apps!App' =>
        Apps!First \in Apps!App /\ status'[Apps!First] = status[Apps!First]

\* What is put to work in a slot waits for docker or for the table.
LEMMA AppsBegun ==
    ASSUME AppsInv, NEW r \in Slot, Apps!Begin(r), UNCHANGED <<running, unsure>>,
           Apps!TypeOK', FirstKept,
           \/ UNCHANGED req
           \/ \E next : /\ Apps!Goto(r, next) /\ next.at \in {"docker", "clone"}
                        /\ next.at = "clone" => next.new # Apps!First
    PROVE  AppsInv'
<1>1. req[r] = Apps!Idle /\ requests' = requests + 1
  BY DEF Apps!Begin
<1>2. requests' \in Nat
  BY <1>1 DEF AppsInv
<1>t. req \in [Slot -> {Apps!Idle} \cup Apps!Request]
  BY DEF AppsInv, Apps!TypeOK
<1>3. ~Telling(r)
  BY <1>1 DEF Telling, Apps!Idle
<1>4. \A s \in Slot : \/ req'[s] = req[s]
                      \/ s = r /\ req'[s].at = "docker"
                      \/ s = r /\ req'[s].at = "clone" /\ req'[s].new # Apps!First
  BY <1>t DEF Apps!Goto
<1>5. \A s \in Slot : Telling(s)' => req'[s] = req[s]
  BY <1>4 DEF Telling
<1>6. \A s \in Slot : Telling(s)' <=> Telling(s)
  BY <1>3, <1>4 DEF Telling
<1>7. \A s \in Slot : Accounted(s)'
  BY <1>5, <1>6 DEF AppsInv, Accounted, Clean
<1>8. \A s \in Slot : Apart(s)'
  BY <1>4 DEF AppsInv, Apart, Apps!First
<1>9. Apps!StatusTold'
  BY <1>6 DEF AppsInv, Apps!StatusTold, Telling, FirstKept, Apps!First
<1> QED
  BY <1>2, <1>7, <1>8, <1>9 DEF AppsInv

LEMMA NoCommand ==
    ASSUME AppsInv, FirstKept, UNCHANGED <<running, unsure, req>>,
           requests' \in Nat, Apps!TypeOK'
    PROVE  AppsInv'
BY DEF AppsInv, FirstKept, Accounted, Apart, Clean, Telling, Apps!StatusTold,
       Apps!First

-----------------------------------------------------------------------------
\* The types.
LEMMA MapsThere ==
    ASSUME Apps!TypeOK, NEW a
    PROVE  Apps!Of(a) \in Apps!Maps
<1>1. Apps!NoMaps \in Apps!Maps
  BY DEF Apps!NoMaps, Apps!Maps
<1> QED
  BY <1>1 DEF Apps!Of, Apps!TypeOK

LEMMA MapsChanged ==
    ASSUME Apps!TypeOK, NEW a, NEW maps \in Apps!Maps,
           memory' = Apps!Remembered(a, maps)
    PROVE  \A b \in DOMAIN memory' : memory'[b] \in Apps!Maps
BY DEF Apps!Remembered, Apps!TypeOK

LEMMA RowInserted ==
    ASSUME Apps!TypeOK, NEW new \in Nat, status' = Apps!Inserted(new)
    PROVE  /\ Apps!App' = Apps!App \cup {new}
           /\ \A a \in Apps!App' : status'[a] = IF a = new THEN "stopped" ELSE status[a]
           /\ Apps!App' \subseteq Nat
           /\ \A a \in Apps!App' : status'[a] \in {"stopped", "running"}
<1>1. Apps!App' = Apps!App \cup {new}
  BY DEF Apps!Inserted, Apps!App
<1>2. \A a \in Apps!App' : status'[a] = IF a = new THEN "stopped" ELSE status[a]
  BY <1>1 DEF Apps!Inserted, Apps!App
<1> QED
  BY <1>1, <1>2 DEF Apps!TypeOK

LEMMA SlotTyped ==
    ASSUME Apps!TypeOK, NEW r \in Slot, NEW next \in {Apps!Idle} \cup Apps!Request,
           Apps!Goto(r, next)
    PROVE  req' \in [Slot -> {Apps!Idle} \cup Apps!Request]
BY DEF Apps!TypeOK, Apps!Goto

LEMMA StillTyped ==
    ASSUME Apps!TypeOK, UNCHANGED <<running, unsure>>, UNCHANGED memory, UNCHANGED workspaces,
           UNCHANGED status, req' \in [Slot -> {Apps!Idle} \cup Apps!Request]
    PROVE  Apps!TypeOK'
BY DEF Apps!TypeOK, Apps!App

LEMMA createAppInv ==
    ASSUME AppsInv, NEW r \in Slot, Apps!createApp(r) PROVE AppsInv'
<1>1. requests \in Nat /\ Apps!TypeOK /\ requests' = requests + 1 /\ Apps!NewApp \in Nat \ {0, 1}
  BY DEF Apps!createApp, Apps!Begin, AppsInv, Apps!NewApp
<1>2. UNCHANGED <<running, memory, workspaces, req, unsure>>
  BY DEF Apps!createApp, Apps!Memory
<1>3. CASE status' = Apps!Inserted(Apps!NewApp)
  <2>1. Apps!TypeOK'
    BY <1>1, <1>2, <1>3, RowInserted DEF Apps!TypeOK
  <2>2. FirstKept
    BY <1>1, <1>3, RowInserted DEF FirstKept, Apps!First
  <2> QED
    BY <1>1, <1>2, <2>1, <2>2, NoCommand
<1>4. CASE UNCHANGED status
  <2>1. Apps!TypeOK' /\ FirstKept
    BY <1>1, <1>2, <1>4, StillTyped DEF FirstKept, Apps!App, Apps!TypeOK
  <2> QED
    BY <1>1, <1>2, <2>1, NoCommand
<1> QED
  BY <1>3, <1>4 DEF Apps!createApp

LEMMA deleteAppInv ==
    ASSUME AppsInv, NEW r \in Slot, NEW a, Apps!deleteApp(r, a) PROVE AppsInv'
<1>1. requests' \in Nat /\ Apps!TypeOK
  BY DEF Apps!deleteApp, Apps!Begin, AppsInv
<1>2. UNCHANGED <<running, memory, workspaces, req, unsure>>
  BY DEF Apps!deleteApp, Apps!Memory
<1>3. CASE status' = [b \in Apps!App \ {a} |-> status[b]]
  <2>1. Apps!App' = Apps!App \ {a} /\ \A b \in Apps!App' : status'[b] = status[b]
    BY <1>3 DEF Apps!App
  <2>2. Apps!TypeOK'
    BY <1>1, <1>2, <2>1 DEF Apps!TypeOK
  <2> QED
    BY <1>1, <1>2, <2>1, <2>2, NoCommand DEF FirstKept, Apps!First
<1>4. CASE UNCHANGED status
  <2>1. Apps!TypeOK' /\ FirstKept
    BY <1>1, <1>2, <1>4, StillTyped DEF FirstKept, Apps!App, Apps!TypeOK
  <2> QED
    BY <1>1, <1>2, <2>1, NoCommand
<1> QED
  BY <1>3, <1>4 DEF Apps!deleteApp

LEMMA dockerActionInv ==
    ASSUME AppsInv, NEW r \in Slot, NEW user \in User, NEW c \in Apps!Command,
           Apps!dockerAction(r, user, c)
    PROVE  AppsInv'
<1> DEFINE next == [at |-> "docker", user |-> user, command |-> c]
<1>1. Apps!Begin(r) /\ UNCHANGED <<status, running, unsure, memory, workspaces>>
      /\ (UNCHANGED req \/ Apps!Goto(r, next))
  BY DEF Apps!dockerAction, Apps!Table, Apps!Memory
<1>2. next \in Apps!Request /\ next.at = "docker"
  BY DEF Apps!Request
<1>3. Apps!TypeOK
  BY DEF AppsInv
<1>4. Apps!TypeOK'
  BY <1>1, <1>2, <1>3, SlotTyped, StillTyped DEF Apps!TypeOK
<1>5. FirstKept
  BY <1>1 DEF FirstKept, Apps!App
<1> HIDE DEF next
<1> QED
  BY <1>1, <1>2, <1>4, <1>5, AppsBegun

\* What a command that has run makes of the other ones.
LEMMA runCommandInv ==
    ASSUME AppsInv, NEW r \in Slot, Apps!runCommand(r) PROVE AppsInv'
<1> DEFINE pending == {s \in Slot : req[s].at = "update"}
           Alone(q) == IF q.at = "update" THEN [q EXCEPT !.clean = FALSE] ELSE q
           After(q) == [s \in Slot |-> IF s = r THEN q ELSE Alone(req[s])]
           next == [at |-> "update", user |-> req[r].user,
                    command |-> req[r].command, clean |-> pending = {}]
<1>1. /\ req[r].at = "docker"
      /\ UNCHANGED <<status, memory, workspaces, requests>>
      /\ \/ /\ running' = (req[r].command # "stop")
            /\ req' = After(next)
            /\ unsure' = (unsure \/ pending # {})
         \/ /\ running' \in {running, running /\ req[r].command = "start"}
            /\ req' = After(Apps!Idle)
            /\ unsure' = TRUE
  BY DEF Apps!runCommand, Apps!Memory
<1>t. /\ req \in [Slot -> {Apps!Idle} \cup Apps!Request]
      /\ running \in BOOLEAN /\ unsure \in BOOLEAN /\ requests \in Nat
  BY DEF AppsInv, Apps!TypeOK
<1>2. \A s \in Slot : Alone(req[s]) \in {Apps!Idle} \cup Apps!Request
  <2> SUFFICES ASSUME NEW s \in Slot, req[s].at = "update"
               PROVE  [req[s] EXCEPT !.clean = FALSE] \in Apps!Request
    BY <1>t
  <2>1. req[s] \in [at : {"update"}, user : User, command : Apps!Command, clean : BOOLEAN]
    BY <1>t DEF Apps!Request, Apps!Idle
  <2>2. [req[s] EXCEPT !.clean = FALSE]
          \in [at : {"update"}, user : User, command : Apps!Command, clean : BOOLEAN]
    BY <2>1
  <2> QED
    BY <2>2 DEF Apps!Request
<1>3. req[r] \in [at : {"docker"}, user : User, command : Apps!Command]
  BY <1>1, <1>t DEF Apps!Request, Apps!Idle
<1>4. next \in Apps!Request
  BY <1>3 DEF Apps!Request
<1>5. \A s \in Slot : s # r => /\ req'[s].at = req[s].at
                               /\ req[s].at = "update" => ~req'[s].clean
                               /\ req[s].at # "update" => req'[s] = req[s]
  <2> SUFFICES ASSUME NEW s \in Slot, s # r
               PROVE  /\ Alone(req[s]).at = req[s].at
                      /\ req[s].at = "update" => ~Alone(req[s]).clean
                      /\ req[s].at # "update" => Alone(req[s]) = req[s]
    BY <1>1
  <2>1. CASE req[s].at = "update"
    <3>1. req[s] \in [at : {"update"}, user : User, command : Apps!Command, clean : BOOLEAN]
      BY <1>t, <2>1 DEF Apps!Request, Apps!Idle
    <3> QED
      BY <2>1, <3>1
  <2> QED
    BY <2>1
<1>6. req'[r] \in {next, Apps!Idle}
  BY <1>1
<1>7. Apps!TypeOK'
  <2>1. req' \in [Slot -> {Apps!Idle} \cup Apps!Request]
    <3> HIDE DEF next, Alone
    <3> QED
      BY <1>1, <1>2, <1>4
  <2>2. running' \in BOOLEAN /\ unsure' \in BOOLEAN
    BY <1>1, <1>t
  <2> QED
    BY <1>1, <2>1, <2>2 DEF AppsInv, Apps!TypeOK, Apps!App
<1>8. \A s \in Slot : Apart(s)'
  BY <1>5, <1>6 DEF AppsInv, Apart, Apps!First, Apps!Idle
<1>9. \A s \in Slot : s # r /\ Telling(s)' => ~req'[s].clean /\ unsure'
  <2> SUFFICES ASSUME NEW s \in Slot, s # r, Telling(s)' PROVE ~req'[s].clean /\ unsure'
    OBVIOUS
  <2>1. req[s].at = "update" /\ ~req'[s].clean
    BY <1>5 DEF Telling
  <2> QED
    BY <1>1, <2>1
<1>10. Telling(r)' => IF req'[r].clean THEN Clean(r)' ELSE unsure'
  <2> SUFFICES ASSUME Telling(r)' PROVE IF req'[r].clean THEN Clean(r)' ELSE unsure'
    OBVIOUS
  <2>1. req'[r] = next /\ running' = (req[r].command # "stop")
        /\ unsure' = (unsure \/ pending # {})
    BY <1>1 DEF Telling, Apps!Idle
  <2>4. (req'[r].clean <=> pending = {}) /\ req'[r].command = req[r].command
    <3>1. next.clean = (pending = {}) /\ next.command = req[r].command
      BY Zenon
    <3> HIDE DEF next, pending
    <3> QED
      BY <2>1, <3>1
  <2>2. CASE pending = {}
    <3>1. \A s \in Slot : Telling(s)' => s = r
      BY <1>5, <2>2 DEF Telling
    <3>2. Clean(r)'
      BY <2>1, <2>4, <3>1 DEF Clean
    <3> QED
      BY <2>2, <2>4, <3>2
  <2>3. CASE pending # {}
    <3>1. unsure'
      BY <2>1, <2>3
    <3> QED
      BY <2>3, <2>4, <3>1
  <2> QED
    BY <2>2, <2>3
<1>11. Apps!StatusTold'
  <2>1. CASE unsure'
    BY <2>1 DEF Apps!StatusTold
  <2>2. CASE ~unsure'
    BY <1>1, <2>2 DEF Apps!StatusTold
  <2> QED
    BY <2>1, <2>2
<1> QED
  BY <1>1, <1>t, <1>7, <1>8, <1>9, <1>10, <1>11 DEF AppsInv, Accounted

LEMMA updateStatusInv ==
    ASSUME AppsInv, NEW r \in Slot, Apps!updateStatus(r) PROVE AppsInv'
<1>1. /\ req[r].at = "update" /\ UNCHANGED <<running, memory, workspaces, requests>>
      /\ Apps!Goto(r, Apps!Idle)
      /\ \/ /\ Apps!First \in Apps!App
            /\ status' = [status EXCEPT ![Apps!First] = Apps!Told(req[r].command)]
            /\ unsure' = (unsure /\ ~req[r].clean)
         \/ UNCHANGED status /\ unsure' = TRUE
  BY DEF Apps!updateStatus, Apps!Memory
<1>t. /\ req \in [Slot -> {Apps!Idle} \cup Apps!Request]
      /\ unsure \in BOOLEAN /\ Apps!TypeOK
  BY DEF AppsInv, Apps!TypeOK
<1>2. /\ req' \in [Slot -> {Apps!Idle} \cup Apps!Request]
      /\ \A s \in Slot : req'[s] = IF s = r THEN Apps!Idle ELSE req[s]
  BY <1>1, <1>t DEF Apps!Goto
<1>3. Apps!App' = Apps!App /\ \A a \in Apps!App' : status'[a] \in {"stopped", "running"}
  BY <1>1, <1>t DEF Apps!App, Apps!TypeOK, Apps!Told
<1>4. Apps!TypeOK'
  BY <1>1, <1>t, <1>2, <1>3 DEF Apps!TypeOK
<1>5. \A s \in Slot : Telling(s)' => Telling(s) /\ s # r /\ req'[s] = req[s]
  BY <1>2 DEF Telling, Apps!Idle
<1>6. \A s \in Slot : Apart(s)'
  BY <1>2 DEF AppsInv, Apart, Apps!Idle, Apps!First
<1>7. req[r].clean \in BOOLEAN
  BY <1>1, <1>t DEF Apps!Request, Apps!Idle
<1>8. CASE req[r].clean
  <2>1. running = (req[r].command # "stop") /\ \A s \in Slot : ~Telling(s)'
    BY <1>1, <1>5, <1>8 DEF AppsInv, Accounted, Clean, Telling
  <2>2. Apps!StatusTold'
    BY <1>1, <1>3, <2>1 DEF Apps!StatusTold, Apps!App, Apps!Told
  <2> QED
    BY <1>1, <1>4, <1>6, <2>1, <2>2 DEF AppsInv, Accounted
<1>9. CASE ~req[r].clean
  <2>1. unsure /\ unsure'
    BY <1>1, <1>9 DEF AppsInv, Accounted, Telling
  <2>2. \A s \in Slot : Accounted(s)'
    BY <1>1, <1>5, <2>1 DEF AppsInv, Accounted, Clean
  <2> QED
    BY <1>1, <1>4, <1>6, <2>1, <2>2 DEF AppsInv, Apps!StatusTold
<1> QED
  BY <1>7, <1>8, <1>9

LEMMA ExitInv == ASSUME AppsInv, Apps!Exit PROVE AppsInv'
<1>1. /\ running' = FALSE /\ unsure' = TRUE
      /\ req' = [s \in Slot |-> IF req[s].at = "update" THEN [req[s] EXCEPT !.clean = FALSE] ELSE req[s]]
      /\ UNCHANGED <<status, memory, workspaces, requests>>
  BY DEF Apps!Exit, Apps!Memory
<1>t. req \in [Slot -> {Apps!Idle} \cup Apps!Request]
  BY DEF AppsInv, Apps!TypeOK
<1>2. ASSUME NEW s \in Slot, req[s].at = "update"
      PROVE  /\ [req[s] EXCEPT !.clean = FALSE] \in Apps!Request
             /\ ~[req[s] EXCEPT !.clean = FALSE].clean
             /\ [req[s] EXCEPT !.clean = FALSE].at = "update"
  <2>1. req[s] \in [at : {"update"}, user : User, command : Apps!Command, clean : BOOLEAN]
    BY <1>t, <1>2 DEF Apps!Request, Apps!Idle
  <2>2. [req[s] EXCEPT !.clean = FALSE]
          \in [at : {"update"}, user : User, command : Apps!Command, clean : BOOLEAN]
    BY <2>1
  <2> QED
    BY <2>1, <2>2 DEF Apps!Request
<1>3. req' \in [Slot -> {Apps!Idle} \cup Apps!Request]
  BY <1>1, <1>2, <1>t
<1>4. \A s \in Slot : Accounted(s)' /\ Apart(s)'
  BY <1>1, <1>2 DEF AppsInv, Accounted, Apart, Telling, Apps!First
<1>5. Apps!TypeOK'
  BY <1>1, <1>3 DEF AppsInv, Apps!TypeOK, Apps!App
<1> QED
  BY <1>1, <1>4, <1>5 DEF AppsInv, Apps!StatusTold

-----------------------------------------------------------------------------
\* The clone, what is in memory, and the restart.
LEMMA cloneInv ==
    ASSUME AppsInv, NEW r \in Slot, NEW a \in Nat, NEW backups \in BOOLEAN,
           Apps!clone(r, a, backups)
    PROVE  AppsInv'
<1> DEFINE next == [at |-> "clone", app |-> a, new |-> Apps!NewApp, backups |-> backups]
<1>1. Apps!Begin(r) /\ UNCHANGED <<status, running, unsure, memory, workspaces>>
      /\ (UNCHANGED req \/ Apps!Goto(r, next))
  BY DEF Apps!clone, Apps!Table, Apps!Memory
<1>2. Apps!NewApp \in Nat \ {0, 1}
  BY DEF AppsInv, Apps!NewApp
<1>3. next \in Apps!Request /\ next.at = "clone" /\ next.new # Apps!First
  BY <1>2 DEF Apps!Request, Apps!First
<1>4. Apps!TypeOK'
  BY <1>1, <1>3, SlotTyped, StillTyped DEF AppsInv, Apps!TypeOK
<1>5. FirstKept
  BY <1>1 DEF FirstKept, Apps!App
<1> HIDE DEF next
<1> QED
  BY <1>1, <1>3, <1>4, <1>5, AppsBegun

LEMMA InsertCloneInv ==
    ASSUME AppsInv, AppsOwner \in User, NEW r \in Slot, Apps!InsertClone(r) PROVE AppsInv'
<1>1. /\ req[r].at = "clone" /\ Apps!Goto(r, Apps!Idle)
      /\ UNCHANGED <<running, unsure, workspaces, requests>>
  BY DEF Apps!InsertClone
<1>t. req \in [Slot -> {Apps!Idle} \cup Apps!Request] /\ Apps!TypeOK
  BY DEF AppsInv, Apps!TypeOK
<1>2. req[r].new \in Nat /\ req[r].new # Apps!First
  BY <1>1, <1>t DEF AppsInv, Apart, Apps!Request, Apps!Idle
<1>3. /\ req' \in [Slot -> {Apps!Idle} \cup Apps!Request]
      /\ \A s \in Slot : req'[s] = IF s = r THEN Apps!Idle ELSE req[s]
  BY <1>1, <1>t DEF Apps!Goto
<1>4. Apps!Cloned(req[r].app, req[r].backups) \in Apps!Maps
  BY DEF Apps!Cloned, Apps!NoMaps, Apps!Maps
<1>5. Apps!TypeOK' /\ FirstKept
  <2>1. CASE /\ status' = Apps!Inserted(req[r].new)
             /\ memory' = Apps!Remembered(req[r].new, Apps!Cloned(req[r].app, req[r].backups))
    <3>1. \A b \in DOMAIN memory' : memory'[b] \in Apps!Maps
      BY <1>4, <1>t, <2>1, MapsChanged
    <3>2. /\ Apps!App' = Apps!App \cup {req[r].new}
          /\ \A a \in Apps!App' :
               status'[a] = IF a = req[r].new THEN "stopped" ELSE status[a]
          /\ Apps!App' \subseteq Nat
          /\ \A a \in Apps!App' : status'[a] \in {"stopped", "running"}
      BY <1>t, <1>2, <2>1, RowInserted
    <3>3. Apps!TypeOK'
      BY <1>1, <1>t, <1>3, <3>1, <3>2 DEF Apps!TypeOK
    <3> QED
      BY <1>2, <3>2, <3>3 DEF FirstKept, Apps!First
  <2>2. CASE UNCHANGED <<status, memory>>
    BY <1>1, <1>t, <1>3, <2>2 DEF Apps!TypeOK, FirstKept, Apps!App
  <2> QED
    BY <2>1, <2>2 DEF Apps!InsertClone
<1>6. \A s \in Slot : /\ Telling(s)' <=> Telling(s)
                      /\ Telling(s) => req'[s] = req[s]
                      /\ req'[s].at = "clone" => req'[s] = req[s]
  BY <1>1, <1>3 DEF Telling, Apps!Idle
<1>7. \A s \in Slot : Accounted(s)' /\ Apart(s)'
  BY <1>1, <1>6 DEF AppsInv, Accounted, Clean, Apart, Apps!First
<1>8. Apps!StatusTold'
  BY <1>1, <1>5, <1>6 DEF AppsInv, Apps!StatusTold, Telling, FirstKept, Apps!First
<1> QED
  BY <1>1, <1>5, <1>7, <1>8 DEF AppsInv

LEMMA OnAppInv ==
    ASSUME AppsInv, NEW r \in Slot, NEW a, NEW maps \in Apps!Maps,
           Apps!OnApp(r, a, maps)
    PROVE  AppsInv'
<1>1. /\ UNCHANGED <<status, running, unsure, workspaces, req>> /\ requests' \in Nat
      /\ memory' = Apps!Remembered(a, maps) \/ UNCHANGED memory
  BY DEF Apps!OnApp, Apps!Table, Apps!Begin, AppsInv
<1>2. \A b \in DOMAIN memory' : memory'[b] \in Apps!Maps
  BY <1>1, MapsChanged DEF AppsInv, Apps!TypeOK
<1>3. Apps!TypeOK' /\ FirstKept
  BY <1>1, <1>2 DEF AppsInv, Apps!TypeOK, FirstKept, Apps!App
<1> QED
  BY <1>1, <1>3, NoCommand

LEMMA MapsRoutes ==
    ASSUME AppsInv, AppsOwner \in User, NEW r \in Slot, NEW a,
           \/ Apps!getRoles(r, a) \/ Apps!getSnapshots(r, a)
           \/ Apps!postSnapshot(r, a) \/ Apps!installPlugin(r, a)
           \/ \E replaced \in SUBSET {AppsOwner} : Apps!postRole(r, a, "guest", replaced)
           \/ \E snapshot \in {"default", "made"} : Apps!restoreSnapshot(r, a, snapshot)
    PROVE  AppsInv'
<1>1. Apps!Of(a) \in Apps!Maps
  BY MapsThere DEF AppsInv
<1>2. [Apps!Of(a) EXCEPT !.roles = Apps!Default(@, {AppsOwner})] \in Apps!Maps
  BY <1>1 DEF Apps!Maps, Apps!Default
<1>3. [Apps!Of(a) EXCEPT !.snapshots = Apps!Default(@, {"default"})] \in Apps!Maps
  BY <1>1 DEF Apps!Maps, Apps!Default
<1>4. [Apps!Of(a) EXCEPT !.snapshots = Apps!Default(@, {}) \cup {"made"}] \in Apps!Maps
  BY <1>1 DEF Apps!Maps, Apps!Default
<1>5. [Apps!Of(a) EXCEPT !.plugins = {"plugin"}] \in Apps!Maps
  BY <1>1 DEF Apps!Maps
<1>6. \A replaced \in SUBSET {AppsOwner} :
        [Apps!Of(a) EXCEPT !.roles = (Apps!Default(@,
          {}) \ replaced) \cup {"guest"}] \in Apps!Maps
  BY <1>1 DEF Apps!Maps, Apps!Default
<1>7. \A snapshot \in {"default", "made"} :
        [Apps!Of(a) EXCEPT !.snapshots =
            IF @ = None \/ snapshot \notin Apps!Default(@, {}) THEN @
            ELSE (@ \ {snapshot}) \cup {"restoring"}] \in Apps!Maps
  BY <1>1 DEF Apps!Maps, Apps!Default
<1> QED
  BY <1>2, <1>3, <1>4, <1>5, <1>6, <1>7, OnAppInv
     DEF Apps!getRoles, Apps!getSnapshots, Apps!postSnapshot, Apps!installPlugin,
         Apps!postRole, Apps!restoreSnapshot

LEMMA WorkspacesRoutes ==
    ASSUME AppsInv, NEW r \in Slot, Apps!getWorkspaces(r) \/ Apps!postWorkspace(r)
    PROVE  AppsInv'
<1>0. UNCHANGED <<status, running, unsure, memory, req>> /\ requests' = requests + 1
  BY DEF Apps!getWorkspaces, Apps!postWorkspace, Apps!Table, Apps!Begin
<1>1. UNCHANGED <<status, running, unsure, memory, req>> /\ requests' \in Nat
  BY <1>0 DEF AppsInv
<1>2. workspaces' \in {None} \cup SUBSET {"Default Workspace", "made"}
  BY DEF Apps!getWorkspaces, Apps!postWorkspace, Apps!Default, AppsInv, Apps!TypeOK
<1>3. Apps!TypeOK' /\ FirstKept
  BY <1>1, <1>2 DEF AppsInv, Apps!TypeOK, FirstKept, Apps!App
<1> QED
  BY <1>1, <1>3, NoCommand

LEMMA RestartInv == ASSUME AppsInv, Apps!Restart PROVE AppsInv'
<1>1. /\ memory' = <<>> /\ workspaces' = None
      /\ req' = [r \in Slot |-> Apps!Idle]
      /\ UNCHANGED <<status, requests>>
      /\ unsure' = (unsure \/ \E r \in Slot : req[r].at \in {"docker", "update"})
  BY DEF Apps!Restart
<1>2. PICK ran \in {r \in Slot : req[r].at = "docker"} \cup {None} :
        running' = IF ran = None THEN running ELSE req[ran].command # "stop"
  BY DEF Apps!Restart
<1>3. unsure' \in BOOLEAN /\ running' \in BOOLEAN
  BY <1>1, <1>2 DEF AppsInv, Apps!TypeOK
<1>4. \A s \in Slot : ~Telling(s)' /\ Apart(s)'
  BY <1>1 DEF Telling, Apart, Apps!Idle
<1>5. Apps!TypeOK'
  <2>1. DOMAIN memory' = {}
    BY <1>1
  <2>2. workspaces' \in {None} \cup SUBSET {"Default Workspace", "made"}
    BY <1>1
  <2>3. req' \in [Slot -> {Apps!Idle} \cup Apps!Request]
    BY <1>1
  <2>4. UNCHANGED status
    BY <1>1
  <2>5. Apps!App' \subseteq Nat /\ \A a \in Apps!App' : status'[a] \in {"stopped", "running"}
    BY <2>4 DEF AppsInv, Apps!TypeOK, Apps!App
  <2> QED
    BY <1>3, <2>1, <2>2, <2>3, <2>5 DEF Apps!TypeOK
<1>6. Apps!StatusTold'
  <2>1. CASE unsure'
    BY <2>1 DEF Apps!StatusTold
  <2>2. CASE ~unsure'
    <3>1. /\ ~unsure /\ \A r \in Slot : req[r].at \notin {"docker", "update"}
      BY <1>1, <2>2 DEF AppsInv, Apps!TypeOK
    <3>2. running' = running
      BY <1>2, <3>1
    <3> QED
      BY <1>1, <3>1, <3>2 DEF AppsInv, Apps!StatusTold, Apps!App
  <2> QED
    BY <2>1, <2>2
<1> QED
  BY <1>1, <1>4, <1>5, <1>6 DEF AppsInv, Accounted

LEMMA AppsUntouched == ASSUME AppsInv, UNCHANGED Apps!vars PROVE AppsInv'
<1>1. UNCHANGED <<status, running, memory, workspaces, req, unsure, requests>>
  BY DEF Apps!vars
<1>2. Apps!TypeOK' /\ FirstKept
  BY <1>1 DEF AppsInv, Apps!TypeOK, Apps!App, FirstKept
<1>3. requests' \in Nat
  BY <1>1 DEF AppsInv
<1> QED
  BY <1>1, <1>2, <1>3, NoCommand

LEMMA AppsStepInv ==
    ASSUME AppsInv, AppsOwner \in User, [Apps!Next]_Apps!vars PROVE AppsInv'
<1>0. Apps!App \subseteq Nat
  BY DEF AppsInv, Apps!TypeOK
<1>1. \A a \in Apps!App \cup {Apps!First} : a \in Nat
  BY <1>0 DEF Apps!First
<1>2. CASE UNCHANGED Apps!vars
  BY <1>2, AppsUntouched
<1>3. CASE Apps!Next
  BY <1>1, <1>3, createAppInv, deleteAppInv, dockerActionInv, runCommandInv, updateStatusInv,
     ExitInv, cloneInv, InsertCloneInv, MapsRoutes, WorkspacesRoutes, RestartInv
     DEF Apps!Next
<1> QED
  BY <1>2, <1>3

\* The row says whether the container runs, unless a request is about to tell
\* it or something went wrong since the last command that was next: commands
\* that overlapped or failed, a stranger's, or a container that stopped by
\* itself (POST /api/apps/:appId/start, stop, restart and the assistant).
THEOREM StatusAlwaysTold == ServicesSpec => []StatusTold
<1>1. ServicesInit => (focus = "apps" => AppsInv)
  BY AppsStarts, AppsInitInv
<1>2. (focus = "apps" => AppsInv) /\ [ServicesNext]_<<focus, places>>
        => (focus = "apps" => AppsInv)'
  BY AppsGoes, AppsStepInv, ServicesAssumption
<1>3. (focus = "apps" => AppsInv) => StatusTold
  BY DEF AppsInv, StatusTold
<1> QED
  BY <1>1, <1>2, <1>3, PTL DEF ServicesSpec
-----------------------------------------------------------------------------
LEMMA SetupStarts == ServicesInit /\ focus = "setup" => Setup!Init
  BY DEF ServicesInit, SettingsInit, ListsInit, DeploysInit, SetupInit,
         AppsInit, SecretsInit, AuditInit, FlagsInit, SharedInit, TasksInit,
         WatchInit, TicketsInit, CommandsInit, AdviceInit, ViewsInit, DutyInit,
         FleetInit, GateInit

LEMMA SetupGoes ==
    [ServicesNext]_<<focus, places>> =>
        UNCHANGED focus /\ (focus = "setup" => [Setup!Next]_Setup!vars)
  BY DEF ServicesNext, SettingsStep, ListsStep, DeploysStep, SetupStep,
         AppsStep, SecretsStep, AuditStep, FlagsStep, SharedStep, TasksStep,
         WatchStep, TicketsStep, CommandsStep, AdviceStep, ViewsStep, DutyStep,
         FleetStep, GateStep, places, rest5, rest6, rest7, rest8, Setup!vars,
         accounts, admins, setups, rows, req, excused, requests, failures

-----------------------------------------------------------------------------
(***************************************************************************)
(* The setup and the seeding.  As long as no look went wrong, there is at  *)
(* most one row of anything; and a request that is about to insert one is  *)
(* the only one, and has been right to find none.                          *)
(***************************************************************************)
InSetup(r) == req[r].at \in {"signUp", "profile", "setup"}
SeedUnderway(r, i) == req[r].at = "insert" /\ Head(req[r].seeds) = i

SetupOnce ==
    Setup!Setup \notin excused =>
        /\ setups = {} \/ \E s : setups = {s}
        /\ \A r \in Slot : InSetup(r) =>
               setups = {} /\ \A other \in Slot \ {r} : ~InSetup(other)

ItemsOnce ==
    \A i \in Setup!Item : i \notin excused =>
        /\ rows[i] <= 1
        /\ \A r \in Slot : SeedUnderway(r, i) =>
               rows[i] = 0 /\ \A other \in Slot \ {r} : ~SeedUnderway(other, i)

SeedsLeft == \A r \in Slot : req[r].at \in {"exists", "insert"} => req[r].seeds # <<>>

SetupInv ==
    /\ Setup!TypeOK
    /\ requests \in Nat
    /\ SeedsLeft
    /\ SetupOnce
    /\ ItemsOnce

LEMMA SetupCounts == \A S : Setup!Cardinality(S) = Cardinality(S)
  BY DEF Setup!Cardinality, Cardinality

LEMMA SetupInitInv == Setup!Init => SetupInv
<1> SUFFICES ASSUME Setup!Init PROVE SetupInv
  OBVIOUS
<1>1. /\ accounts = {} /\ admins = {} /\ setups = {} /\ excused = {} /\ requests = 0
      /\ rows = [i \in Setup!Item |-> 0]
      /\ req = [r \in Slot |-> Setup!Idle]
  BY DEF Setup!Init
<1>2. Setup!TypeOK
  BY <1>1 DEF Setup!TypeOK
<1>3. \A r \in Slot : req[r].at = "idle"
  BY <1>1 DEF Setup!Idle
<1> QED
  BY <1>1, <1>2, <1>3 DEF SetupInv, SeedsLeft, SetupOnce, ItemsOnce, InSetup, SeedUnderway

\* What the slots hold, by where they are.
SetupWork == [at : {"signUp", "profile", "cleanup", "setup"}, mode : Setup!Mode, user : Nat]
SeedWork == [at : {"exists", "insert"}, seeds : Seq(Setup!Item), demo : BOOLEAN]

LEMMA SetupSlots ==
    ASSUME SetupInv
    PROVE  /\ req \in [Slot -> {Setup!Idle} \cup SetupWork \cup SeedWork]
           /\ \A r \in Slot :
                /\ req[r].at \in {"signUp", "profile", "cleanup", "setup"} =>
                   req[r] \in SetupWork
                /\ req[r].at \in {"exists", "insert"} =>
                       /\ req[r] \in SeedWork /\ req[r].seeds # <<>>
                       /\ Head(req[r].seeds) \in Setup!Item
                       /\ Tail(req[r].seeds) \in Seq(Setup!Item)
                /\ req[r] = Setup!Idle => req[r].at = "idle"
<1>1. req \in [Slot -> {Setup!Idle} \cup SetupWork \cup SeedWork]
  BY DEF SetupInv, Setup!TypeOK, Setup!Request, SetupWork, SeedWork
<1>2. ASSUME NEW r \in Slot
      PROVE  /\ req[r].at \in {"signUp", "profile", "cleanup", "setup"} => req[r] \in SetupWork
             /\ req[r].at \in {"exists", "insert"} => req[r] \in SeedWork
             /\ req[r] = Setup!Idle => req[r].at = "idle"
  BY <1>1 DEF SetupWork, SeedWork, Setup!Idle
<1>3. ASSUME NEW r \in Slot, req[r] \in SeedWork, req[r].seeds # <<>>
      PROVE  Head(req[r].seeds) \in Setup!Item /\ Tail(req[r].seeds) \in Seq(Setup!Item)
  <2>1. req[r].seeds \in Seq(Setup!Item)
    BY <1>3 DEF SeedWork
  <2> QED
    BY <1>3, <2>1
<1> QED
  BY <1>1, <1>2, <1>3 DEF SetupInv, SeedsLeft

\* A slot takes up something else.
LEMMA SetupGoto ==
    ASSUME SetupInv, NEW r \in Slot, NEW next, Setup!Goto(r, next),
           \/ next = Setup!Idle
           \/ next \in SetupWork
           \/ next \in SeedWork /\ next.seeds # <<>>
    PROVE  /\ req' \in [Slot -> {Setup!Idle} \cup Setup!Request]
           /\ SeedsLeft'
           /\ req'[r] = next
           /\ \A s \in Slot \ {r} : /\ req'[s] = req[s]
                                    /\ InSetup(s)' <=> InSetup(s)
                                    /\ \A i : SeedUnderway(s, i)' <=> SeedUnderway(s, i)
<1>1. next \in {Setup!Idle} \cup Setup!Request
  BY DEF SetupWork, SeedWork, Setup!Request
<1>2. /\ req' \in [Slot -> {Setup!Idle} \cup Setup!Request]
      /\ \A s \in Slot : req'[s] = IF s = r THEN next ELSE req[s]
  BY <1>1 DEF SetupInv, Setup!TypeOK, Setup!Goto
<1>3. next.at \in {"exists", "insert"} => next.seeds # <<>>
  BY DEF Setup!Idle, SetupWork
<1> QED
  BY <1>2, <1>3 DEF SetupInv, SeedsLeft, InSetup, SeedUnderway

\* Nothing is inserted, and nobody begins to: what was looked for in vain only grows.
LEMMA SetupOnceKept ==
    ASSUME SetupOnce, setups' = setups, excused \subseteq excused',
           \A s \in Slot : InSetup(s)' => InSetup(s)
    PROVE  SetupOnce'
  BY DEF SetupOnce

LEMMA ItemsOnceKept ==
    ASSUME ItemsOnce, UNCHANGED rows, excused \subseteq excused',
           \A s \in Slot : \A i \in Setup!Item : SeedUnderway(s, i)' => SeedUnderway(s, i)
    PROVE  ItemsOnce'
  BY DEF ItemsOnce

LEMMA setupBegunInv ==
    ASSUME SetupInv, NEW r \in Slot, NEW mode \in Setup!Mode, Setup!init(r, mode)
    PROVE  SetupInv'
<1>1. PICK fails \in BOOLEAN :
        /\ req' = [req EXCEPT ![r] =
                IF ~fails /\ Setup!Single(Cardinality(setups)) THEN Setup!Idle
                ELSE [at |-> "signUp", mode |-> mode, user |-> requests + 1]]
        /\ Setup!Excuse(r, Setup!Setup, fails)
  BY SetupCounts DEF Setup!init, Setup!Goto
<1>2. /\ req[r] = Setup!Idle /\ requests' = requests + 1
      /\ UNCHANGED <<accounts, admins, setups, rows>>
  BY DEF Setup!init, Setup!Begin
<1> DEFINE next == IF ~fails /\ Setup!Single(Cardinality(setups)) THEN Setup!Idle
                   ELSE [at |-> "signUp", mode |-> mode, user |-> requests + 1]
<1>3. next = Setup!Idle \/ next \in SetupWork
  BY DEF SetupInv, SetupWork
<1>4. Setup!Goto(r, next)
  BY <1>1 DEF Setup!Goto
<1>5. next # Setup!Idle => fails \/ Cardinality(setups) # 1
  BY DEF Setup!Single
<1>6. next.at # "insert"
  BY DEF Setup!Idle
<1> HIDE DEF next
<1>7. /\ req' \in [Slot -> {Setup!Idle} \cup Setup!Request]
      /\ SeedsLeft' /\ req'[r] = next
      /\ \A s \in Slot \ {r} : /\ InSetup(s)' <=> InSetup(s)
                               /\ \A i : SeedUnderway(s, i)' <=> SeedUnderway(s, i)
  BY <1>3, <1>4, SetupGoto
<1>8. /\ excused \subseteq excused' /\ excused' \subseteq excused \cup {Setup!Setup}
      /\ Setup!Setup \notin excused' =>
           ~fails /\ \A s \in Slot \ {r} : ~InSetup(s)
  BY <1>1 DEF Setup!Excuse, Setup!About, InSetup
<1>9. ~InSetup(r)
  BY <1>2 DEF InSetup, Setup!Idle
<1>10. SetupOnce'
  <2> SUFFICES ASSUME Setup!Setup \notin excused'
               PROVE  /\ setups = {} \/ \E s : setups = {s}
                      /\ \A s \in Slot : InSetup(s)' =>
                           setups = {} /\ \A other \in Slot \ {s} : ~InSetup(other)'
    BY <1>2 DEF SetupOnce, InSetup
  <2>1. setups = {} \/ \E s : setups = {s}
    BY <1>8 DEF SetupInv, SetupOnce
  <2>2. \A s \in Slot \ {r} : ~InSetup(s)'
    BY <1>7, <1>8
  <2>3. next # Setup!Idle => setups = {}
    <3>1. \A s : Cardinality({s}) = 1
      BY FS_Singleton
    <3> QED
      BY <1>5, <1>8, <2>1, <3>1
  <2>4. InSetup(r)' => next # Setup!Idle
    BY <1>7 DEF InSetup, Setup!Idle
  <2> QED
    BY <2>1, <2>2, <2>3, <2>4
<1>11. ItemsOnce'
  BY <1>2, <1>6, <1>7, <1>8, ItemsOnceKept DEF SetupInv, SeedUnderway, Setup!TypeOK
<1>12. Setup!TypeOK' /\ requests' \in Nat
  BY <1>2, <1>7, <1>8 DEF SetupInv, Setup!TypeOK
<1> QED
  BY <1>7, <1>10, <1>11, <1>12 DEF SetupInv

\* A request of setup/init goes on: it keeps its place among those about to
\* insert a setup, or leaves it.
LEMMA SetupGoesOn ==
    ASSUME SetupInv, NEW r \in Slot, NEW place \in {"profile", "cleanup", "setup", "idle"},
           \/ place = "idle" /\ Setup!Goto(r, Setup!Idle)
           \/ place # "idle" /\ req' = [req EXCEPT ![r].at = place],
           req[r] \in SetupWork, place \in {"profile", "setup"} => InSetup(r),
           UNCHANGED <<setups, rows, excused, requests>>,
           accounts' \subseteq Nat, admins' \subseteq Nat
    PROVE  SetupInv'
<1> DEFINE next == IF place = "idle" THEN Setup!Idle ELSE [req[r] EXCEPT !.at = place]
<1>1. next = Setup!Idle \/ next \in SetupWork
  BY DEF SetupWork
<1>2. Setup!Goto(r, next)
  BY SetupSlots DEF Setup!Goto
<1>3. next.at = place
  BY DEF SetupWork, Setup!Idle
<1> HIDE DEF next
<1>4. /\ req' \in [Slot -> {Setup!Idle} \cup Setup!Request]
      /\ SeedsLeft' /\ req'[r] = next
      /\ \A s \in Slot \ {r} : /\ InSetup(s)' <=> InSetup(s)
                               /\ \A i : SeedUnderway(s, i)' <=> SeedUnderway(s, i)
  BY <1>1, <1>2, SetupGoto
<1>5. SetupOnce'
  <2>1. InSetup(r)' => InSetup(r)
    BY <1>3, <1>4 DEF InSetup
  <2> QED
    BY <1>4, <2>1, SetupOnceKept DEF SetupInv
<1>6. ItemsOnce'
  BY <1>3, <1>4, ItemsOnceKept DEF SetupInv, SeedUnderway, Setup!TypeOK
<1>7. Setup!TypeOK' /\ requests' \in Nat
  BY <1>4 DEF SetupInv, Setup!TypeOK
<1> QED
  BY <1>4, <1>5, <1>6, <1>7 DEF SetupInv

LEMMA insertSetupInv ==
    ASSUME SetupInv, NEW r \in Slot, Setup!insertSetup(r)
    PROVE  SetupInv'
<1>1. /\ req[r].at = "setup" /\ Setup!Goto(r, Setup!Idle)
      /\ setups' = setups \cup {[admin |-> req[r].user,
         mode |-> req[r].mode]} \/ setups' = setups
      /\ UNCHANGED <<accounts, admins, rows, excused, requests>>
  BY DEF Setup!insertSetup
<1>2. InSetup(r) /\ req[r] \in SetupWork
  BY <1>1, SetupSlots DEF InSetup
<1>3. /\ req' \in [Slot -> {Setup!Idle} \cup Setup!Request]
      /\ SeedsLeft' /\ req'[r] = Setup!Idle
      /\ \A s \in Slot \ {r} : /\ InSetup(s)' <=> InSetup(s)
                               /\ \A i : SeedUnderway(s, i)' <=> SeedUnderway(s, i)
  BY <1>1, SetupGoto
<1>4. ~InSetup(r)' /\ \A i : ~SeedUnderway(r, i)'
  BY <1>3 DEF InSetup, SeedUnderway, Setup!Idle
<1>5. SetupOnce'
  <2> SUFFICES ASSUME Setup!Setup \notin excused
               PROVE  /\ setups' = {} \/ \E s : setups' = {s}
                      /\ \A s \in Slot : ~InSetup(s)'
    BY <1>1 DEF SetupOnce
  <2>1. setups = {} /\ \A s \in Slot \ {r} : ~InSetup(s)
    BY <1>2 DEF SetupInv, SetupOnce
  <2> QED
    <3>1. setups' = {} \/ setups' = {[admin |-> req[r].user, mode |-> req[r].mode]}
      BY <1>1, <2>1
    <3>2. \A s \in Slot : ~InSetup(s)'
      BY <1>3, <1>4, <2>1
    <3> QED
      BY <3>1, <3>2
<1>6. ItemsOnce'
  BY <1>1, <1>3, <1>4, ItemsOnceKept DEF SetupInv
<1>7. Setup!TypeOK' /\ requests' \in Nat
  <2>1. [admin |-> req[r].user, mode |-> req[r].mode] \in [admin : Nat, mode : Setup!Mode]
    BY <1>2 DEF SetupWork
  <2> QED
    BY <1>1, <1>3, <2>1 DEF SetupInv, Setup!TypeOK
<1> QED
  BY <1>3, <1>5, <1>6, <1>7 DEF SetupInv

\* A list of seeds: SetToSeq's choice exists.
LEMMA SeedsAreItems ==
    /\ Setup!SetToSeq(DemoCustomers) \in Seq(Setup!Item)
    /\ Setup!SetToSeq(DemoApps) \in Seq(Setup!Item)
<1>1. IsFiniteSet(DemoCustomers) /\ IsFiniteSet(DemoApps)
  <2>1. IsFiniteSet(DemoCustomers \cup DemoApps)
    BY ServicesAssumption
  <2> QED
    BY <2>1, FS_Subset
<1>2. ASSUME NEW S \in SUBSET Setup!Item, IsFiniteSet(S)
      PROVE  Setup!SetToSeq(S) \in Seq(Setup!Item)
  <2>1. Cardinality(S) \in Nat /\ ExistsBijection(1..Cardinality(S), S)
    BY <1>2, FS_CardinalityType
  <2>2. PICK f \in Bijection(1..Cardinality(S), S) : TRUE
    BY <2>1 DEF ExistsBijection
  <2>4. \E g \in [1..Cardinality(S) -> S] : Setup!IsInjective(g)
    <3>1. f \in [1..Cardinality(S) -> S] /\ Setup!IsInjective(f)
      BY <2>2, Zenon DEF Bijection, Injection, IsInjective, Setup!IsInjective
    <3> QED
      BY <3>1
  <2>3. Setup!SetToSeq(S) \in [1..Cardinality(S) -> S]
    BY <2>4, SetupCounts, Zenon DEF Setup!SetToSeq
  <2> QED
    BY <2>1, <2>3
<1> QED
  BY <1>1, <1>2 DEF Setup!Item

\* A request begins or goes on to seed.
LEMMA SetupSeeds ==
    ASSUME SetupInv, NEW r \in Slot, NEW seeds \in Seq(Setup!Item), NEW demo \in BOOLEAN,
           Setup!Seed(r, seeds, demo)
    PROVE  /\ req' \in [Slot -> {Setup!Idle} \cup Setup!Request]
           /\ SeedsLeft'
           /\ ~InSetup(r)' /\ \A i : ~SeedUnderway(r, i)'
           /\ \A s \in Slot \ {r} : /\ InSetup(s)' <=> InSetup(s)
                                    /\ \A i : SeedUnderway(s, i)' <=> SeedUnderway(s, i)
<1> DEFINE next == IF seeds = <<>> THEN Setup!Idle
                   ELSE [at |-> "exists", seeds |-> seeds, demo |-> demo]
<1>1. next = Setup!Idle \/ (next \in SeedWork /\ next.seeds # <<>>)
  <2>1. [at |-> "exists", seeds |-> seeds, demo |-> demo] \in SeedWork
    BY DEF SeedWork
  <2>2. [at |-> "exists", seeds |-> seeds, demo |-> demo].seeds = seeds
    OBVIOUS
  <2> QED
    BY <2>1, <2>2
<1>2. Setup!Goto(r, next)
  BY DEF Setup!Seed
<1>3. next.at \in {"idle", "exists"}
  BY DEF Setup!Idle
<1> HIDE DEF next
<1>4. /\ req' \in [Slot -> {Setup!Idle} \cup Setup!Request]
      /\ SeedsLeft' /\ req'[r] = next
      /\ \A s \in Slot \ {r} : /\ InSetup(s)' <=> InSetup(s)
                               /\ \A i : SeedUnderway(s, i)' <=> SeedUnderway(s, i)
  BY <1>1, <1>2, SetupGoto
<1> QED
  BY <1>3, <1>4 DEF InSetup, SeedUnderway

\* No row is touched, no request comes nearer to an insertion.
LEMMA SetupQuiet ==
    ASSUME SetupInv, UNCHANGED <<accounts, admins, setups, rows, excused>>, requests' \in Nat,
           req' \in [Slot -> {Setup!Idle} \cup Setup!Request], SeedsLeft',
           \A s \in Slot : /\ InSetup(s)' => InSetup(s)
                           /\ \A i : SeedUnderway(s, i)' => SeedUnderway(s, i)
    PROVE  SetupInv'
<1>1. SetupOnce' /\ ItemsOnce'
  BY SetupOnceKept, ItemsOnceKept DEF SetupInv, Setup!TypeOK
<1> QED
  BY <1>1 DEF SetupInv, Setup!TypeOK

LEMMA seedsBegunInv ==
    ASSUME SetupInv, NEW r \in Slot, Setup!seedDemo(r) \/ Setup!getCustomers(r)
    PROVE  SetupInv'
<1>1. /\ UNCHANGED <<accounts, admins, setups, rows, excused>> /\ requests' = requests + 1
      /\ \/ UNCHANGED req
         \/ Setup!Seed(r, Setup!SetToSeq(DemoCustomers) \o Setup!SetToSeq(DemoApps), TRUE)
         \/ Setup!Seed(r, Setup!SetToSeq(DemoCustomers), FALSE)
  BY DEF Setup!seedDemo, Setup!getCustomers, Setup!Begin
<1>2. /\ requests' \in Nat
      /\ req \in [Slot -> {Setup!Idle} \cup Setup!Request] /\ SeedsLeft
  BY <1>1 DEF SetupInv, Setup!TypeOK
<1>3. CASE UNCHANGED req
  BY <1>1, <1>2, <1>3, SetupQuiet DEF SeedsLeft, InSetup, SeedUnderway
<1>4. ASSUME NEW seeds \in Seq(Setup!Item), NEW demo \in BOOLEAN, Setup!Seed(r, seeds, demo)
      PROVE  SetupInv'
  BY <1>1, <1>2, <1>4, SetupSeeds, SetupQuiet
<1>5. /\ Setup!SetToSeq(DemoCustomers) \in Seq(Setup!Item)
      /\ Setup!SetToSeq(DemoCustomers) \o Setup!SetToSeq(DemoApps) \in Seq(Setup!Item)
  BY SeedsAreItems
<1> QED
  BY <1>1, <1>3, <1>4, <1>5

LEMMA seedExistsInv ==
    ASSUME SetupInv, NEW r \in Slot, Setup!seedExists(r)
    PROVE  SetupInv'
<1> DEFINE item == Head(req[r].seeds)
<1>1. PICK fails \in BOOLEAN :
        /\ IF Setup!Found(req[r].demo, rows[item]) /\ ~fails
           THEN Setup!Seed(r, Tail(req[r].seeds), req[r].demo)
           ELSE req' = [req EXCEPT ![r].at = "insert"]
        /\ Setup!Excuse(r, item, fails)
  BY DEF Setup!seedExists
<1>2. req[r].at = "exists" /\ UNCHANGED <<accounts, admins, setups, rows, requests>>
  BY DEF Setup!seedExists
<1>3. /\ req[r] \in SeedWork /\ req[r].seeds # <<>> /\ item \in Setup!Item
      /\ Tail(req[r].seeds) \in Seq(Setup!Item) /\ req[r].demo \in BOOLEAN
      /\ rows[item] \in Nat
  BY <1>2, SetupSlots DEF SeedWork, SetupInv, Setup!TypeOK
<1>4. ~InSetup(r) /\ \A i : ~SeedUnderway(r, i)
  BY <1>2 DEF InSetup, SeedUnderway
<1>5. /\ excused \subseteq excused' /\ excused' \subseteq excused \cup {item}
      /\ item \notin excused' =>
           ~fails /\ \A s \in Slot \ {r} : ~SeedUnderway(s, item)
  BY <1>1 DEF Setup!Excuse, Setup!About, SeedUnderway
<1>6. excused' \subseteq Setup!Item \cup {Setup!Setup}
  BY <1>3, <1>5 DEF SetupInv, Setup!TypeOK
<1>7. CASE Setup!Seed(r, Tail(req[r].seeds), req[r].demo)
  <2>1. /\ req' \in [Slot -> {Setup!Idle} \cup Setup!Request]
        /\ SeedsLeft'
        /\ ~InSetup(r)' /\ \A i : ~SeedUnderway(r, i)'
        /\ \A s \in Slot \ {r} : /\ InSetup(s)' <=> InSetup(s)
                                 /\ \A i : SeedUnderway(s, i)' <=> SeedUnderway(s, i)
    BY <1>3, <1>7, SetupSeeds
  <2>2. SetupOnce' /\ ItemsOnce'
    BY <1>2, <1>5, <2>1, SetupOnceKept, ItemsOnceKept DEF SetupInv, Setup!TypeOK
  <2> QED
    BY <1>2, <1>6, <2>1, <2>2 DEF SetupInv, Setup!TypeOK
<1>8. CASE /\ req' = [req EXCEPT ![r].at = "insert"]
           /\ ~(Setup!Found(req[r].demo, rows[item]) /\ ~fails)
  <2> DEFINE next == [req[r] EXCEPT !.at = "insert"]
  <2>1. next \in SeedWork /\ next.seeds = req[r].seeds /\ next.at = "insert"
    BY <1>3 DEF SeedWork
  <2>2. Setup!Goto(r, next)
    BY <1>8, SetupSlots DEF Setup!Goto
  <2> HIDE DEF next
  <2>3. /\ req' \in [Slot -> {Setup!Idle} \cup Setup!Request]
        /\ SeedsLeft' /\ req'[r] = next
        /\ \A s \in Slot \ {r} : /\ InSetup(s)' <=> InSetup(s)
                                 /\ \A i : SeedUnderway(s, i)' <=> SeedUnderway(s, i)
    BY <1>3, <2>1, <2>2, SetupGoto
  <2>4. ~InSetup(r)' /\ \A i : SeedUnderway(r, i)' <=> i = item
    BY <2>1, <2>3 DEF InSetup, SeedUnderway
  <2>5. SetupOnce'
    BY <1>2, <1>5, <2>3, <2>4, SetupOnceKept DEF SetupInv
  <2>6. item \notin excused' => rows[item] = 0
    BY <1>3, <1>5, <1>8 DEF SetupInv, ItemsOnce, Setup!Found, Setup!Single
  <2>7. ItemsOnce'
    <3> SUFFICES ASSUME NEW i \in Setup!Item, i \notin excused'
                 PROVE  /\ rows[i] <= 1
                        /\ \A s \in Slot : SeedUnderway(s, i)' =>
                             rows[i] = 0 /\ \A other \in Slot \ {s} : ~SeedUnderway(other, i)'
      BY <1>2 DEF ItemsOnce, SeedUnderway
    <3>1. /\ rows[i] <= 1
          /\ \A s \in Slot : SeedUnderway(s, i) =>
               rows[i] = 0 /\ \A other \in Slot \ {s} : ~SeedUnderway(other, i)
      BY <1>5 DEF SetupInv, ItemsOnce
    <3>2. CASE i = item
      BY <1>5, <2>3, <2>6, <3>1, <3>2
    <3>3. CASE i # item
      BY <2>3, <2>4, <3>1, <3>3
    <3> QED
      BY <3>2, <3>3
  <2> QED
    BY <1>2, <1>6, <2>3, <2>5, <2>7 DEF SetupInv, Setup!TypeOK
<1> QED
  BY <1>1, <1>7, <1>8

LEMMA seedInsertInv ==
    ASSUME SetupInv, NEW r \in Slot, Setup!seedInsert(r)
    PROVE  SetupInv'
<1> DEFINE item == Head(req[r].seeds)
<1>1. /\ req[r].at = "insert"
      /\ rows' = [rows EXCEPT ![item] = @ + 1] \/ UNCHANGED rows
      /\ Setup!Seed(r, Tail(req[r].seeds), req[r].demo)
      /\ UNCHANGED <<accounts, admins, setups, excused, requests>>
  BY DEF Setup!seedInsert
<1>2. /\ req[r] \in SeedWork /\ item \in Setup!Item
      /\ Tail(req[r].seeds) \in Seq(Setup!Item) /\ req[r].demo \in BOOLEAN
      /\ rows \in [Setup!Item -> Nat]
  BY <1>1, SetupSlots DEF SeedWork, SetupInv, Setup!TypeOK
<1>3. /\ req' \in [Slot -> {Setup!Idle} \cup Setup!Request]
      /\ SeedsLeft'
      /\ ~InSetup(r)' /\ \A i : ~SeedUnderway(r, i)'
      /\ \A s \in Slot \ {r} : /\ InSetup(s)' <=> InSetup(s)
                               /\ \A i : SeedUnderway(s, i)' <=> SeedUnderway(s, i)
  BY <1>1, <1>2, SetupSeeds
<1>4. SetupOnce'
  BY <1>1, <1>3, SetupOnceKept DEF SetupInv
<1>5. /\ rows' \in [Setup!Item -> Nat]
      /\ \A i \in Setup!Item : \/ rows'[i] = rows[i]
                               \/ i = item /\ rows'[i] = rows[i] + 1
  <2>1. CASE rows' = [rows EXCEPT ![item] = @ + 1]
    BY <1>2, <2>1
  <2>2. CASE rows' = rows
    BY <1>2, <2>2
  <2> QED
    BY <1>1, <2>1, <2>2
<1>6. ItemsOnce'
  <2> SUFFICES ASSUME NEW i \in Setup!Item, i \notin excused
               PROVE  /\ rows'[i] <= 1
                      /\ \A s \in Slot : SeedUnderway(s, i)' =>
                           rows'[i] = 0 /\ \A other \in Slot \ {s} : ~SeedUnderway(other, i)'
    BY <1>1 DEF ItemsOnce, SeedUnderway
  <2>1. /\ rows[i] <= 1
        /\ \A s \in Slot : SeedUnderway(s, i) =>
             rows[i] = 0 /\ \A other \in Slot \ {s} : ~SeedUnderway(other, i)
    BY DEF SetupInv, ItemsOnce
  <2>2. CASE i = item
    <3>1. SeedUnderway(r, i)
      BY <1>1, <2>2 DEF SeedUnderway
    <3> QED
      BY <1>3, <1>5, <2>1, <3>1
  <2>3. CASE i # item
    BY <1>3, <1>5, <2>1, <2>3
  <2> QED
    BY <2>2, <2>3
<1> QED
  BY <1>1, <1>3, <1>4, <1>5, <1>6 DEF SetupInv, Setup!TypeOK

LEMMA changeCustomerInv ==
    ASSUME SetupInv, NEW r \in Slot,
           NEW from \in DemoCustomers \cup {"nothing"},
             NEW to \in DemoCustomers \cup {"nothing"},
           Setup!changeCustomer(r, from, to)
    PROVE  SetupInv'
<1>1. /\ requests' = requests + 1
      /\ from # "nothing" => rows[from] > 0
      /\ rows' = Setup!Changed(from, to) \/ UNCHANGED rows
      /\ excused' = excused \cup ({to} \ {"nothing"})
      /\ UNCHANGED <<accounts, admins, setups, req>>
  BY DEF Setup!changeCustomer, Setup!Begin
<1>2. "nothing" \notin Setup!Item /\ DemoCustomers \subseteq Setup!Item
  BY ServicesAssumption DEF Setup!Item
<1>3. rows \in [Setup!Item -> Nat]
  BY DEF SetupInv, Setup!TypeOK
<1>4. /\ rows' \in [Setup!Item -> Nat]
      /\ \A i \in Setup!Item : \/ rows'[i] = rows[i]
                               \/ i = to
                               \/ rows[i] > 0 /\ rows'[i] = rows[i] - 1
  BY <1>1, <1>2, <1>3 DEF Setup!Changed
<1>5. excused \subseteq excused' /\ excused' \subseteq Setup!Item \cup {Setup!Setup}
  BY <1>1, <1>2 DEF SetupInv, Setup!TypeOK
<1>6. \A i \in Setup!Item : i = to => i \in excused'
  BY <1>1, <1>2
<1>7. SetupOnce'
  BY <1>1, <1>5, SetupOnceKept DEF SetupInv, InSetup
<1>9. ItemsOnce'
  <2> SUFFICES ASSUME NEW i \in Setup!Item, i \notin excused'
               PROVE  /\ rows'[i] <= 1
                      /\ \A s \in Slot : SeedUnderway(s, i)' =>
                           rows'[i] = 0 /\ \A other \in Slot \ {s} : ~SeedUnderway(other, i)'
    BY DEF ItemsOnce
  <2>1. /\ rows[i] <= 1
        /\ \A s \in Slot : SeedUnderway(s, i) =>
             rows[i] = 0 /\ \A other \in Slot \ {s} : ~SeedUnderway(other, i)
    BY <1>5 DEF SetupInv, ItemsOnce
  <2>2. \A s \in Slot : SeedUnderway(s, i)' <=> SeedUnderway(s, i)
    BY <1>1 DEF SeedUnderway
  <2>3. /\ rows[i] \in Nat
        /\ \/ rows'[i] = rows[i]
           \/ rows[i] > 0 /\ rows'[i] = rows[i] - 1
    BY <1>3, <1>4, <1>6
  <2> QED
    BY <2>1, <2>2, <2>3
<1>8. SeedsLeft' /\ requests' \in Nat
  BY <1>1 DEF SetupInv, SeedsLeft
<1> QED
  BY <1>1, <1>4, <1>5, <1>7, <1>8, <1>9 DEF SetupInv, Setup!TypeOK

LEMMA SetupStepInv == SetupInv /\ [Setup!Next]_Setup!vars => SetupInv'
<1> SUFFICES ASSUME SetupInv, [Setup!Next]_Setup!vars PROVE SetupInv'
  OBVIOUS
<1>1. ASSUME NEW r \in Slot, NEW mode \in Setup!Mode, Setup!init(r, mode) PROVE SetupInv'
  BY <1>1, setupBegunInv
<1>2. ASSUME NEW r \in Slot, Setup!signUp(r) PROVE SetupInv'
  <2>1. /\ req[r].at = "signUp" /\ UNCHANGED <<admins, setups, rows, excused, requests>>
        /\ \/ accounts' = accounts \cup {req[r].user} /\ req' = [req EXCEPT ![r].at = "profile"]
           \/ UNCHANGED accounts /\ Setup!Goto(r, Setup!Idle)
    BY <1>2 DEF Setup!signUp
  <2>2. req[r] \in SetupWork /\ InSetup(r) /\ req[r].user \in Nat
    BY <2>1, SetupSlots DEF InSetup, SetupWork
  <2>3. accounts' \subseteq Nat /\ admins' \subseteq Nat
    BY <2>1, <2>2 DEF SetupInv, Setup!TypeOK
  <2> QED
    BY <2>1, <2>2, <2>3, SetupGoesOn
<1>3. ASSUME NEW r \in Slot, Setup!insertProfile(r) PROVE SetupInv'
  <2>1. /\ req[r].at = "profile" /\ UNCHANGED <<accounts, setups, rows, excused, requests>>
        /\ \/ admins' = admins \cup {req[r].user} /\ req' = [req EXCEPT ![r].at = "setup"]
           \/ UNCHANGED admins /\ req' = [req EXCEPT ![r].at = "cleanup"]
    BY <1>3 DEF Setup!insertProfile
  <2>2. req[r] \in SetupWork /\ InSetup(r) /\ req[r].user \in Nat
    BY <2>1, SetupSlots DEF InSetup, SetupWork
  <2>3. accounts' \subseteq Nat /\ admins' \subseteq Nat
    BY <2>1, <2>2 DEF SetupInv, Setup!TypeOK
  <2> QED
    BY <2>1, <2>2, <2>3, SetupGoesOn
<1>4. ASSUME NEW r \in Slot, Setup!deleteUser(r) PROVE SetupInv'
  <2>1. /\ req[r].at = "cleanup" /\ UNCHANGED <<admins, setups, rows, excused, requests>>
        /\ accounts' \subseteq accounts /\ Setup!Goto(r, Setup!Idle)
    BY <1>4 DEF Setup!deleteUser
  <2>2. req[r] \in SetupWork
    BY <2>1, SetupSlots
  <2>3. accounts' \subseteq Nat /\ admins' \subseteq Nat
    BY <2>1 DEF SetupInv, Setup!TypeOK
  <2> QED
    BY <2>1, <2>2, <2>3, SetupGoesOn
<1>5. CASE UNCHANGED Setup!vars
  <2>1. UNCHANGED <<accounts, admins, setups, rows, req, excused, requests>>
    BY <1>5 DEF Setup!vars
  <2> QED
    BY <2>1, SetupQuiet DEF SetupInv, Setup!TypeOK, SeedsLeft, InSetup, SeedUnderway
<1> QED
  BY <1>1, <1>2, <1>3, <1>4, <1>5, insertSetupInv, seedsBegunInv, seedExistsInv,
     seedInsertInv, changeCustomerInv DEF Setup!Next

LEMMA SetupTrue == SetupInv => Setup!MadeOnce
<1> SUFFICES ASSUME SetupInv PROVE Setup!MadeOnce
  OBVIOUS
<1>1. Setup!Setup \notin excused => ~(Cardinality(setups) > 1)
  <2>1. Cardinality({}) = 0 /\ \A s : Cardinality({s}) = 1
    BY FS_EmptySet, FS_Singleton
  <2> QED
    BY <2>1 DEF SetupInv, SetupOnce
<1>2. \A i \in Setup!Item : i \notin excused => ~(rows[i] > 1)
  BY DEF SetupInv, ItemsOnce, Setup!TypeOK
<1> QED
  BY <1>1, <1>2, SetupCounts, Zenon DEF Setup!MadeOnce

-----------------------------------------------------------------------------
\* setup/init makes one setup and one first admin, the seeding one customer
\* and one app of a name, unless the look for it met another request that was
\* about to insert it, failed, or a customer was named so by hand
\* (server/index.ts).
THEOREM SetupMadeOnce == ServicesSpec => []MadeOnce
<1>1. ServicesInit => (focus = "setup" => SetupInv)
  BY SetupStarts, SetupInitInv
<1>2. (focus = "setup" => SetupInv) /\ [ServicesNext]_<<focus, places>>
        => (focus = "setup" => SetupInv)'
  BY SetupGoes, SetupStepInv
<1>3. (focus = "setup" => SetupInv) => MadeOnce
  BY SetupTrue DEF MadeOnce
<1> QED
  BY <1>1, <1>2, <1>3, PTL DEF ServicesSpec

LEMMA FlagsStarts == ServicesInit /\ focus = "flags" => Flags!Init
  BY DEF ServicesInit, SettingsInit, ListsInit, DeploysInit, SetupInit,
         AppsInit, SecretsInit, AuditInit, FlagsInit, SharedInit, TasksInit,
         WatchInit, TicketsInit, CommandsInit, AdviceInit, ViewsInit, DutyInit,
         FleetInit, GateInit

LEMMA FlagsGoes ==
    [ServicesNext]_<<focus, places>> =>
        UNCHANGED focus /\ (focus = "flags" => [Flags!Next]_Flags!vars)
  BY DEF ServicesNext, SettingsStep, ListsStep, DeploysStep, SetupStep,
         AppsStep, SecretsStep, AuditStep, FlagsStep, SharedStep, TasksStep,
         WatchStep, TicketsStep, CommandsStep, AdviceStep, ViewsStep, DutyStep,
         FleetStep, GateStep, places, rest5, rest6, rest7, rest8, rest9,
         rest10, rest11, rest12, rest13, rest14, Flags!vars, Flags!database,
         Flags!browser, Flags!bounds, who, registered, flag, rule, req, nudges,
         mounted, cache, view, kept, fetches, changes, shown, excused,
         requests, failures, mounts, polls

-----------------------------------------------------------------------------
(***************************************************************************)
(* The flag and who follows it.  What a fetch has read is what there is,   *)
(* if nothing has changed since it began to read; and a component that     *)
(* shows something else will be told, by a request that is not finished,   *)
(* by a message on its socket or by the answer of a fetch.                 *)
(***************************************************************************)
ReadsTrue == \A f \in fetches :
    /\ f.at = "rules" /\ f.since = changes => f.flag = flag
    /\ f.at = "answer" /\ f.since = changes => f.value = Flags!Current

Underway == (\E r \in Slot : req[r] # Flags!Idle) \/ fetches # {} \/ nudges # 0

ViewRight == view = Flags!Shown(Flags!Current)
ViewKept == mounted /\ ~excused => ViewRight \/ Underway

CopyKept ==
    who = "discord" /\ shown = changes /\ Flags!Current # None => kept \in {None, Flags!Current}

FlagsInv ==
    /\ changes \in Nat
    /\ \A f \in fetches : f.at # "flags" => f.since \in 0..changes \cup {None}
    /\ shown \in 0..changes \cup {None}
    /\ nudges \in Nat \cup {None}
    /\ mounted => who = "browser"
    /\ \A r \in Slot : req[r].at \in {"idle", "nudge", "select", "upsert"}
    /\ DOMAIN req = Slot
    /\ ReadsTrue
    /\ ViewKept
    /\ CopyKept

LEMMA FlagsInitInv == Flags!Init => FlagsInv
<1> SUFFICES ASSUME Flags!Init PROVE FlagsInv
  OBVIOUS
<1>1. /\ req = [r \in Slot |-> Flags!Idle] /\ mounted = FALSE /\ kept = None
      /\ fetches = {} /\ changes = 0 /\ shown = 0
      /\ nudges \in Nat \cup {None}
  BY DEF Flags!Init
<1>2. \A r \in Slot : req[r].at = "idle"
  BY <1>1 DEF Flags!Idle
<1> QED
  BY <1>1, <1>2 DEF FlagsInv, ReadsTrue, ViewKept, CopyKept

\* What changes is told; what does not change is the same as before.
LEMMA FlagsWritten ==
    ASSUME FlagsInv, NEW newFlag, NEW newRule, Flags!Written(newFlag, newRule)
    PROVE  /\ changes' \in Nat
           /\ \/ changes' = changes /\ UNCHANGED <<flag, rule, who, registered>>
              \/ changes' = changes + 1 /\ UNCHANGED <<who, registered>>
  BY DEF FlagsInv, Flags!Written

\* The flag's rows change, or not; the follower does not do anything.
LEMMA FlagsChanged ==
    ASSUME FlagsInv, changes' \in Nat,
           \/ changes' = changes /\ UNCHANGED <<flag, rule, who, registered>>
           \/ changes' = changes + 1 /\ UNCHANGED <<who, registered>>,
           UNCHANGED <<kept, fetches, shown, mounted, view>>, nudges' \in Nat \cup {None},
           DOMAIN req' = Slot,
           \A r \in Slot : req'[r].at \in {"idle", "nudge", "select", "upsert"},
           ViewKept'
    PROVE  FlagsInv'
<1>1. CASE changes' = changes /\ UNCHANGED <<flag, rule, who, registered>>
  <2>1. Flags!Current' = Flags!Current
    BY <1>1 DEF Flags!Current, Flags!Evaluated, Flags!evaluateFlag
  <2>2. ReadsTrue' /\ CopyKept'
    BY <1>1, <2>1 DEF FlagsInv, ReadsTrue, CopyKept
  <2> QED
    BY <1>1, <2>2 DEF FlagsInv
<1>2. CASE changes' = changes + 1 /\ UNCHANGED <<who, registered>>
  <2>5. None \notin Nat
    BY ServicesAssumption
  <2>1. \A x \in 0..changes \cup {None} : x \in 0..changes' \cup {None} /\ x # changes'
    BY <1>2, <2>5 DEF FlagsInv
  <2>2. \A f \in fetches : f.at # "flags" =>
        f.since \in 0..changes' \cup {None} /\ f.since # changes'
    BY <2>1 DEF FlagsInv
  <2>3. shown \in 0..changes' \cup {None} /\ shown # changes'
    BY <2>1 DEF FlagsInv
  <2>4. ReadsTrue'
    BY <2>2 DEF ReadsTrue
  <2> QED
    BY <1>2, <2>2, <2>3, <2>4 DEF FlagsInv, CopyKept
<1> QED
  BY <1>1, <1>2

\* A request works at the flag: before or after it somebody will be told, or
\* the browser is excused.
LEMMA FlagsRequest ==
    ASSUME FlagsInv, NEW r \in Slot, NEW next, next.at \in {"idle", "nudge", "select",
           "upsert"},
           Flags!Goto(r, next) \/ UNCHANGED req,
           changes' \in Nat,
           \/ changes' = changes /\ UNCHANGED <<flag, rule, who, registered>>
           \/ changes' = changes + 1 /\ UNCHANGED <<who, registered>>,
           UNCHANGED <<kept, fetches, shown, mounted, view>>, nudges' \in Nat \cup {None},
           \/ excused'
           \/ req'[r] # Flags!Idle
           \/ UNCHANGED <<req, flag, rule, who, registered, excused, nudges>>
    PROVE  FlagsInv'
<1>1. /\ DOMAIN req' = Slot
      /\ \A s \in Slot : req'[s].at \in {"idle", "nudge", "select", "upsert"}
  BY DEF FlagsInv, Flags!Goto
<1>2. ViewKept'
  <2>1. CASE excused'
    BY <2>1 DEF ViewKept
  <2>2. CASE req'[r] # Flags!Idle
    BY <2>2 DEF ViewKept, Underway, Flags!Idle
  <2>3. CASE UNCHANGED <<req, flag, rule, who, registered, excused, nudges>>
    <3>1. Flags!Current' = Flags!Current
      BY <2>3 DEF Flags!Current, Flags!Evaluated, Flags!evaluateFlag
    <3>2. Underway' <=> Underway
      BY <2>3 DEF Underway, Flags!Idle
    <3>3. (mounted' <=> mounted) /\ (excused' <=> excused)
      BY <2>3
    <3>4. ViewRight' <=> ViewRight
      BY <3>1 DEF ViewRight, Flags!Shown, Flags!Fallback
    <3> QED
      BY <3>2, <3>3, <3>4, Zenon DEF FlagsInv, ViewKept
  <2> QED
    BY <2>1, <2>2, <2>3
<1> QED
  BY <1>1, <1>2, FlagsChanged

LEMMA createFlagInv ==
    ASSUME FlagsInv, NEW r \in Slot, NEW default \in BOOLEAN, NEW given,
           Flags!createFlag(r, default, given)
    PROVE  FlagsInv'
<1> DEFINE fresh == [active |-> TRUE, default |-> default, expired |-> FALSE]
           next == IF given = None THEN [at |-> "nudge"] ELSE [at |-> "select", rule |-> given]
<1>1. UNCHANGED <<kept, fetches, shown>> /\ nudges' \in Nat \cup {None}
  BY DEF Flags!createFlag, Flags!browser, FlagsInv
<1>2. next.at \in {"nudge", "select"} /\ next # Flags!Idle
  BY DEF Flags!Idle
<1>3. \/ /\ Flags!Written(fresh, None) /\ Flags!Goto(r, next)
         /\ UNCHANGED <<nudges, mounted, cache, view, excused>>
      \/ /\ Flags!Written(fresh, None) /\ excused'
         /\ UNCHANGED <<req, nudges, mounted, view>>
      \/ UNCHANGED <<who, registered, flag, rule, changes, req, nudges, mounted, view, excused>>
  BY DEF Flags!createFlag, Flags!database, Flags!browser
<1> HIDE DEF fresh, next
<1>4. CASE /\ Flags!Written(fresh, None) /\ Flags!Goto(r, next)
           /\ UNCHANGED <<nudges, mounted, cache, view, excused>>
  <2>1. req'[r] # Flags!Idle
    BY <1>2, <1>4 DEF FlagsInv, Flags!Goto
  <2> QED
    BY <1>1, <1>2, <1>4, <2>1, FlagsWritten, FlagsRequest
<1>5. CASE /\ Flags!Written(fresh, None) /\ excused'
           /\ UNCHANGED <<req, nudges, mounted, view>>
  BY <1>1, <1>2, <1>5, FlagsWritten, FlagsRequest
<1>6. CASE UNCHANGED <<who, registered, flag, rule, changes, req, nudges, mounted, view,
           excused>>
  BY <1>1, <1>2, <1>6, FlagsRequest DEF FlagsInv
<1> QED
  BY <1>3, <1>4, <1>5, <1>6

LEMMA patchesInv ==
    ASSUME FlagsInv, NEW r \in Slot,
           \/ \E given \in Rule : Flags!patchRule(r, given)
           \/ \E active \in BOOLEAN : Flags!patchFlag(r, active)
           \/ Flags!kill(r)
    PROVE  FlagsInv'
<1>1. PICK next : /\ next.at \in {"nudge", "select"}
                  /\ \/ Flags!Goto(r, next)
                     \/ UNCHANGED <<who, registered, flag, rule, changes, req>>
                  /\ \/ \E newFlag, newRule : Flags!Written(newFlag, newRule)
                     \/ UNCHANGED <<who, registered, flag, rule, changes>>
  <2>1. ASSUME NEW given \in Rule, Flags!patchRule(r, given)
        PROVE  /\ Flags!Goto(r, [at |-> "select", rule |-> given])
               /\ UNCHANGED <<who, registered, flag, rule, changes>>
    BY <2>1 DEF Flags!patchRule, Flags!database
  <2>2. ASSUME NEW active \in BOOLEAN, Flags!patchFlag(r, active)
        PROVE  \/ /\ Flags!Goto(r, [at |-> "nudge"])
                  /\ \E newFlag, newRule : Flags!Written(newFlag, newRule)
               \/ UNCHANGED <<who, registered, flag, rule, changes, req>>
    BY <2>2 DEF Flags!patchFlag, Flags!database
  <2>3. ASSUME Flags!kill(r)
        PROVE  /\ Flags!Goto(r, [at |-> "nudge"])
               /\ \/ \E newFlag, newRule : Flags!Written(newFlag, newRule)
                  \/ UNCHANGED <<who, registered, flag, rule, changes>>
    BY <2>3 DEF Flags!kill, Flags!database
  <2>4. [at |-> "nudge"].at = "nudge"
    OBVIOUS
  <2>5. CASE \E given \in Rule : Flags!patchRule(r, given)
    <3>1. PICK given \in Rule : Flags!patchRule(r, given)
      BY <2>5
    <3> DEFINE selected == [at |-> "select", rule |-> given]
    <3>2. /\ selected.at = "select" /\ Flags!Goto(r, selected)
          /\ UNCHANGED <<who, registered, flag, rule, changes>>
      BY <2>1, <3>1
    <3> HIDE DEF selected
    <3> QED
      BY <3>2
  <2>6. CASE \E active \in BOOLEAN : Flags!patchFlag(r, active)
    BY <2>2, <2>4, <2>6
  <2>7. CASE Flags!kill(r)
    BY <2>3, <2>4, <2>7
  <2> QED
    BY <2>5, <2>6, <2>7
<1>2. /\ UNCHANGED <<nudges, mounted, cache, view, excused, kept, fetches, shown>>
      /\ nudges' \in Nat \cup {None}
  BY DEF Flags!patchRule, Flags!patchFlag, Flags!kill, Flags!browser, FlagsInv
<1>3. CASE Flags!Goto(r, next)
  <2>1. req'[r] # Flags!Idle
    BY <1>1, <1>3 DEF FlagsInv, Flags!Goto, Flags!Idle
  <2>2. /\ changes' \in Nat
        /\ \/ changes' = changes /\ UNCHANGED <<flag, rule, who, registered>>
           \/ changes' = changes + 1 /\ UNCHANGED <<who, registered>>
    <3>1. CASE \E newFlag, newRule : Flags!Written(newFlag, newRule)
      BY <3>1, FlagsWritten
    <3>2. CASE UNCHANGED <<who, registered, flag, rule, changes>>
      BY <3>2 DEF FlagsInv
    <3> QED
      BY <1>1, <3>1, <3>2
  <2> QED
    BY <1>1, <1>2, <1>3, <2>1, <2>2, FlagsRequest
<1>4. CASE UNCHANGED <<who, registered, flag, rule, changes, req>>
  BY <1>1, <1>2, <1>4, FlagsRequest DEF FlagsInv
<1> QED
  BY <1>1, <1>3, <1>4

LEMMA SelectRuleInv ==
    ASSUME FlagsInv, NEW r \in Slot, Flags!SelectRule(r) PROVE FlagsInv'
<1>1. PICK fails \in BOOLEAN :
        req' = [req EXCEPT ![r] =
                  [at |-> "upsert", rule |-> req[r].rule, existing |-> ~fails /\ rule # None]]
  BY DEF Flags!SelectRule, Flags!Goto
<1> DEFINE next == [at |-> "upsert", rule |-> req[r].rule, existing |-> ~fails /\ rule # None]
<1>2. next.at = "upsert"
  OBVIOUS
<1>3. Flags!Goto(r, next)
  BY <1>1 DEF Flags!Goto
<1> HIDE DEF next
<1>4. req'[r] # Flags!Idle
  BY <1>2, <1>3 DEF FlagsInv, Flags!Goto, Flags!Idle
<1>5. /\ UNCHANGED <<who, registered, flag, rule, changes, mounted, view, kept, fetches, shown>>
      /\ nudges' \in Nat \cup {None}
  BY DEF Flags!SelectRule, Flags!database, Flags!browser, FlagsInv
<1> QED
  BY <1>2, <1>3, <1>4, <1>5, FlagsRequest DEF FlagsInv

LEMMA UpsertRuleInv ==
    ASSUME FlagsInv, NEW r \in Slot, Flags!UpsertRule(r) PROVE FlagsInv'
<1>1. UNCHANGED <<mounted, view, kept, fetches, shown>> /\ nudges' \in Nat \cup {None}
  BY DEF Flags!UpsertRule, Flags!browser, FlagsInv
<1>2. \/ /\ Flags!Written(flag, req[r].rule) /\ Flags!Goto(r, [at |-> "nudge"])
      \/ /\ Flags!Goto(r, Flags!Idle) /\ excused'
         /\ UNCHANGED <<who, registered, flag, rule, changes>>
  BY DEF Flags!UpsertRule, Flags!database
<1>3. CASE Flags!Written(flag, req[r].rule) /\ Flags!Goto(r, [at |-> "nudge"])
  <2>1. [at |-> "nudge"].at = "nudge" /\ req'[r] # Flags!Idle
    BY <1>3 DEF FlagsInv, Flags!Goto, Flags!Idle
  <2> QED
    BY <1>1, <1>3, <2>1, FlagsWritten, FlagsRequest
<1>4. CASE /\ Flags!Goto(r, Flags!Idle) /\ excused'
           /\ UNCHANGED <<who, registered, flag, rule, changes>>
  <2>1. Flags!Idle.at = "idle"
    BY DEF Flags!Idle
  <2> QED
    BY <1>1, <1>4, <2>1, FlagsRequest DEF FlagsInv
<1> QED
  BY <1>2, <1>3, <1>4

LEMMA NudgeInv ==
    ASSUME FlagsInv, NEW r \in Slot, Flags!Nudge(r) PROVE FlagsInv'
<1>1. /\ nudges' = IF nudges = None THEN None ELSE nudges + 1
      /\ excused' = (excused \/ nudges = None)
      /\ Flags!Goto(r, Flags!Idle)
      /\ UNCHANGED <<who, registered, flag, rule, changes, mounted, view, kept, fetches, shown>>
  BY DEF Flags!Nudge, Flags!broadcastFlagChange, Flags!database
<1>2. Flags!Idle.at = "idle"
  BY DEF Flags!Idle
<1>3. /\ nudges = None => excused' /\ nudges' = None
      /\ nudges # None => nudges \in Nat /\ nudges' = nudges + 1
  BY <1>1 DEF FlagsInv
<1>4. CASE nudges = None
  BY <1>1, <1>2, <1>3, <1>4, FlagsRequest DEF FlagsInv
<1>5. CASE nudges # None
  <2>1. /\ DOMAIN req' = Slot
        /\ \A s \in Slot : req'[s].at \in {"idle", "nudge", "select", "upsert"}
    BY <1>1, <1>2 DEF FlagsInv, Flags!Goto
  <2>2. ViewKept'
    BY <1>3, <1>5 DEF ViewKept, Underway
  <2> QED
    BY <1>1, <1>3, <1>5, <2>1, <2>2, FlagsChanged DEF FlagsInv
<1> QED
  BY <1>4, <1>5

LEMMA ExpireInv == ASSUME FlagsInv, Flags!Expire PROVE FlagsInv'
<1>1. /\ Flags!Written([flag EXCEPT !.expired = TRUE], rule)
      /\ excused' = TRUE
      /\ UNCHANGED <<req, nudges, mounted, view, kept, fetches, shown>>
  BY DEF Flags!Expire
<1>2. ViewKept'
  BY <1>1 DEF ViewKept
<1> QED
  BY <1>1, <1>2, FlagsWritten, FlagsChanged DEF FlagsInv

-----------------------------------------------------------------------------
\* A fetch goes on: nobody's rows, nobody's copies.
LEMMA FlagsFetched ==
    ASSUME FlagsInv, UNCHANGED <<who, registered, flag, rule, changes>>,
           UNCHANGED <<req, nudges, mounted, view, excused, kept, shown>>,
           fetches' # {},
           \A f \in fetches' : f.at # "flags" => f.since \in 0..changes \cup {None},
           ReadsTrue'
    PROVE  FlagsInv'
<1>1. Flags!Current' = Flags!Current
  BY DEF Flags!Current, Flags!Evaluated, Flags!evaluateFlag
<1>2. ViewKept'
  BY DEF ViewKept, Underway
<1>3. CopyKept'
  BY <1>1 DEF FlagsInv, CopyKept
<1> QED
  BY <1>2, <1>3 DEF FlagsInv

LEMMA EvaluateFlagsInv ==
    ASSUME FlagsInv, NEW f \in fetches, Flags!EvaluateFlags(f) PROVE FlagsInv'
<1>1. PICK seen \in BOOLEAN :
        fetches' = (fetches \ {f}) \cup
              {[n |-> f.n, at |-> "rules",
                since |-> IF seen THEN changes ELSE None,
                flag |-> IF seen THEN flag ELSE None]}
  BY DEF Flags!EvaluateFlags
<1>2. /\ UNCHANGED <<who, registered, flag, rule, changes>>
      /\ UNCHANGED <<req, nudges, mounted, view, excused, kept, shown>>
  BY DEF Flags!EvaluateFlags, Flags!database, Flags!browser
<1>3. None \notin Nat
  BY ServicesAssumption
<1> DEFINE g == [n |-> f.n, at |-> "rules", since |-> IF seen THEN changes ELSE None,
                 flag |-> IF seen THEN flag ELSE None]
<1>4. /\ g.at = "rules" /\ g.since \in 0..changes \cup {None}
      /\ g.since = changes => g.flag = flag
  BY <1>3 DEF FlagsInv
<1>5. fetches' = (fetches \ {f}) \cup {g}
  BY <1>1
<1> HIDE DEF g
<1>6. Flags!Current' = Flags!Current
  BY <1>2 DEF Flags!Current, Flags!Evaluated, Flags!evaluateFlag
<1>7. ReadsTrue'
  BY <1>2, <1>4, <1>5, <1>6 DEF FlagsInv, ReadsTrue
<1> QED
  BY <1>2, <1>4, <1>5, <1>7, FlagsFetched DEF FlagsInv

LEMMA EvaluateRulesInv ==
    ASSUME FlagsInv, NEW f \in fetches, Flags!EvaluateRules(f) PROVE FlagsInv'
<1>1. PICK seen \in BOOLEAN :
        fetches' = (fetches \ {f}) \cup
              {[n |-> f.n, at |-> "answer",
                since |-> IF seen THEN f.since ELSE None,
                value |-> Flags!Evaluated(f.flag, IF seen THEN rule ELSE None)]}
  BY DEF Flags!EvaluateRules
<1>2. /\ UNCHANGED <<who, registered, flag, rule, changes>> /\ f.at = "rules"
      /\ UNCHANGED <<req, nudges, mounted, view, excused, kept, shown>>
  BY DEF Flags!EvaluateRules, Flags!database, Flags!browser
<1>3. None \notin Nat
  BY ServicesAssumption
<1> DEFINE g == [n |-> f.n, at |-> "answer", since |-> IF seen THEN f.since ELSE None,
                 value |-> Flags!Evaluated(f.flag, IF seen THEN rule ELSE None)]
<1>4. /\ g.at = "answer" /\ g.since \in 0..changes \cup {None}
      /\ g.since = changes => g.value = Flags!Current
  <2>1. CASE seen
    <3>1. g.since = f.since /\ g.value = Flags!Evaluated(f.flag, rule) /\ g.at = "answer"
      BY <2>1
    <3> QED
      BY <1>2, <3>1 DEF FlagsInv, ReadsTrue, Flags!Current
  <2>2. CASE ~seen
    BY <1>3, <2>2 DEF FlagsInv
  <2> QED
    BY <2>1, <2>2
<1>5. fetches' = (fetches \ {f}) \cup {g}
  BY <1>1
<1> HIDE DEF g
<1>6. Flags!Current' = Flags!Current
  BY <1>2 DEF Flags!Current, Flags!Evaluated, Flags!evaluateFlag
<1>7. ReadsTrue'
  BY <1>2, <1>4, <1>5, <1>6 DEF FlagsInv, ReadsTrue
<1> QED
  BY <1>2, <1>4, <1>5, <1>7, FlagsFetched DEF FlagsInv

LEMMA AnswerInv ==
    ASSUME FlagsInv, NEW f \in fetches, Flags!Answer(f) PROVE FlagsInv'
<1>1. /\ f.at = "answer" /\ fetches' = fetches \ {f} /\ shown' = f.since
      /\ IF who = "browser"
         THEN /\ view' = IF mounted THEN Flags!Shown(f.value) ELSE view
              /\ excused' = (f.since # changes)
              /\ UNCHANGED kept
         ELSE /\ kept' = IF f.value = None THEN kept ELSE f.value
              /\ UNCHANGED <<view, excused>>
      /\ UNCHANGED <<who, registered, flag, rule, changes, req, nudges, mounted>>
  BY DEF Flags!Answer, Flags!database
<1>2. Flags!Current' = Flags!Current
  BY <1>1 DEF Flags!Current, Flags!Evaluated, Flags!evaluateFlag
<1>3. /\ f.since \in 0..changes \cup {None}
      /\ f.since = changes => f.value = Flags!Current
  BY <1>1 DEF FlagsInv, ReadsTrue
<1>4. ReadsTrue'
  BY <1>1, <1>2 DEF FlagsInv, ReadsTrue
<1>5. CopyKept'
  <2>1. who = "discord" /\ f.since = changes /\ Flags!Current # None => kept' = Flags!Current
    BY <1>1, <1>3
  <2> QED
    BY <1>1, <1>2, <2>1 DEF CopyKept
<1>6. ViewKept'
  <2>1. CASE who = "browser"
    <3>1. CASE f.since # changes
      BY <1>1, <2>1, <3>1 DEF ViewKept
    <3>2. CASE f.since = changes /\ mounted
      BY <1>1, <1>2, <1>3, <2>1, <3>2 DEF ViewKept, ViewRight, Flags!Shown, Flags!Fallback
    <3>3. CASE ~mounted
      BY <1>1, <3>3 DEF ViewKept
    <3> QED
      BY <3>1, <3>2, <3>3
  <2>2. CASE who # "browser"
    BY <1>1, <2>2 DEF FlagsInv, ViewKept
  <2> QED
    BY <2>1, <2>2
<1> QED
  BY <1>1, <1>3, <1>4, <1>5, <1>6 DEF FlagsInv

LEMMA FetchFailsInv ==
    ASSUME FlagsInv, NEW f \in fetches, Flags!FetchFails(f) PROVE FlagsInv'
<1>1. /\ fetches' = fetches \ {f} /\ excused' = TRUE
      /\ UNCHANGED <<who, registered, flag, rule, changes, req, nudges, mounted, view, kept,
         shown>>
  BY DEF Flags!FetchFails, Flags!database
<1>2. Flags!Current' = Flags!Current
  BY <1>1 DEF Flags!Current, Flags!Evaluated, Flags!evaluateFlag
<1>3. ReadsTrue' /\ CopyKept'
  BY <1>1, <1>2 DEF FlagsInv, ReadsTrue, CopyKept
<1>4. ViewKept'
  BY <1>1 DEF ViewKept
<1> QED
  BY <1>1, <1>3, <1>4 DEF FlagsInv

\* A fetch begins, or none does.
LEMMA FlagsFetching ==
    ASSUME FlagsInv, Flags!StartFetch \/ UNCHANGED fetches,
           UNCHANGED <<who, registered, flag, rule, changes, req, kept, shown>>,
           nudges' \in Nat \cup {None}, mounted' => who = "browser", ViewKept'
    PROVE  FlagsInv'
<1>1. Flags!Current' = Flags!Current
  BY DEF Flags!Current, Flags!Evaluated, Flags!evaluateFlag
<1>2. \A f \in fetches' : f \in fetches \/ f.at = "flags"
  BY DEF Flags!StartFetch, Flags!Fetch
<1>3. ReadsTrue' /\ CopyKept'
  BY <1>1, <1>2 DEF FlagsInv, ReadsTrue, CopyKept
<1> QED
  BY <1>2, <1>3 DEF FlagsInv

LEMMA browserInv ==
    ASSUME FlagsInv, Flags!Mount \/ Flags!Unmount \/ Flags!onChanged \/ Flags!SocketCloses
    PROVE  FlagsInv'
<1>1. ASSUME Flags!Mount PROVE FlagsInv'
  <2>1. /\ who = "browser" /\ excused' = TRUE
        /\ Flags!StartFetch \/ UNCHANGED fetches
        /\ UNCHANGED <<who, registered, flag, rule, changes, req, nudges, kept, shown>>
    BY <1>1 DEF Flags!Mount, Flags!database
  <2>2. ViewKept'
    BY <2>1 DEF ViewKept
  <2> QED
    BY <2>1, <2>2, FlagsFetching DEF FlagsInv
<1>2. ASSUME Flags!Unmount PROVE FlagsInv'
  <2>1. /\ mounted' = FALSE
        /\ UNCHANGED <<who, registered, flag, rule, changes, req, nudges, kept, shown, fetches>>
    BY <1>2 DEF Flags!Unmount, Flags!database
  <2>2. ViewKept'
    BY <2>1 DEF ViewKept
  <2> QED
    BY <2>1, <2>2, FlagsFetching DEF FlagsInv
<1>3. ASSUME Flags!onChanged PROVE FlagsInv'
  <2>1. /\ nudges \notin {None, 0} /\ nudges' = nudges - 1
        /\ \/ Flags!StartFetch
           \/ ~mounted /\ excused' = TRUE /\ UNCHANGED fetches
        /\ UNCHANGED <<who, registered, flag, rule, changes, req, mounted, kept, shown>>
    BY <1>3 DEF Flags!onChanged, Flags!database
  <2>2. nudges' \in Nat \cup {None} /\ (mounted' => who = "browser")
    BY <2>1 DEF FlagsInv
  <2>3. CASE Flags!StartFetch
    <3>1. fetches' # {}
      BY <2>3 DEF Flags!StartFetch
    <3>2. ViewKept'
      BY <3>1 DEF ViewKept, Underway
    <3> QED
      BY <2>1, <2>2, <2>3, <3>2, FlagsFetching
  <2>4. CASE excused' = TRUE /\ UNCHANGED fetches
    <3>1. ViewKept'
      BY <2>4 DEF ViewKept
    <3> QED
      BY <2>1, <2>2, <2>4, <3>1, FlagsFetching
  <2> QED
    BY <2>1, <2>3, <2>4
<1>4. ASSUME Flags!SocketCloses PROVE FlagsInv'
  <2>1. /\ nudges' = None /\ excused' = TRUE
        /\ UNCHANGED <<who, registered, flag, rule, changes, req, mounted, kept, shown,
           fetches>>
    BY <1>4 DEF Flags!SocketCloses, Flags!database
  <2>2. ViewKept' /\ (mounted' => who = "browser")
    BY <2>1 DEF ViewKept, FlagsInv
  <2> QED
    BY <2>1, <2>2, FlagsFetching
<1> QED
  BY <1>1, <1>2, <1>3, <1>4

LEMMA botRefreshInv == ASSUME FlagsInv, Flags!refresh PROVE FlagsInv'
<1>1. /\ Flags!StartFetch
      /\ UNCHANGED <<who, registered, flag, rule, changes, req, nudges, mounted, kept, shown>>
  BY DEF Flags!refresh, Flags!database, Flags!browser
<1>2. fetches' # {}
  BY <1>1 DEF Flags!StartFetch
<1>3. ViewKept'
  BY <1>2 DEF ViewKept, Underway
<1> QED
  BY <1>1, <1>3, FlagsFetching DEF FlagsInv

LEMMA FlagsStepInv == FlagsInv /\ [Flags!Next]_Flags!vars => FlagsInv'
<1> SUFFICES ASSUME FlagsInv, [Flags!Next]_Flags!vars PROVE FlagsInv'
  OBVIOUS
<1>1. CASE UNCHANGED Flags!vars
  <2>1. UNCHANGED <<who, registered, flag, rule, changes, req, nudges, mounted, view, excused,
                    kept, fetches, shown>>
    BY <1>1 DEF Flags!vars, Flags!database, Flags!browser
  <2>2. Flags!Current' = Flags!Current
    BY <2>1 DEF Flags!Current, Flags!Evaluated, Flags!evaluateFlag
  <2>3. Underway' <=> Underway
    BY <2>1 DEF Underway, Flags!Idle
  <2>4. ViewRight' <=> ViewRight
    BY <2>1, <2>2 DEF ViewRight, Flags!Shown, Flags!Fallback
  <2>5. (mounted' <=> mounted) /\ (excused' <=> excused)
    BY <2>1
  <2>6. ViewKept'
    BY <2>3, <2>4, <2>5, Zenon DEF FlagsInv, ViewKept
  <2> QED
    BY <2>1, <2>6, FlagsFetching DEF FlagsInv
<1>2. CASE Flags!Next
  <2>1. ASSUME NEW r \in Slot, NEW default \in BOOLEAN, NEW given \in Rule \cup {None},
               Flags!createFlag(r, default, given)
        PROVE  FlagsInv'
    BY <2>1, createFlagInv
  <2>2. ASSUME NEW r \in Slot,
               \/ \E given \in Rule : Flags!patchRule(r, given)
               \/ \E active \in BOOLEAN : Flags!patchFlag(r, active)
               \/ Flags!kill(r)
        PROVE  FlagsInv'
    BY <2>2, patchesInv
  <2>3. ASSUME NEW r \in Slot, Flags!SelectRule(r) \/ Flags!UpsertRule(r) \/ Flags!Nudge(r)
        PROVE  FlagsInv'
    BY <2>3, SelectRuleInv, UpsertRuleInv, NudgeInv
  <2>4. ASSUME NEW f \in fetches,
               \/ Flags!EvaluateFlags(f) \/ Flags!EvaluateRules(f)
               \/ Flags!Answer(f) \/ Flags!FetchFails(f)
        PROVE  FlagsInv'
    BY <2>4, EvaluateFlagsInv, EvaluateRulesInv, AnswerInv, FetchFailsInv
  <2> QED
    BY <1>2, <2>1, <2>2, <2>3, <2>4, ExpireInv, browserInv, botRefreshInv DEF Flags!Next
<1> QED
  BY <1>1, <1>2

LEMMA FlagsTrue == FlagsInv => Flags!FollowersCatchUp
<1> SUFFICES ASSUME FlagsInv, \A r \in Slot : req[r] = Flags!Idle, fetches = {}
             PROVE  /\ (mounted /\ nudges = 0 /\ ~excused) => view = Flags!Shown(Flags!Current)
                    /\ (who = "discord" /\ shown = changes /\ Flags!Current # None)
                          => kept \in {None, Flags!Current}
  BY DEF Flags!FollowersCatchUp
<1> QED
  BY DEF FlagsInv, ViewKept, ViewRight, CopyKept, Underway

\* Once no request, message or fetch is under way, a component of the panel
\* that follows a flag shows what the flag is, unless it was never told, and the
\* bot's copy is the flag if its last poll began after the last change
\* (broadcastFlagChange of server/index.ts, useFeatureFlag.ts, feature-flags.js).
THEOREM FlagsCatchUp == ServicesSpec => []FollowersCatchUp
<1> DEFINE I == focus = "flags" => FlagsInv
<1>1. ServicesInit => I
  BY FlagsStarts, FlagsInitInv
<1>2. I /\ [ServicesNext]_<<focus, places>> => I'
  BY FlagsGoes, FlagsStepInv
<1>3. I => FollowersCatchUp
  BY FlagsTrue DEF FollowersCatchUp
<1> QED
  BY <1>1, <1>2, <1>3, PTL DEF ServicesSpec

-----------------------------------------------------------------------------
LEMMA ListsStarts == ServicesInit /\ focus = "lists" => Lists!Init
  BY DEF ServicesInit, SettingsInit, ListsInit, DeploysInit, SetupInit,
         AppsInit, SecretsInit, AuditInit, FlagsInit, SharedInit, TasksInit,
         WatchInit, TicketsInit, CommandsInit, AdviceInit, ViewsInit, DutyInit,
         FleetInit, GateInit

LEMMA ListsGoes ==
    [ServicesNext]_<<focus, places>> =>
        UNCHANGED focus /\ (focus = "lists" => [Lists!Next]_Lists!vars)
  BY DEF ServicesNext, SettingsStep, ListsStep, DeploysStep, SetupStep,
         AppsStep, SecretsStep, AuditStep, FlagsStep, SharedStep, TasksStep,
         WatchStep, TicketsStep, CommandsStep, AdviceStep, ViewsStep, DutyStep,
         FleetStep, GateStep, places, rest5, rest6, rest7, rest8, Lists!vars,
         kind, list, file, req, hooks, requests, failures, restarts

-----------------------------------------------------------------------------
(***************************************************************************)
(* The JSON lists.  What a request has read is in what it is about to      *)
(* write, but for what it was told to change, and of the themes for those  *)
(* of other users.                                                         *)
(***************************************************************************)
KeepsOf(read, edited, meant, user) ==
    \A e \in Lists!Range(read) :
        e.id \in meant \/ e \in Lists!Range(edited) \/ (kind = "themes" /\ e.user # user)

ListsInv ==
    /\ Lists!TypeOK
    /\ requests \in Nat
    /\ \A r \in Slot : req[r].at # "idle" =>
           /\ KeepsOf(req[r].read, req[r].edited, req[r].changes, req[r].user)
           /\ kind = "modpacks" => req[r].edited # <<>>

\* A set of numbers has a least.
LEMMA LeastNumber ==
    ASSUME NEW T \in SUBSET Nat, T # {}
    PROVE  \E n \in T : \A m \in T : n <= m
<1>1. PICK R : R = OpToRel(<, Nat)
  OBVIOUS
<1>2. IsWellFoundedOn(R, Nat)
  BY <1>1, NatLessThanWellFounded, Zenon
<1>3. \A i, j \in Nat : i < j => <<i, j>> \in R
  BY <1>1 DEF OpToRel
<1>4. PICK n \in T : \A m \in T : <<m, n>> \notin R
  BY <1>2, WFMin
<1>5. \A m \in T : ~(m < n)
  BY <1>3, <1>4
<1> QED
  BY <1>5

(***************************************************************************)
(* What the edits return.                                                  *)
(***************************************************************************)
\* F holds what is selected of the first entries of s, for 0..n of them.
Selects(F, s, S, n) ==
    F = [i \in 0..n |-> IF i = 0 THEN <<>>
                        ELSE IF s[i] \in S THEN Append(F[i - 1], s[i]) ELSE F[i - 1]]

LEMMA Selected == ASSUME NEW s, NEW S, NEW n \in Nat PROVE \E F : Selects(F, s, S, n)
<1> DEFINE Missing == {m \in Nat : ~\E F : Selects(F, s, S, m)}
<1> SUFFICES ASSUME Missing # {} PROVE FALSE
  OBVIOUS
<1>1. PICK m \in Missing : \A k \in Missing : m <= k
  BY LeastNumber
<1>2. m # 0
  <2>1. Selects([i \in 0..0 |-> <<>>], s, S, 0)
    BY DEF Selects
  <2> QED
    BY <2>1, <1>1
<1>3. m - 1 \in Nat /\ m - 1 \notin Missing
  BY <1>1, <1>2
<1>4. PICK F : Selects(F, s, S, m - 1)
  BY <1>3
<1> DEFINE G == [i \in 0..m |-> IF i < m THEN F[i]
                               ELSE IF s[m] \in S THEN Append(F[m - 1], s[m]) ELSE F[m - 1]]
<1>5. Selects(G, s, S, m)
  <2>1. \A i \in 0..(m - 1) :
          F[i] = IF i = 0 THEN <<>>
                 ELSE IF s[i] \in S THEN Append(F[i - 1], s[i]) ELSE F[i - 1]
    BY <1>4 DEF Selects
  <2>2. \A i \in 0..m : i < m => G[i] = F[i]
    OBVIOUS
  <2>3. \A i \in 0..m : i # 0 => G[i - 1] = F[i - 1]
    BY <1>2, <1>3
  <2>4. ASSUME NEW i \in 0..m
        PROVE  G[i] = IF i = 0 THEN <<>>
                      ELSE IF s[i] \in S THEN Append(G[i - 1], s[i]) ELSE G[i - 1]
    <3>1. CASE i < m
      BY <2>1, <2>2, <2>3, <3>1, <1>3
    <3>2. CASE i = m
      BY <2>3, <3>2, <1>2
    <3> QED
      BY <3>1, <3>2, <1>3
  <2> QED
    BY <2>4 DEF Selects
<1> QED
  BY <1>1, <1>5

\* Of a list of entries, Only returns a list of entries, of those that are in S.
LEMMA OnlyKeeps ==
    ASSUME NEW S, NEW s \in Seq(Lists!Entry)
    PROVE  /\ Lists!Only(s, S) \in Seq(Lists!Entry)
           /\ \A e \in Lists!Range(s) : e \in S => e \in Lists!Range(Lists!Only(s, S))
<1>1. PICK F : F = CHOOSE f : Selects(f, s, S, Len(s))
  OBVIOUS
<1>2. Selects(F, s, S, Len(s))
  BY <1>1, Selected
<1>3. Lists!Only(s, S) = F[Len(s)]
  BY <1>1 DEF Lists!Only, Selects
<1>4. \A i \in 0..Len(s) : F[i] = IF i = 0 THEN <<>>
                                  ELSE IF s[i] \in S THEN Append(F[i - 1], s[i]) ELSE F[i - 1]
  BY <1>2 DEF Selects
<1> DEFINE Good(i) == /\ F[i] \in Seq(Lists!Entry)
                      /\ \A j \in 1..i : s[j] \in S => \E k \in 1..Len(F[i]) : F[i][k] = s[j]
           Wrong == {i \in 0..Len(s) : ~Good(i)}
<1>5. Wrong = {}
  <2> SUFFICES ASSUME Wrong # {} PROVE FALSE
    OBVIOUS
  <2>1. Wrong \in SUBSET Nat
    OBVIOUS
  <2>2. PICK i \in Wrong : \A k \in Wrong : i <= k
    BY <2>1, LeastNumber
  <2>3. Good(0)
    <3>0. Len(s) \in Nat /\ 0 \in 0..Len(s)
      OBVIOUS
    <3>1. F[0] = <<>>
      BY <3>0, <1>4, Zenon
    <3>2. <<>> \in Seq(Lists!Entry)
      OBVIOUS
    <3>3. 1..0 = {}
      OBVIOUS
    <3>4. F[0] \in Seq(Lists!Entry)
      BY <3>1, <3>2
    <3>5. \A j \in 1..0 : FALSE
      BY <3>3
    <3> QED
      BY <3>4, <3>5
  <2>4. i \in 1..Len(s)
    BY <2>2, <2>3
  <2>5. i - 1 \in 0..Len(s) /\ i - 1 \notin Wrong
    BY <2>2, <2>4
  <2>6. Good(i - 1)
    BY <2>5
  <2>7. s[i] \in Lists!Entry
    BY <2>4
  <2> DEFINE before == F[i - 1]
  <2>8. before \in Seq(Lists!Entry)
        /\ \A j \in 1..(i - 1) : s[j] \in S => \E k \in 1..Len(before) : before[k] = s[j]
    BY <2>6
  <2>9. F[i] = IF s[i] \in S THEN Append(before, s[i]) ELSE before
    BY <1>4, <2>4
  <2> HIDE DEF before
  <2>10. \A j \in 1..i : j = i \/ j \in 1..(i - 1)
    BY <2>4
  <2>11. Good(i)
    <3>1. CASE s[i] \in S
      <4>1. F[i] = Append(before, s[i])
        BY <2>9, <3>1
      <4>2. F[i] \in Seq(Lists!Entry) /\ Len(F[i]) = Len(before) + 1 /\ F[i][Len(before) + 1] = s[i]
            /\ \A k \in 1..Len(before) : F[i][k] = before[k]
        BY <2>7, <2>8, <4>1
      <4>3. \A j \in 1..i : s[j] \in S => \E k \in 1..Len(F[i]) : F[i][k] = s[j]
        BY <2>8, <2>10, <4>2
      <4> QED
        BY <4>2, <4>3
    <3>2. CASE s[i] \notin S
      BY <2>8, <2>9, <2>10, <3>2
    <3> QED
      BY <3>1, <3>2
  <2> QED
    BY <2>2, <2>11
<1>6. Good(Len(s))
  BY <1>5
<1> QED
  BY <1>3, <1>6 DEF Lists!Range

LEMMA AppendKeeps ==
    ASSUME NEW s \in Seq(Lists!Entry), NEW e \in Lists!Entry
    PROVE  /\ Append(s, e) \in Seq(Lists!Entry) /\ Append(s, e) # <<>>
           /\ Lists!Range(s) \subseteq Lists!Range(Append(s, e))
<1> DEFINE t == Append(s, e)
<1>1. t \in Seq(Lists!Entry) /\ Len(t) = Len(s) + 1 /\ Len(s) \in Nat
  OBVIOUS
<1>2. \A i \in 1..Len(s) : t[i] = s[i]
  OBVIOUS
<1> HIDE DEF t
<1>3. t # <<>>
  BY <1>1
<1>4. \A i \in 1..Len(s) : i \in 1..Len(t)
  BY <1>1
<1>5. DOMAIN s = 1..Len(s) /\ DOMAIN t = 1..Len(t)
  BY <1>1
<1>6. Lists!Range(s) \subseteq Lists!Range(t)
  BY <1>2, <1>4, <1>5 DEF Lists!Range
<1> QED
  BY <1>1, <1>3, <1>6 DEF t

\* findIndex finds an entry with the id and the user.
LEMMA FoundThere ==
    ASSUME NEW s \in Seq(Lists!Entry), NEW id, NEW user, NEW i \in Lists!Found(s, id, user)
    PROVE  i \in 1..Len(s) /\ s[i].id = id /\ s[i].user = user
<1> DEFINE T == Lists!At(s, id, user)
<1>1. T # {} /\ i = Lists!Min(T)
  BY DEF Lists!Found
<1>2. T \in SUBSET Nat
  BY DEF Lists!At
<1> HIDE DEF T
<1>3. i \in T
  BY <1>1, <1>2, LeastNumber DEF Lists!Min
<1> QED
  BY <1>3 DEF T, Lists!At

LEMMA WithoutKeeps ==
    ASSUME NEW s \in Seq(Lists!Entry), NEW id, NEW user, NEW edited \in Lists!Without(s, id,
           user)
    PROVE  /\ edited \in Seq(Lists!Entry)
           /\ \A e \in Lists!Range(s) : e.id = id \/ e \in Lists!Range(edited)
<1>1. PICK i \in Lists!Found(s, id, user) : edited = Lists!RemoveAt(s, i)
  BY DEF Lists!Without
<1>2. i \in 1..Len(s) /\ s[i].id = id
  BY FoundThere
<1>3. edited = SubSeq(s, 1, i - 1) \o SubSeq(s, i + 1, Len(s))
  BY <1>1 DEF Lists!RemoveAt
<1> DEFINE p == SubSeq(s, 1, i - 1)
           q == SubSeq(s, i + 1, Len(s))
<1>4. /\ p \in Seq(Lists!Entry) /\ Len(p) = i - 1
      /\ \A j \in 1..(i - 1) : p[j] = s[j]
  BY <1>2
<1>5. /\ q \in Seq(Lists!Entry) /\ Len(q) = Len(s) - i
      /\ \A j \in 1..(Len(s) - i) : q[j] = s[i + j]
  BY <1>2
<1> HIDE DEF p, q
<1>6. edited = p \o q
  BY <1>3 DEF p, q
<1>7. /\ edited \in Seq(Lists!Entry) /\ Len(edited) = Len(p) + Len(q)
      /\ \A k \in 1..Len(edited) :
             edited[k] = IF k <= Len(p) THEN p[k] ELSE q[k - Len(p)]
  <2>1. p \in Seq(Lists!Entry) /\ q \in Seq(Lists!Entry)
    BY <1>4, <1>5
  <2>2. p \o q \in Seq(Lists!Entry) /\ Len(p \o q) = Len(p) + Len(q)
    BY <2>1
  <2>3. \A k \in 1..Len(p \o q) : (p \o q)[k] = IF k <= Len(p) THEN p[k] ELSE q[k - Len(p)]
    BY <2>1
  <2> QED
    BY <1>6, <2>2, <2>3
<1>8. ASSUME NEW j \in 1..Len(s), j # i PROVE \E k \in 1..Len(edited) : edited[k] = s[j]
  <2>1. CASE j < i
    <3>1. j \in 1..Len(edited) /\ j <= Len(p) /\ j \in 1..(i - 1)
      BY <1>2, <1>4, <1>5, <1>7, <2>1
    <3> QED
      BY <1>4, <1>7, <3>1
  <2>2. CASE j > i
    <3>1. /\ j - 1 \in 1..Len(edited) /\ ~(j - 1 <= Len(p))
          /\ (j - 1) - Len(p) = j - i /\ j - i \in 1..(Len(s) - i) /\ i + (j - i) = j
      BY <1>2, <1>4, <1>5, <1>7, <2>2
    <3>2. edited[j - 1] = q[j - i]
      BY <1>7, <3>1
    <3>3. q[j - i] = s[j]
      BY <1>5, <3>1
    <3> QED
      BY <3>1, <3>2, <3>3
  <2> QED
    BY <1>2, <1>8, <2>1, <2>2
<1>9. DOMAIN s = 1..Len(s) /\ DOMAIN edited = 1..Len(edited)
  BY <1>7
<1>10. \A j \in 1..Len(s) : j # i => s[j] \in Lists!Range(edited)
  BY <1>8, <1>9 DEF Lists!Range
<1>11. \A e \in Lists!Range(s) : \E j \in 1..Len(s) : e = s[j]
  BY <1>9 DEF Lists!Range
<1> QED
  BY <1>2, <1>7, <1>10, <1>11

LEMMA ReplaceKeeps ==
    ASSUME NEW s \in Seq(Lists!Entry), NEW i \in 1..Len(s), NEW x \in Lists!Entry
    PROVE  /\ Lists!ReplaceAt(s, i, x) \in Seq(Lists!Entry)
           /\ \A e \in Lists!Range(s) : e.id = s[i].id \/ e \in Lists!Range(Lists!ReplaceAt(s, i, x))
<1> DEFINE t == Lists!ReplaceAt(s, i, x)
<1>1. t = [s EXCEPT ![i] = x]
  BY DEF Lists!ReplaceAt
<1>2. t \in Seq(Lists!Entry) /\ DOMAIN t = DOMAIN s /\ \A j \in DOMAIN s : j # i => t[j] = s[j]
  BY <1>1
<1> QED
  BY <1>2 DEF Lists!Range

\* s with the entries of the id and the user changed or taken away.
KeptBut(s, edited, id) ==
    /\ edited \in Seq(Lists!Entry)
    /\ \A e \in Lists!Range(s) : e.id = id \/ e \in Lists!Range(edited)

LEMMA EditsKeep ==
    ASSUME NEW s \in Seq(Lists!Entry), NEW id, NEW user, NEW edited
    PROVE  /\ edited \in Lists!Without(s, id, user) => KeptBut(s, edited, id)
           /\ \A on \in BOOLEAN : edited \in Lists!Switched(s, id, user, on) => KeptBut(s,
              edited, id)
           /\ edited \in Lists!Toggled(s, id, user) => KeptBut(s, edited, id)
           /\ edited = Lists!Except(s, id) => KeptBut(s, edited, id)
<1>1. ASSUME edited \in Lists!Without(s, id, user) PROVE KeptBut(s, edited, id)
  BY <1>1, WithoutKeeps DEF KeptBut
<1>2. ASSUME NEW i \in Lists!Found(s, id, user)
      PROVE  /\ i \in 1..Len(s) /\ s[i].id = id
             /\ \A on \in BOOLEAN : [s[i] EXCEPT !.on = on] \in Lists!Entry
             /\ [s[i] EXCEPT !.on = ~@] \in Lists!Entry
  <2>1. i \in 1..Len(s) /\ s[i].id = id
    BY <1>2, FoundThere
  <2>2. s[i] \in Lists!Entry
    BY <2>1
  <2> QED
    BY <2>1, <2>2 DEF Lists!Entry
<1>3. ASSUME NEW on \in BOOLEAN, edited \in Lists!Switched(s, id, user, on)
      PROVE  KeptBut(s, edited, id)
  <2>1. PICK i \in Lists!Found(s, id, user) :
           edited = Lists!ReplaceAt(s, i, [s[i] EXCEPT !.on = on])
    BY <1>3 DEF Lists!Switched
  <2> QED
    BY <1>2, <2>1, ReplaceKeeps DEF KeptBut
<1>4. ASSUME edited \in Lists!Toggled(s, id, user) PROVE KeptBut(s, edited, id)
  <2>1. PICK i \in Lists!Found(s, id, user) :
           edited = Lists!ReplaceAt(s, i, [s[i] EXCEPT !.on = ~@])
    BY <1>4 DEF Lists!Toggled
  <2> QED
    BY <1>2, <2>1, ReplaceKeeps DEF KeptBut
<1>5. ASSUME edited = Lists!Except(s, id) PROVE KeptBut(s, edited, id)
  BY <1>5, OnlyKeeps DEF Lists!Except, KeptBut
<1> QED
  BY <1>1, <1>3, <1>4, <1>5

\* The caller's themes: those of others are left out.
LEMMA ThemesKeep ==
    ASSUME NEW s \in Seq(Lists!Entry), NEW user
    PROVE  /\ Lists!Themes(s, user) \in Seq(Lists!Entry)
           /\ \A e \in Lists!Range(s) : e.user = user => e \in Lists!Range(Lists!Themes(s,
              user))
BY OnlyKeeps DEF Lists!Themes

\* A new entry.
LEMMA NewEntry ==
    ASSUME ListsInv, NEW user \in User \cup {None}, NEW first \in {"none", "pending"}
    PROVE  /\ Lists!New(user, first) \in Lists!Entry
           /\ [Lists!New(user, first) EXCEPT !.on = TRUE] \in Lists!Entry
           /\ \A id \in Nat : [Lists!New(user, first) EXCEPT !.id = id] \in Lists!Entry
           /\ \A id \in Nat, on \in BOOLEAN :
                 [Lists!New(user, first) EXCEPT !.id = id, !.on = on] \in Lists!Entry
<1>1. requests + 1 \in Nat
  BY DEF ListsInv
<1> QED
  BY <1>1 DEF Lists!New, Lists!NewId, Lists!Entry

\* A request that has read the list, and edits it in one of the ways E.
LEMMA ListsHandle ==
    ASSUME ListsInv, NEW r \in Slot, NEW user \in User, NEW meant \in SUBSET Nat,
           NEW s \in Seq(Lists!Entry), NEW E,
           \A edited \in E : /\ edited \in Seq(Lists!Entry)
                             /\ KeepsOf(s, edited, meant, user)
                             /\ kind = "modpacks" => edited # <<>>,
           \/ UNCHANGED req
           \/ \E edited \in E :
                 req' = [req EXCEPT ![r] = [at |-> "write", user |-> user, read |-> s,
                                            edited |-> edited, changes |-> meant]],
           requests' = requests + 1, UNCHANGED <<kind, list, file, hooks>>
    PROVE  ListsInv'
<1>1. requests' \in Nat
  BY DEF ListsInv
<1>2. req \in [Slot -> {Lists!Idle} \cup Lists!Request]
  BY DEF ListsInv, Lists!TypeOK
<1>3. CASE UNCHANGED req
  BY <1>1, <1>3 DEF ListsInv, Lists!TypeOK, KeepsOf
<1>4. ASSUME NEW edited \in E,
             req' = [req EXCEPT ![r] = [at |-> "write", user |-> user, read |-> s,
                                        edited |-> edited, changes |-> meant]]
      PROVE  ListsInv'
  <2> DEFINE q == [at |-> "write", user |-> user, read |-> s, edited |-> edited,
    changes |-> meant]
  <2>1. q \in Lists!Request
    BY DEF Lists!Request
  <2>2. /\ KeepsOf(q.read, q.edited, q.changes, q.user)
        /\ kind = "modpacks" => q.edited # <<>>
    OBVIOUS
  <2> HIDE DEF q
  <2>3. req' = [req EXCEPT ![r] = q]
    BY <1>4 DEF q
  <2>4. \A k \in Slot : req'[k] = IF k = r THEN q ELSE req[k]
    BY <1>2, <2>3
  <2>5. Lists!TypeOK'
    BY <1>2, <2>1, <2>3 DEF ListsInv, Lists!TypeOK
  <2>6. ASSUME NEW k \in Slot, req'[k].at # "idle"
        PROVE  /\ KeepsOf(req[k].read, req[k].edited, req[k].changes, req[k].user)'
               /\ kind' = "modpacks" => req'[k].edited # <<>>
    BY <2>2, <2>4, <2>6 DEF ListsInv, KeepsOf
  <2> QED
    BY <1>1, <2>5, <2>6 DEF ListsInv
<1> QED
  BY <1>3, <1>4

\* What a request reads.
LEMMA ListsRead ==
    ASSUME ListsInv, NEW s \in {Lists!Stored, <<>>} PROVE s \in Seq(Lists!Entry)
<1>1. list \in Seq(Lists!Entry) /\ <<>> \in Seq(Lists!Entry)
  BY DEF ListsInv, Lists!TypeOK
<1> QED
  BY <1>1 DEF Lists!Stored

\* The handlers that change entries of the caller's, or of nobody's.
LEMMA ListsEditInv ==
    ASSUME ListsInv, NEW r \in Slot, NEW u \in User, NEW id \in Nat, NEW on \in BOOLEAN,
           \/ Lists!patchTask(r, u, id, on) \/ Lists!deleteTask(r, u, id)
           \/ Lists!toggleTask(r, u, id) \/ Lists!deleteDatabase(r, u, id)
           \/ Lists!putDashboard(r, u, id, on) \/ Lists!deleteDashboard(r, u, id)
           \/ Lists!removeTag(r, u, id)
    PROVE  ListsInv'
<1>1. \E s \in {Lists!Stored, <<>>}, owner \in {u, None} :
         \E E \in {Lists!Switched(s, id, owner, on), Lists!Without(s, id, owner),
                   Lists!Toggled(s, id, owner), {Lists!Except(s, id)}} :
            /\ kind # "modpacks" /\ requests' = requests + 1
            /\ UNCHANGED <<kind, list, file, hooks>>
            /\ \/ UNCHANGED req
               \/ \E edited \in E :
                    req' = [req EXCEPT ![r] = [at |-> "write", user |-> u, read |-> s,
                                               edited |-> edited, changes |-> {id}]]
  BY DEF Lists!patchTask, Lists!deleteTask, Lists!toggleTask, Lists!deleteDatabase,
         Lists!putDashboard, Lists!deleteDashboard, Lists!removeTag, Lists!Handle
<1>2. PICK s \in {Lists!Stored, <<>>}, owner \in {u, None} :
         \E E \in {Lists!Switched(s, id, owner, on), Lists!Without(s, id, owner),
                   Lists!Toggled(s, id, owner), {Lists!Except(s, id)}} :
            /\ kind # "modpacks" /\ requests' = requests + 1
            /\ UNCHANGED <<kind, list, file, hooks>>
            /\ \/ UNCHANGED req
               \/ \E edited \in E :
                    req' = [req EXCEPT ![r] = [at |-> "write", user |-> u, read |-> s,
                                               edited |-> edited, changes |-> {id}]]
  BY <1>1
<1>3. PICK E \in {Lists!Switched(s, id, owner, on), Lists!Without(s, id, owner),
                  Lists!Toggled(s, id, owner), {Lists!Except(s, id)}} :
            /\ kind # "modpacks" /\ requests' = requests + 1
            /\ UNCHANGED <<kind, list, file, hooks>>
            /\ \/ UNCHANGED req
               \/ \E edited \in E :
                    req' = [req EXCEPT ![r] = [at |-> "write", user |-> u, read |-> s,
                                               edited |-> edited, changes |-> {id}]]
  BY <1>2
<1>4. s \in Seq(Lists!Entry)
  BY ListsRead
<1>5. \A edited \in E : KeptBut(s, edited, id)
  BY <1>4, EditsKeep
<1>6. \A edited \in E : /\ edited \in Seq(Lists!Entry)
                        /\ KeepsOf(s, edited, {id}, u)
                        /\ kind = "modpacks" => edited # <<>>
  BY <1>3, <1>5 DEF KeptBut, KeepsOf
<1> QED
  BY <1>3, <1>4, <1>6, ListsHandle

\* The handlers that append an entry.
LEMMA ListsCreateInv ==
    ASSUME ListsInv, NEW r \in Slot, NEW u \in User,
           \/ Lists!createTask(r, u) \/ Lists!createDatabase(r, u) \/ Lists!installModpack(r, u)
           \/ \E id \in Nat : Lists!createDashboard(r, u, id)
    PROVE  ListsInv'
<1>1. \E s \in {Lists!Stored, <<>>}, e \in Lists!Entry :
            /\ requests' = requests + 1
            /\ UNCHANGED <<kind, list, file, hooks>>
            /\ \/ UNCHANGED req
               \/ \E edited \in {Append(s, e)} :
                    req' = [req EXCEPT ![r] = [at |-> "write", user |-> u, read |-> s,
                                               edited |-> edited, changes |-> {}]]
  <2>1. u \in User \cup {None} /\ None \in User \cup {None}
    OBVIOUS
  <2>2. CASE Lists!createTask(r, u)
    BY <2>1, <2>2, NewEntry DEF Lists!createTask, Lists!Handle
  <2>3. CASE Lists!createDatabase(r, u)
    BY <2>1, <2>3, NewEntry DEF Lists!createDatabase, Lists!Handle
  <2>4. CASE Lists!installModpack(r, u)
    BY <2>1, <2>4, NewEntry DEF Lists!installModpack, Lists!Handle
  <2>5. ASSUME NEW id \in Nat, Lists!createDashboard(r, u, id)
        PROVE  \E s \in {Lists!Stored, <<>>}, e \in Lists!Entry :
                  /\ requests' = requests + 1
                  /\ UNCHANGED <<kind, list, file, hooks>>
                  /\ \/ UNCHANGED req
                     \/ \E edited \in {Append(s, e)} :
                          req' = [req EXCEPT ![r] = [at |-> "write", user |-> u, read |-> s,
                                                     edited |-> edited, changes |-> {}]]
    BY <2>1, <2>5, NewEntry DEF Lists!createDashboard, Lists!Handle
  <2> QED
    BY <2>2, <2>3, <2>4, <2>5
<1>2. PICK s \in {Lists!Stored, <<>>}, e \in Lists!Entry :
            /\ requests' = requests + 1
            /\ UNCHANGED <<kind, list, file, hooks>>
            /\ \/ UNCHANGED req
               \/ \E edited \in {Append(s, e)} :
                    req' = [req EXCEPT ![r] = [at |-> "write", user |-> u, read |-> s,
                                               edited |-> edited, changes |-> {}]]
  BY <1>1
<1>3. s \in Seq(Lists!Entry)
  BY ListsRead
<1>4. \A edited \in {Append(s, e)} : /\ edited \in Seq(Lists!Entry)
                                     /\ KeepsOf(s, edited, {}, u)
                                     /\ kind = "modpacks" => edited # <<>>
  BY <1>3, AppendKeeps DEF KeepsOf
<1> DEFINE E == {Append(s, e)}
<1>5. \A edited \in E : /\ edited \in Seq(Lists!Entry)
                        /\ KeepsOf(s, edited, {}, u)
                        /\ kind = "modpacks" => edited # <<>>
  BY <1>4
<1>6. \/ UNCHANGED req
      \/ \E edited \in E :
           req' = [req EXCEPT ![r] = [at |-> "write", user |-> u, read |-> s,
                                      edited |-> edited, changes |-> {}]]
  BY <1>2
<1> HIDE DEF E
<1> QED
  BY <1>2, <1>3, <1>5, <1>6, ListsHandle

\* A translation is changed or appended.
LEMMA submitTranslationInv ==
    ASSUME ListsInv, NEW r \in Slot, NEW u \in User, NEW id \in Nat, NEW on \in BOOLEAN,
           Lists!submitTranslation(r, u, id, on)
    PROVE  ListsInv'
<1> DEFINE e == [Lists!New(None, "none") EXCEPT !.id = id, !.on = on]
           E(s) == IF Lists!Found(s, id, None) # {} THEN Lists!Switched(s, id, None, on)
                   ELSE {Append(s, e)}
<1>1. PICK s \in {Lists!Stored, <<>>} :
            /\ kind # "modpacks" /\ requests' = requests + 1
            /\ UNCHANGED <<kind, list, file, hooks>>
            /\ \/ UNCHANGED req
               \/ \E edited \in E(s) :
                    req' = [req EXCEPT ![r] = [at |-> "write", user |-> u, read |-> s,
                                               edited |-> edited, changes |-> {id}]]
  BY DEF Lists!submitTranslation, Lists!Handle
<1>2. s \in Seq(Lists!Entry)
  BY ListsRead
<1>3. e \in Lists!Entry
  BY NewEntry
<1> HIDE DEF e
<1>4. \A edited \in E(s) : KeptBut(s, edited, id)
  BY <1>2, <1>3, AppendKeeps, EditsKeep DEF KeptBut
<1>5. \A edited \in E(s) : /\ edited \in Seq(Lists!Entry)
                           /\ KeepsOf(s, edited, {id}, u)
                           /\ kind = "modpacks" => edited # <<>>
  BY <1>1, <1>4 DEF KeptBut, KeepsOf
<1> HIDE DEF E
<1> QED
  BY <1>1, <1>2, <1>5, ListsHandle

\* A tag is there already, or appended.
LEMMA addTagInv ==
    ASSUME ListsInv, NEW r \in Slot, NEW u \in User, NEW id \in Nat, Lists!addTag(r, u, id)
    PROVE  ListsInv'
<1> DEFINE e == [Lists!New(None, "none") EXCEPT !.id = id]
           E(s) == IF Lists!Found(s, id, None) # {} THEN {s} ELSE {Append(s, e)}
<1>1. PICK s \in {Lists!Stored, <<>>} :
            /\ kind # "modpacks" /\ requests' = requests + 1
            /\ UNCHANGED <<kind, list, file, hooks>>
            /\ \/ UNCHANGED req
               \/ \E edited \in E(s) :
                    req' = [req EXCEPT ![r] = [at |-> "write", user |-> u, read |-> s,
                                               edited |-> edited, changes |-> {}]]
  BY DEF Lists!addTag, Lists!Handle
<1>2. s \in Seq(Lists!Entry)
  BY ListsRead
<1>3. e \in Lists!Entry
  BY NewEntry
<1> HIDE DEF e
<1>4. \A edited \in E(s) : /\ edited \in Seq(Lists!Entry)
                           /\ KeepsOf(s, edited, {}, u)
                           /\ kind = "modpacks" => edited # <<>>
  BY <1>1, <1>2, <1>3, AppendKeeps DEF KeepsOf
<1> HIDE DEF E
<1> QED
  BY <1>1, <1>2, <1>4, ListsHandle

\* The themes: what is stored is the caller's.
LEMMA themesInv ==
    ASSUME ListsInv, NEW r \in Slot, NEW u \in User, NEW id \in Nat,
           Lists!saveTheme(r, u, id) \/ Lists!deleteTheme(r, u, id) \/ Lists!publishTheme(r,
             u, id)
    PROVE  ListsInv'
<1> DEFINE new == Lists!New(u, "none")
           Saved(mine) == IF Lists!Found(mine, id, u) = {} THEN {Append(mine, new)}
                          ELSE {Lists!ReplaceAt(mine, i, new) : i \in Lists!Found(mine, id, u)}
<1>1. PICK s \in {Lists!Stored, <<>>} :
            /\ kind = "themes" /\ requests' = requests + 1
            /\ UNCHANGED <<kind, list, file, hooks>>
            /\ \/ UNCHANGED req
               \/ \E edited \in Saved(Lists!Themes(s, u)) \cup {Lists!Except(Lists!Themes(s,
                  u), id)}
                                   \cup Lists!Toggled(Lists!Themes(s, u), id, u) :
                    req' = [req EXCEPT ![r] = [at |-> "write", user |-> u, read |-> s,
                                               edited |-> edited, changes |-> {id}]]
  BY DEF Lists!saveTheme, Lists!deleteTheme, Lists!publishTheme, Lists!Handle
<1> DEFINE mine == Lists!Themes(s, u)
<1>2. s \in Seq(Lists!Entry)
  BY ListsRead
<1>3. /\ mine \in Seq(Lists!Entry)
      /\ \A e \in Lists!Range(s) : e.user = u => e \in Lists!Range(mine)
  BY <1>2, ThemesKeep
<1>4. new \in Lists!Entry
  BY NewEntry
<1> HIDE DEF new, mine
<1>5. \A edited \in Saved(mine) : KeptBut(mine, edited, id)
  <2>1. CASE Lists!Found(mine, id, u) = {}
    BY <1>3, <1>4, <2>1, AppendKeeps DEF KeptBut
  <2>2. ASSUME NEW i \in Lists!Found(mine, id, u)
        PROVE  KeptBut(mine, Lists!ReplaceAt(mine, i, new), id)
    <3>1. i \in 1..Len(mine) /\ mine[i].id = id
      BY <1>3, FoundThere
    <3> QED
      BY <1>3, <1>4, <3>1, ReplaceKeeps DEF KeptBut
  <2> QED
    BY <2>1, <2>2
<1> DEFINE E == Saved(mine) \cup {Lists!Except(mine, id)} \cup Lists!Toggled(mine, id, u)
<1>6. \A edited \in E : KeptBut(mine, edited, id)
  BY <1>3, <1>5, EditsKeep
<1>7. \A edited \in E : /\ edited \in Seq(Lists!Entry)
                        /\ KeepsOf(s, edited, {id}, u)
                        /\ kind = "modpacks" => edited # <<>>
  BY <1>1, <1>3, <1>6 DEF KeptBut, KeepsOf
<1>8. \/ UNCHANGED req
      \/ \E edited \in E :
           req' = [req EXCEPT ![r] = [at |-> "write", user |-> u, read |-> s,
                                      edited |-> edited, changes |-> {id}]]
  BY <1>1 DEF mine
<1>9. requests' = requests + 1 /\ UNCHANGED <<kind, list, file, hooks>>
  BY <1>1
<1>10. {id} \in SUBSET Nat
  OBVIOUS
<1> HIDE DEF E, Saved
<1> QED
  BY <1>2, <1>7, <1>8, <1>9, <1>10, ListsHandle, ZenonT(60)

-----------------------------------------------------------------------------
(***************************************************************************)
(* What follows: the writes, the installations, and the restarts.          *)
(***************************************************************************)
\* A request that ends, or has emptied its file.
LEMMA ListsEnds ==
    ASSUME ListsInv, NEW r \in Slot,
           \/ req' = [req EXCEPT ![r] = Lists!Idle]
           \/ req[r].at = "write" /\ req' = [req EXCEPT ![r].at = "fill"],
           list' \in Seq(Lists!Entry), file' \in {"whole", "empty", "mixed"},
           hooks' \subseteq Lists!Hook, UNCHANGED <<kind, requests>>
    PROVE  ListsInv'
<1>1. req \in [Slot -> {Lists!Idle} \cup Lists!Request]
  BY DEF ListsInv, Lists!TypeOK
<1>2. CASE req' = [req EXCEPT ![r] = Lists!Idle]
  <2>1. \A k \in Slot : req'[k] = IF k = r THEN Lists!Idle ELSE req[k]
    BY <1>1, <1>2
  <2>2. Lists!TypeOK'
    BY <1>1, <1>2 DEF ListsInv, Lists!TypeOK
  <2>3. Lists!Idle.at = "idle"
    BY DEF Lists!Idle
  <2> QED
    BY <2>1, <2>2, <2>3 DEF ListsInv, KeepsOf
<1>3. CASE req[r].at = "write" /\ req' = [req EXCEPT ![r].at = "fill"]
  <2> DEFINE q == [req[r] EXCEPT !.at = "fill"]
  <2>1. req[r] \in Lists!Request
    BY <1>1, <1>3 DEF Lists!Idle
  <2>2. /\ q \in Lists!Request /\ q.read = req[r].read /\ q.edited = req[r].edited
        /\ q.changes = req[r].changes /\ q.user = req[r].user
    BY <2>1 DEF Lists!Request
  <2>3. req' = [req EXCEPT ![r] = q]
    BY <1>3
  <2> HIDE DEF q
  <2>4. \A k \in Slot : req'[k] = IF k = r THEN q ELSE req[k]
    BY <1>1, <2>3
  <2>5. Lists!TypeOK'
    BY <1>1, <2>2, <2>3 DEF ListsInv, Lists!TypeOK
  <2>6. ASSUME NEW k \in Slot, req'[k].at # "idle"
        PROVE  /\ KeepsOf(req[k].read, req[k].edited, req[k].changes, req[k].user)'
               /\ kind' = "modpacks" => req'[k].edited # <<>>
    <3>1. CASE k = r
      <4>1. req[r].at # "idle"
        BY <1>3
      <4> QED
        BY <2>2, <2>4, <3>1, <4>1 DEF ListsInv, KeepsOf
    <3>2. CASE k # r
      BY <2>4, <2>6, <3>2 DEF ListsInv, KeepsOf
    <3> QED
      BY <3>1, <3>2
  <2> QED
    BY <2>5, <2>6 DEF ListsInv
<1> QED
  BY <1>2, <1>3

\* What the requests and installations under way are.
LEMMA ListsTyped ==
    ASSUME ListsInv
    PROVE  /\ \A r \in Slot : req[r].at # "idle" =>
                 /\ req[r] \in Lists!Request
                 /\ KeepsOf(req[r].read, req[r].edited, req[r].changes, req[r].user)
                 /\ kind = "modpacks" => req[r].edited # <<>>
           /\ hooks \subseteq Lists!Hook
           /\ list \in Seq(Lists!Entry) /\ file \in {"whole", "empty", "mixed"}
<1>1. \A r \in Slot : req[r].at # "idle" => req[r] \in Lists!Request
  BY DEF ListsInv, Lists!TypeOK, Lists!Idle
<1> QED
  BY <1>1 DEF ListsInv, Lists!TypeOK

LEMMA ListsWriteInv ==
    ASSUME ListsInv, NEW r \in Slot, Lists!Write(r) \/ Lists!Empty(r) \/ Lists!Fill(r)
    PROVE  ListsInv'
<1>1. req[r].at # "idle"
  BY DEF Lists!Write, Lists!Empty, Lists!Fill
<1>2. /\ req[r] \in Lists!Request
      /\ kind = "modpacks" => req[r].edited # <<>>
      /\ hooks \subseteq Lists!Hook /\ list \in Seq(Lists!Entry)
      /\ file \in {"whole", "empty", "mixed"}
  BY <1>1, ListsTyped
<1>3. req[r].edited \in Seq(Lists!Entry)
  BY <1>2 DEF Lists!Request
<1>4. CASE Lists!Write(r)
  <2>1. /\ list' \in {list, req[r].edited} /\ req' = [req EXCEPT ![r] = Lists!Idle]
        /\ UNCHANGED <<kind, file, requests>>
    BY <1>4 DEF Lists!Write
  <2>2. hooks' = IF kind # "modpacks" THEN hooks
                 ELSE hooks \cup {[at |-> "fetch", id |-> Lists!Last(req[r].edited).id,
                                   captured |-> req[r].edited]}
    BY <1>4 DEF Lists!Write
  <2>3. ASSUME kind = "modpacks" PROVE Lists!Last(req[r].edited).id \in Nat
    <3>1. req[r].edited # <<>>
      BY <1>2, <2>3
    <3>2. Lists!Last(req[r].edited) \in Lists!Entry
      BY <1>3, <3>1 DEF Lists!Last
    <3> QED
      BY <3>2 DEF Lists!Entry
  <2>4. hooks' \subseteq Lists!Hook
    BY <1>2, <1>3, <2>2, <2>3 DEF Lists!Hook
  <2> QED
    BY <1>2, <1>3, <2>1, <2>4, ListsEnds
<1>5. CASE Lists!Empty(r)
  BY <1>2, <1>5, ListsEnds DEF Lists!Empty
<1>6. CASE Lists!Fill(r)
  BY <1>2, <1>3, <1>6, ListsEnds DEF Lists!Fill
<1> QED
  BY <1>4, <1>5, <1>6

\* Setting a status keeps the other entries.
LEMMA MarkedKeeps ==
    ASSUME NEW h \in Lists!Hook, NEW to \in {"failed", "downloading", "completed"}
    PROVE  /\ Lists!Marked(h, to) \in Seq(Lists!Entry)
           /\ \A e \in Lists!Range(h.captured) :
                 e.id = h.id \/ e \in Lists!Range(Lists!Marked(h, to))
<1> DEFINE t == Lists!Marked(h, to)
<1>1. h.captured \in Seq(Lists!Entry)
  BY DEF Lists!Hook
<1>2. /\ t = [i \in DOMAIN h.captured |->
                IF h.captured[i].id = h.id THEN [h.captured[i] EXCEPT !.status = to]
                ELSE h.captured[i]]
  BY DEF Lists!Marked
<1>3. \A i \in DOMAIN h.captured : h.captured[i] \in Lists!Entry
  BY <1>1
<1>4. \A e \in Lists!Entry : [e EXCEPT !.status = to] \in Lists!Entry
  BY DEF Lists!Entry
<1> HIDE DEF t
<1>5. t \in [1..Len(h.captured) -> Lists!Entry] /\ Len(h.captured) \in Nat
  BY <1>1, <1>2, <1>3, <1>4
<1>6. t \in Seq(Lists!Entry)
  BY <1>5
<1>7. \A e \in Lists!Range(h.captured) : e.id = h.id \/ e \in Lists!Range(t)
  BY <1>2 DEF Lists!Range
<1> QED
  BY <1>6, <1>7 DEF t

LEMMA ListsHookInv ==
    ASSUME ListsInv, NEW h \in hooks, Lists!Fetched(h) \/ Lists!Completed(h)
    PROVE  ListsInv'
<1>1. h \in Lists!Hook /\ hooks \subseteq Lists!Hook /\ list \in Seq(Lists!Entry)
  BY ListsTyped
<1>2. [h EXCEPT !.at = "timer", !.captured = Lists!Marked(h, "downloading")] \in Lists!Hook
  BY <1>1, MarkedKeeps DEF Lists!Hook
<1>3. \E to \in {"failed", "downloading", "completed"} : list' \in {list, Lists!Marked(h, to)}
  BY DEF Lists!Fetched, Lists!Completed, Lists!Store
<1>4. list' \in Seq(Lists!Entry)
  BY <1>1, <1>3, MarkedKeeps
<1>5. hooks' \subseteq Lists!Hook
  BY <1>1, <1>2 DEF Lists!Fetched, Lists!Completed, Lists!Store
<1>6. UNCHANGED <<kind, file, req, requests>>
  BY DEF Lists!Fetched, Lists!Completed, Lists!Store
<1> QED
  BY <1>4, <1>5, <1>6 DEF ListsInv, Lists!TypeOK, KeepsOf

LEMMA ListsRestartInv == ASSUME ListsInv, Lists!Restart PROVE ListsInv'
<1>1. /\ req' = [r \in Slot |-> Lists!Idle] /\ hooks' = {}
      /\ UNCHANGED <<kind, list, file, requests>>
  BY DEF Lists!Restart
<1>2. \A r \in Slot : req'[r].at = "idle"
  BY <1>1 DEF Lists!Idle
<1>3. Lists!TypeOK'
  BY <1>1 DEF ListsInv, Lists!TypeOK
<1> QED
  BY <1>1, <1>2, <1>3 DEF ListsInv

LEMMA ListsInitInv == Lists!Init => ListsInv
<1> SUFFICES ASSUME Lists!Init PROVE ListsInv
  OBVIOUS
<1>1. /\ kind \in Kind /\ list = <<>> /\ file = "whole"
      /\ req = [r \in Slot |-> Lists!Idle] /\ hooks = {} /\ requests = 0
  BY DEF Lists!Init
<1>2. \A r \in Slot : req[r].at = "idle"
  BY <1>1 DEF Lists!Idle
<1>3. <<>> \in Seq(Lists!Entry)
  OBVIOUS
<1>4. Lists!TypeOK
  BY <1>1, <1>3 DEF Lists!TypeOK
<1> QED
  BY <1>1, <1>2, <1>4 DEF ListsInv

LEMMA ListsStepInv == ListsInv /\ [Lists!Next]_Lists!vars => ListsInv'
<1> SUFFICES ASSUME ListsInv, [Lists!Next]_Lists!vars PROVE ListsInv'
  OBVIOUS
<1>1. CASE UNCHANGED Lists!vars
  BY <1>1 DEF Lists!vars, ListsInv, Lists!TypeOK, KeepsOf
<1>2. CASE Lists!Next
  <2>1. Lists!Ids \cup {Lists!NewId} \subseteq Nat /\ {1, 2} \subseteq Nat
    <3>1. requests \in Nat
      BY DEF ListsInv
    <3> QED
      BY <3>1 DEF Lists!Ids, Lists!NewId
  <2>2. ASSUME NEW r \in Slot, NEW u \in User,
               \/ Lists!createTask(r, u) \/ Lists!createDatabase(r,
                  u) \/ Lists!installModpack(r, u)
        PROVE  ListsInv'
    BY <2>2, ListsCreateInv
  <2>3. ASSUME NEW r \in Slot, NEW u \in User, NEW id \in Lists!Ids,
               \/ Lists!deleteTask(r, u, id) \/ Lists!toggleTask(r, u, id)
               \/ Lists!deleteDatabase(r, u, id) \/ Lists!deleteDashboard(r, u, id)
               \/ \E on \in BOOLEAN : Lists!patchTask(r, u, id, on) \/ Lists!putDashboard(r,
                  u, id, on)
        PROVE  ListsInv'
    BY <2>1, <2>3, ListsEditInv
  <2>4. ASSUME NEW r \in Slot, NEW u \in User, NEW id \in Lists!Ids \cup {Lists!NewId},
               \/ Lists!deleteTheme(r, u, id) \/ Lists!publishTheme(r, u, id)
               \/ Lists!saveTheme(r, u, id)
        PROVE  ListsInv'
    BY <2>1, <2>4, themesInv
  <2>5. ASSUME NEW r \in Slot, NEW u \in User, NEW id \in Lists!Ids \cup {Lists!NewId},
               Lists!createDashboard(r, u, id)
        PROVE  ListsInv'
    BY <2>1, <2>5, ListsCreateInv
  <2>6. ASSUME NEW r \in Slot, NEW u \in User, NEW id \in {1, 2},
               \/ \E on \in BOOLEAN : Lists!submitTranslation(r, u, id, on)
               \/ Lists!addTag(r, u, id)
        PROVE  ListsInv'
    BY <2>1, <2>6, submitTranslationInv, addTagInv
  <2>7. ASSUME NEW r \in Slot, NEW u \in User, NEW id \in {1, 2}, Lists!removeTag(r, u, id)
        PROVE  ListsInv'
    BY <2>1, <2>7, ListsEditInv
  <2>8. ASSUME NEW r \in Slot, Lists!Write(r) \/ Lists!Empty(r) \/ Lists!Fill(r) PROVE ListsInv'
    BY <2>8, ListsWriteInv
  <2>9. ASSUME NEW h \in hooks, Lists!Fetched(h) \/ Lists!Completed(h) PROVE ListsInv'
    BY <2>9, ListsHookInv
  <2> QED
    BY <1>2, <2>2, <2>3, <2>4, <2>5, <2>6, <2>7, <2>8, <2>9, ListsRestartInv DEF Lists!Next
<1> QED
  BY <1>1, <1>2

(***************************************************************************)
(* What a step may drop.                                                   *)
(***************************************************************************)
LEMMA ListsDropped == ListsInv /\ [Lists!Next]_Lists!vars => Lists!DropsOnlyStale
<1> SUFFICES ASSUME ListsInv, [Lists!Next]_Lists!vars,
                    NEW e \in Lists!Range(list) \ Lists!Range(list')
             PROVE  \/ \E r \in Slot : Lists!WrittenBy(r) /\ Lists!MayReplace(r, e)
                    \/ \E h \in hooks \ hooks' : e.id = h.id \/ e \notin Lists!Range(h.captured)
  BY DEF Lists!DropsOnlyStale
<1>1. list' # list
  OBVIOUS
<1>2. \/ \E r \in Slot : Lists!Write(r) \/ Lists!Fill(r)
      \/ \E h \in hooks : Lists!Fetched(h) \/ Lists!Completed(h)
  <2>1. Lists!Next
    BY <1>1 DEF Lists!vars
  <2>2. ASSUME NEW r \in Slot, NEW u \in User,
               \/ Lists!createTask(r, u) \/ Lists!createDatabase(r,
                  u) \/ Lists!installModpack(r, u)
        PROVE  FALSE
    BY <1>1, <2>2 DEF Lists!createTask, Lists!createDatabase, Lists!installModpack, Lists!Handle
  <2>3. ASSUME NEW r \in Slot, NEW u \in User, NEW id,
               \/ Lists!deleteTask(r, u, id) \/ Lists!toggleTask(r, u, id)
               \/ Lists!deleteDatabase(r, u, id) \/ Lists!deleteDashboard(r, u, id)
               \/ \E on \in BOOLEAN : Lists!patchTask(r, u, id, on) \/ Lists!putDashboard(r,
                  u, id, on)
        PROVE  FALSE
    BY <1>1, <2>3 DEF Lists!deleteTask, Lists!toggleTask, Lists!deleteDatabase,
       Lists!deleteDashboard, Lists!patchTask, Lists!putDashboard, Lists!Handle
  <2>4. ASSUME NEW r \in Slot, NEW u \in User, NEW id,
               \/ Lists!deleteTheme(r, u, id) \/ Lists!publishTheme(r, u, id)
               \/ Lists!saveTheme(r, u, id) \/ Lists!createDashboard(r, u, id)
        PROVE  FALSE
    BY <1>1, <2>4 DEF Lists!deleteTheme, Lists!publishTheme, Lists!saveTheme,
       Lists!createDashboard, Lists!Handle
  <2>5. ASSUME NEW r \in Slot, NEW u \in User, NEW id,
               \/ \E on \in BOOLEAN : Lists!submitTranslation(r, u, id, on)
               \/ Lists!addTag(r, u, id) \/ Lists!removeTag(r, u, id)
        PROVE  FALSE
    BY <1>1, <2>5 DEF Lists!submitTranslation, Lists!addTag, Lists!removeTag, Lists!Handle
  <2>6. ~Lists!Restart /\ \A r \in Slot : ~Lists!Empty(r)
    BY <1>1 DEF Lists!Restart, Lists!Empty
  <2> QED
    BY <2>1, <2>2, <2>3, <2>4, <2>5, <2>6 DEF Lists!Next
<1>3. ASSUME NEW r \in Slot, Lists!Write(r) \/ Lists!Fill(r)
      PROVE  Lists!WrittenBy(r) /\ Lists!MayReplace(r, e)
  <2>1. /\ req[r].at # "idle" /\ list' = req[r].edited /\ req' = [req EXCEPT ![r] = Lists!Idle]
    BY <1>1, <1>3 DEF Lists!Write, Lists!Fill
  <2>2. req \in [Slot -> {Lists!Idle} \cup Lists!Request]
    BY DEF ListsInv, Lists!TypeOK
  <2>3. Lists!WrittenBy(r)
    BY <2>1, <2>2 DEF Lists!WrittenBy, Lists!Idle
  <2>4. KeepsOf(req[r].read, req[r].edited, req[r].changes, req[r].user)
    BY <2>1, ListsTyped
  <2> QED
    BY <2>1, <2>3, <2>4 DEF KeepsOf, Lists!MayReplace
<1>4. ASSUME NEW h \in hooks, Lists!Fetched(h) \/ Lists!Completed(h)
      PROVE  h \in hooks \ hooks' /\ (e.id = h.id \/ e \notin Lists!Range(h.captured))
  <2>1. \E to \in {"failed", "downloading", "completed"} : list' = Lists!Marked(h, to)
    BY <1>1, <1>4 DEF Lists!Fetched, Lists!Completed, Lists!Store
  <2>2. h \in Lists!Hook
    BY ListsTyped
  <2>3. h # [h EXCEPT !.at = "timer", !.captured = Lists!Marked(h,
        "downloading")] \/ h.at # "fetch"
    BY <2>2 DEF Lists!Hook
  <2>4. h \notin hooks'
    BY <1>4, <2>3 DEF Lists!Fetched, Lists!Completed, Lists!Store
  <2> QED
    BY <2>1, <2>2, <2>4, MarkedKeeps
<1> QED
  BY <1>2, <1>3, <1>4

\* An entry of a JSON list goes away or changes only by a request told to do
\* that to it, or by one that had not read it as it is, or, a theme, by one of
\* another user (the list handlers of server/index.ts).
THEOREM OnlyStaleReadsLose == ServicesSpec => LostOnlyToStaleReads
<1> DEFINE I == focus = "lists" => ListsInv
<1>1. ServicesInit => I
  BY ListsStarts, ListsInitInv
<1>2. I /\ [ServicesNext]_<<focus, places>> => I'
  BY ListsGoes, ListsStepInv
<1>3. I /\ [ServicesNext]_<<focus, places>> =>
        [focus = "lists" => Lists!DropsOnlyStale]_<<focus, places>>
  BY ListsGoes, ListsDropped
<1> QED
  BY <1>1, <1>2, <1>3, PTL DEF ServicesSpec, LostOnlyToStaleReads

-----------------------------------------------------------------------------
(***************************************************************************)
(* The types of the deployments.                                           *)
(***************************************************************************)
FitsReq(q) ==
    q \in {Deploys!Idle} \cup Deploys!Gated \cup Deploys!Passed \/ Deploys!Writing(q)

StoredTyped ==
    /\ windows \subseteq Window /\ policy \in Deploys!Policy /\ signals \in Deploys!Signals
    /\ alerts \in [User -> SUBSET Deploys!AlertConfig]

DeploysTyped ==
    /\ StoredTyped
    /\ deployments \subseteq Deploys!Deployment /\ orchestrated \subseteq Nat
    /\ req = [r \in Slot |-> req[r]] /\ \A r \in Slot : FitsReq(req[r])
    /\ lasting \in [Slot -> SUBSET Deploys!Reason]
    /\ requests \in Nat

\* The values there are before any is set.
LEMMA EmptyTyped ==
    /\ Deploys!DEFAULT_FREEZE_POLICY \in Deploys!Policy
    /\ Deploys!EMPTY_SIGNALS \in Deploys!Signals
  BY DEF Deploys!DEFAULT_FREEZE_POLICY, Deploys!EMPTY_SIGNALS, Deploys!Policy, Deploys!Signals

\* What a body makes of a policy, and of the signals.
LEMMA PolicyWith ==
    ASSUME NEW body \in PolicyBody, NEW p \in Deploys!Policy
    PROVE  Deploys!With(p, body) \in Deploys!Policy
<1> DEFINE of == [f \in DOMAIN p |-> IF f \in DOMAIN body THEN body[f] ELSE p[f]]
           q == [enabled |-> of["enabled"], alerts |-> of["alerts"], floor |-> of["floor"],
                 quality |-> of["quality"], override |-> of["override"]]
<1>1. /\ DOMAIN p = {"enabled", "alerts", "floor", "quality", "override"}
      /\ p["floor"] \in {None} \cup Nat
      /\ p["enabled"] \in BOOLEAN /\ p["alerts"] \in BOOLEAN
      /\ p["quality"] \in BOOLEAN /\ p["override"] \in BOOLEAN
  BY DEF Deploys!Policy
<1>2. \A f \in DOMAIN body : body[f] \in IF f = "floor" THEN {None} \cup Nat ELSE BOOLEAN
  BY ServicesAssumption
<1>3. /\ of["floor"] \in {None} \cup Nat
      /\ of["enabled"] \in BOOLEAN /\ of["alerts"] \in BOOLEAN
      /\ of["quality"] \in BOOLEAN /\ of["override"] \in BOOLEAN
  BY <1>1, <1>2
<1>4. of = q
  BY <1>1
<1> HIDE DEF of
<1>5. q \in Deploys!Policy
  BY <1>3 DEF Deploys!Policy
<1> QED
  BY <1>4, <1>5 DEF Deploys!With, of

LEMMA SignalsWith ==
    ASSUME NEW body \in SignalsBody
    PROVE  Deploys!With(Deploys!EMPTY_SIGNALS, body) \in Deploys!Signals
<1> DEFINE p == Deploys!EMPTY_SIGNALS
           of == [f \in DOMAIN p |-> IF f \in DOMAIN body THEN body[f] ELSE p[f]]
           q == [budget |-> of["budget"], failed |-> of["failed"]]
<1>1. DOMAIN p = {"budget", "failed"} /\ p["budget"] = None /\ p["failed"] = None
  BY DEF Deploys!EMPTY_SIGNALS
<1>2. \A f \in DOMAIN body : body[f] \in {None} \cup Nat
  BY ServicesAssumption
<1> HIDE DEF p
<1>3. of["budget"] \in {None} \cup Nat /\ of["failed"] \in {None} \cup Nat
  BY <1>1, <1>2
<1>4. of = q
  BY <1>1
<1> HIDE DEF of
<1>5. q \in Deploys!Signals
  BY <1>3 DEF Deploys!Signals
<1> QED
  BY <1>4, <1>5 DEF Deploys!With, of, p

\* What there is to be in force.
LEMMA ReasonsTyped ==
    ASSUME NEW ws \in SUBSET Window, NEW p \in Deploys!Policy, NEW s \in Deploys!Signals,
           NEW counting \in SUBSET Deploys!AlertConfig, NEW env, NEW time
    PROVE  Deploys!Reasons(ws, p, s, counting, env, time) \subseteq Deploys!Reason
<1>1. ASSUME NEW w \in ws PROVE Deploys!WindowReason(w) \in Deploys!Reason
  BY ServicesAssumption DEF Deploys!WindowReason, Deploys!Reason
<1>2. /\ p.override \in BOOLEAN /\ p.floor \in {None} \cup Nat
      /\ s.budget \in {None} \cup Nat
  BY DEF Deploys!Policy, Deploys!Signals
<1>3. ASSUME NEW holds PROVE Deploys!Because("quality", None, holds, p) \subseteq Deploys!Reason
  BY <1>2 DEF Deploys!Because, Deploys!Reason
<1>4. Deploys!Because("budget", <<s.budget, p.floor>>, Deploys!Spent(p, s), p)
      \subseteq Deploys!Reason
  <2>1. CASE Deploys!Spent(p, s)
    <3>1. <<s.budget, p.floor>> \in Nat \X Nat
      BY <1>2, <2>1 DEF Deploys!Spent
    <3> QED
      BY <1>2, <2>1, <3>1 DEF Deploys!Because, Deploys!Reason
  <2>2. CASE ~Deploys!Spent(p, s)
    BY <2>2 DEF Deploys!Because
  <2> QED
    BY <2>1, <2>2
<1>5. ASSUME NEW config \in counting
      PROVE  Deploys!Because("alerts", config, p.alerts, p) \subseteq Deploys!Reason
  BY <1>2 DEF Deploys!Because, Deploys!Reason
<1> QED
  BY <1>1, <1>3, <1>4, <1>5, ReasonCases

\* What is at the gate, and beyond it.
LEMMA GatedFields ==
    ASSUME NEW q, FitsReq(q), q.at = "gate"
    PROVE  /\ GateShape(q) /\ q.id \in Nat /\ q.user \in User /\ q.env \in Environment
           /\ q.override \in BOOLEAN /\ q.blind \in BOOLEAN
           /\ q.windows \in {None} \cup SUBSET Window
           /\ q.policy \in {None} \cup Deploys!Policy
           /\ q.signals \in {None} \cup Deploys!Signals
           /\ q.configs \in {None} \cup SUBSET Deploys!AlertConfig
<1>1. q \in Deploys!Gated
  BY DEF FitsReq, Deploys!Idle, Deploys!Passed, Deploys!Writing
<1> QED
  BY <1>1 DEF Deploys!Gated, GateShape

LEMMA LastingTyped ==
    ASSUME DeploysTyped, StoredTyped', Deploys!Lasting, \A r \in Slot : FitsReq(req'[r])
    PROVE  lasting' \in [Slot -> SUBSET Deploys!Reason]
<1>1. ASSUME NEW r \in Slot PROVE lasting'[r] \subseteq Deploys!Reason
  <2>1. lasting[r] \subseteq Deploys!Reason
    BY DEF DeploysTyped
  <2>2. CASE req'[r].at = "gate"
    <3>1. req'[r].user \in User
      BY <2>2, GatedFields
    <3>2. alerts'[req'[r].user] \in SUBSET Deploys!AlertConfig
      BY <3>1 DEF StoredTyped
    <3>3. Deploys!Reasons(windows', policy', signals', alerts'[req'[r].user],
                          req'[r].env, now') \subseteq Deploys!Reason
      BY <3>2, ReasonsTyped DEF StoredTyped
    <3>4. lasting'[r] \in
             {lasting[r] \cap Deploys!Reasons(windows', policy', signals',
                                             alerts'[req'[r].user], req'[r].env, now'),
              Deploys!Reasons(windows', policy', signals', alerts'[req'[r].user],
                              req'[r].env, now')}
      BY <2>2 DEF Deploys!Lasting
    <3> QED
      BY <2>1, <3>3, <3>4
  <2>3. CASE req'[r].at # "gate"
    BY <2>1, <2>3 DEF Deploys!Lasting
  <2> QED
    BY <2>2, <2>3
<1>2. lasting' = [r \in Slot |-> lasting'[r]]
  BY DEF Deploys!Lasting
<1> QED
  BY <1>1, <1>2

LEMMA DeploysInitTyped == Deploys!Init => DeploysTyped
<1> SUFFICES ASSUME Deploys!Init PROVE DeploysTyped
  OBVIOUS
<1>1. /\ windows \subseteq Window /\ policy = Deploys!DEFAULT_FREEZE_POLICY
      /\ signals = Deploys!EMPTY_SIGNALS /\ alerts = [user \in User |-> {}] /\ deployments = {}
      /\ orchestrated = {} /\ req = [r \in Slot |-> Deploys!Idle]
      /\ lasting = [r \in Slot |-> {}] /\ requests = 0
  BY DEF Deploys!Init
<1>2. \A r \in Slot : FitsReq(req[r])
  BY <1>1 DEF FitsReq
<1> QED
  BY <1>1, <1>2, EmptyTyped DEF DeploysTyped, StoredTyped

\* A request goes on as fits.
LEMMA MovedTyped ==
    ASSUME DeploysTyped, NEW r \in Slot, NEW q, Deploys!Goto(r, q), FitsReq(q),
           StoredTyped', deployments' \subseteq Deploys!Deployment, orchestrated' \subseteq Nat,
           requests' \in Nat, Deploys!Lasting
    PROVE  DeploysTyped'
<1>1. /\ req' = [s \in Slot |-> req'[s]]
      /\ \A s \in Slot : req'[s] = IF s = r THEN q ELSE req[s]
  BY DEF DeploysTyped, Deploys!Goto
<1>2. \A s \in Slot : FitsReq(req'[s])
  BY <1>1 DEF DeploysTyped
<1> QED
  BY <1>1, <1>2, LastingTyped DEF DeploysTyped, FitsReq

LEMMA PassedFields ==
    ASSUME NEW q, FitsReq(q), q.at \in {"list", "forward"}
    PROVE  /\ PassShape(q) /\ q.entry \in Deploys!Deployment /\ q.env \in Environment
           /\ q.read \in SUBSET Deploys!Deployment /\ q.blind \in BOOLEAN
<1>1. q \in Deploys!Passed
  BY DEF FitsReq, Deploys!Idle, Deploys!Gated, Deploys!Writing
<1> QED
  BY <1>1 DEF Deploys!Passed, PassShape

LEMMA CreatedTyped ==
    ASSUME DeploysTyped, Deploys!Lasting, NEW r \in Slot, NEW user \in User,
           NEW env \in Environment, NEW dry \in BOOLEAN, NEW override \in BOOLEAN,
           Deploys!createDeployment(r, user, env, dry, override)
    PROVE  DeploysTyped'
<1> DEFINE
      listed == [at |-> "list", entry |-> Deploys!Entry(user, TRUE), env |-> env,
                 read |-> {}, blind |-> FALSE]
      gated == [at |-> "gate", id |-> requests + 1, user |-> user, env |-> env,
                override |-> override, windows |-> None, policy |-> None,
                signals |-> None, configs |-> None, blind |-> FALSE]
<1>1. /\ requests' = requests + 1 /\ requests + 1 \in Nat
      /\ UNCHANGED <<windows, policy, signals, alerts, deployments, orchestrated>>
  BY DEF Deploys!createDeployment, Deploys!Begin, Deploys!stored, DeploysTyped
<1>2. Deploys!Goto(r, listed) \/ Deploys!Goto(r, gated)
  BY DEF Deploys!createDeployment
<1>3. FitsReq(listed)
  <2>1. Deploys!Entry(user, TRUE) \in Deploys!Deployment
    BY <1>1 DEF Deploys!Entry, Deploys!Deployment
  <2> QED
    BY <2>1 DEF FitsReq, Deploys!Passed
<1>4. FitsReq(gated)
  BY <1>1 DEF FitsReq, Deploys!Gated
<1>5. StoredTyped' /\ deployments' \subseteq Deploys!Deployment /\ orchestrated' \subseteq Nat
  BY <1>1 DEF DeploysTyped, StoredTyped
<1> HIDE DEF listed, gated
<1> QED
  BY <1>1, <1>2, <1>3, <1>4, <1>5, MovedTyped

\* What one of the gate's reads leaves alone.
LEMMA ReadTyped ==
    ASSUME DeploysTyped, Deploys!Lasting, NEW r \in Slot, NEW field, NEW there, NEW empty,
           Deploys!ReadFor(r, field, there, empty)
    PROVE  /\ StoredTyped' /\ deployments' \subseteq Deploys!Deployment
           /\ orchestrated' \subseteq Nat /\ requests' \in Nat
           /\ req[r].at = "gate" /\ req = [s \in Slot |-> req[s]] /\ FitsReq(req[r])
  BY DEF Deploys!ReadFor, Deploys!stored, DeploysTyped, StoredTyped

LEMMA WindowsReadTyped ==
    ASSUME DeploysTyped, Deploys!Lasting, NEW r \in Slot, Deploys!getFreezeWindows(r)
    PROVE  DeploysTyped'
<1>1. Deploys!ReadFor(r, "windows", windows, {})
  BY DEF Deploys!getFreezeWindows
<1>2. PICK seen \in BOOLEAN :
          req' = [req EXCEPT ![r]["windows"] = IF seen THEN windows ELSE {},
                             ![r].blind = @ \/ ~seen]
  BY <1>1 DEF Deploys!ReadFor
<1> DEFINE read == IF seen THEN windows ELSE {}
           blind == req[r].blind \/ ~seen
           q == [req[r] EXCEPT !.windows = read, !.blind = blind]
<1>3. Deploys!Goto(r, q)
  BY <1>1, <1>2, ReadTyped DEF Deploys!Goto
<1>4. read \in SUBSET Window /\ blind \in BOOLEAN
  BY DEF DeploysTyped, StoredTyped
<1> HIDE DEF read, blind
<1>5. q = [at |-> "gate", id |-> req[r].id, user |-> req[r].user, env |-> req[r].env,
           override |-> req[r].override, windows |-> read,
           policy |-> req[r].policy, signals |-> req[r].signals,
           configs |-> req[r].configs, blind |-> blind]
  BY <1>1, ReadTyped, GatedFields, WindowsEdit
<1>6. FitsReq(q)
  BY <1>1, <1>4, <1>5, ReadTyped, GatedFields DEF FitsReq, Deploys!Gated
<1> HIDE DEF q
<1> QED
  BY <1>1, <1>3, <1>6, ReadTyped, MovedTyped

LEMMA PolicyReadTyped ==
    ASSUME DeploysTyped, Deploys!Lasting, NEW r \in Slot, Deploys!getFreezePolicy(r)
    PROVE  DeploysTyped'
<1>1. Deploys!ReadFor(r, "policy", policy, Deploys!DEFAULT_FREEZE_POLICY)
  BY DEF Deploys!getFreezePolicy
<1>2. PICK seen \in BOOLEAN :
          req' = [req EXCEPT ![r]["policy"] =
                                 IF seen THEN policy ELSE Deploys!DEFAULT_FREEZE_POLICY,
                             ![r].blind = @ \/ ~seen]
  BY <1>1 DEF Deploys!ReadFor
<1> DEFINE read == IF seen THEN policy ELSE Deploys!DEFAULT_FREEZE_POLICY
           blind == req[r].blind \/ ~seen
           q == [req[r] EXCEPT !.policy = read, !.blind = blind]
<1>3. Deploys!Goto(r, q)
  BY <1>1, <1>2, ReadTyped DEF Deploys!Goto
<1>4. read \in Deploys!Policy /\ blind \in BOOLEAN
  BY EmptyTyped DEF DeploysTyped, StoredTyped
<1> HIDE DEF read, blind
<1>5. q = [at |-> "gate", id |-> req[r].id, user |-> req[r].user, env |-> req[r].env,
           override |-> req[r].override, windows |-> req[r].windows,
           policy |-> read, signals |-> req[r].signals,
           configs |-> req[r].configs, blind |-> blind]
  BY <1>1, ReadTyped, GatedFields, PolicyEdit
<1>6. FitsReq(q)
  BY <1>1, <1>4, <1>5, ReadTyped, GatedFields DEF FitsReq, Deploys!Gated
<1> HIDE DEF q
<1> QED
  BY <1>1, <1>3, <1>6, ReadTyped, MovedTyped

LEMMA SignalsReadTyped ==
    ASSUME DeploysTyped, Deploys!Lasting, NEW r \in Slot, Deploys!getStoredFreezeSignals(r)
    PROVE  DeploysTyped'
<1>1. Deploys!ReadFor(r, "signals", signals, Deploys!EMPTY_SIGNALS)
  BY DEF Deploys!getStoredFreezeSignals
<1>2. PICK seen \in BOOLEAN :
          req' = [req EXCEPT ![r]["signals"] = IF seen THEN signals ELSE Deploys!EMPTY_SIGNALS,
                             ![r].blind = @ \/ ~seen]
  BY <1>1 DEF Deploys!ReadFor
<1> DEFINE read == IF seen THEN signals ELSE Deploys!EMPTY_SIGNALS
           blind == req[r].blind \/ ~seen
           q == [req[r] EXCEPT !.signals = read, !.blind = blind]
<1>3. Deploys!Goto(r, q)
  BY <1>1, <1>2, ReadTyped DEF Deploys!Goto
<1>4. read \in Deploys!Signals /\ blind \in BOOLEAN
  BY EmptyTyped DEF DeploysTyped, StoredTyped
<1> HIDE DEF read, blind
<1>5. q = [at |-> "gate", id |-> req[r].id, user |-> req[r].user, env |-> req[r].env,
           override |-> req[r].override, windows |-> req[r].windows,
           policy |-> req[r].policy, signals |-> read,
           configs |-> req[r].configs, blind |-> blind]
  BY <1>1, ReadTyped, GatedFields, SignalsEdit
<1>6. FitsReq(q)
  BY <1>1, <1>4, <1>5, ReadTyped, GatedFields DEF FitsReq, Deploys!Gated
<1> HIDE DEF q
<1> QED
  BY <1>1, <1>3, <1>6, ReadTyped, MovedTyped

LEMMA ConfigsReadTyped ==
    ASSUME DeploysTyped, Deploys!Lasting, NEW r \in Slot, Deploys!getAlertConfigs(r)
    PROVE  DeploysTyped'
<1>1. /\ StoredTyped' /\ deployments' \subseteq Deploys!Deployment
      /\ orchestrated' \subseteq Nat /\ requests' \in Nat
      /\ req[r].at = "gate" /\ req = [s \in Slot |-> req[s]] /\ FitsReq(req[r])
  BY DEF Deploys!getAlertConfigs, Deploys!AllRead, Deploys!stored, DeploysTyped, StoredTyped
<1>2. PICK seen \in BOOLEAN, others \in SUBSET ConfigsOf[req[r].user] :
          req' = [req EXCEPT ![r].configs = IF seen THEN alerts[req[r].user] \cup others ELSE {},
                             ![r].blind = @ \/ ~seen]
  BY DEF Deploys!getAlertConfigs
<1> DEFINE read == IF seen THEN alerts[req[r].user] \cup others ELSE {}
           blind == req[r].blind \/ ~seen
           q == [req[r] EXCEPT !.configs = read, !.blind = blind]
<1>3. Deploys!Goto(r, q)
  BY <1>1, <1>2 DEF Deploys!Goto
<1>4. read \in SUBSET Deploys!AlertConfig /\ blind \in BOOLEAN
  <2>1. req[r].user \in User
    BY <1>1, GatedFields
  <2>2. alerts[req[r].user] \subseteq Deploys!AlertConfig
    BY <2>1 DEF DeploysTyped, StoredTyped
  <2>3. others \subseteq Deploys!AlertConfig
    BY <2>1 DEF Deploys!AlertConfig
  <2> QED
    BY <2>2, <2>3
<1> HIDE DEF read, blind
<1>5. q = [at |-> "gate", id |-> req[r].id, user |-> req[r].user, env |-> req[r].env,
           override |-> req[r].override, windows |-> req[r].windows,
           policy |-> req[r].policy, signals |-> req[r].signals,
           configs |-> read, blind |-> blind]
  BY <1>1, GatedFields, ConfigsEdit
<1>6. FitsReq(q)
  BY <1>1, <1>4, <1>5, GatedFields DEF FitsReq, Deploys!Gated
<1> HIDE DEF q
<1> QED
  BY <1>1, <1>3, <1>6, MovedTyped

LEMMA EnforcedTyped ==
    ASSUME DeploysTyped, Deploys!Lasting, NEW r \in Slot, Deploys!enforceDeployFreeze(r)
    PROVE  DeploysTyped'
<1>1. /\ StoredTyped' /\ deployments' \subseteq Deploys!Deployment
      /\ orchestrated' \subseteq Nat /\ requests' \in Nat
      /\ req[r].at = "gate" /\ FitsReq(req[r])
  BY DEF Deploys!enforceDeployFreeze, Deploys!AllRead, Deploys!stored, DeploysTyped, StoredTyped
<1> DEFINE q(b) == [at |-> "list", read |-> {}, env |-> req[r].env,
                    entry |-> [Deploys!Entry(req[r].user, FALSE) EXCEPT !.id = req[r].id],
                    blind |-> b]
<1>2. \E counted \in BOOLEAN : \/ Deploys!Goto(r, Deploys!Idle)
                               \/ Deploys!Goto(r, q(req[r].blind \/ ~counted))
  BY DEF Deploys!enforceDeployFreeze
<1>3. ASSUME NEW b \in BOOLEAN PROVE FitsReq(q(b))
  <2>1. req[r].id \in Nat /\ req[r].user \in User /\ req[r].env \in Environment
    BY <1>1, GatedFields
  <2>2. [Deploys!Entry(req[r].user, FALSE) EXCEPT !.id = req[r].id] \in Deploys!Deployment
    BY <2>1 DEF Deploys!Entry, Deploys!Deployment
  <2> QED
    BY <2>1, <2>2 DEF FitsReq, Deploys!Passed
<1>4. FitsReq(Deploys!Idle)
  BY DEF FitsReq
<1> HIDE DEF q
<1>5. ASSUME NEW counted \in BOOLEAN, Deploys!Goto(r, q(req[r].blind \/ ~counted))
      PROVE  DeploysTyped'
  <2>1. FitsReq(q(req[r].blind \/ ~counted))
    <3>1. (req[r].blind \/ ~counted) \in BOOLEAN
      OBVIOUS
    <3> QED
      BY <1>3, <3>1
  <2> QED
    BY <1>1, <1>5, <2>1, MovedTyped
<1> QED
  BY <1>1, <1>2, <1>4, <1>5, MovedTyped

LEMMA ListedTyped ==
    ASSUME DeploysTyped, Deploys!Lasting, NEW r \in Slot, Deploys!getDeployments(r)
    PROVE  DeploysTyped'
<1>1. /\ StoredTyped' /\ deployments' \subseteq Deploys!Deployment
      /\ orchestrated' \subseteq Nat /\ requests' \in Nat
      /\ req[r].at = "list" /\ FitsReq(req[r]) /\ req = [s \in Slot |-> req[s]]
  BY DEF Deploys!getDeployments, Deploys!stored, DeploysTyped, StoredTyped
<1>2. CASE Deploys!Goto(r, Deploys!Idle)
  <2>1. FitsReq(Deploys!Idle)
    BY DEF FitsReq
  <2> QED
    BY <1>1, <1>2, <2>1, MovedTyped
<1>3. ASSUME NEW seen \in BOOLEAN,
             req' = [req EXCEPT ![r].at = "forward",
                                ![r].read = IF seen THEN deployments ELSE {}]
      PROVE  DeploysTyped'
  <2> DEFINE read == IF seen THEN deployments ELSE {}
             q == [req[r] EXCEPT !.at = "forward", !.read = read]
  <2>1. Deploys!Goto(r, q)
    BY <1>1, <1>3 DEF Deploys!Goto
  <2>2. read \in SUBSET Deploys!Deployment
    BY DEF DeploysTyped
  <2> HIDE DEF read
  <2>3. q = [at |-> "forward", entry |-> req[r].entry, env |-> req[r].env,
             read |-> read, blind |-> req[r].blind]
    BY <1>1, PassedFields, PassEdits
  <2>4. FitsReq(q)
    BY <1>1, <2>2, <2>3, PassedFields DEF FitsReq, Deploys!Passed
  <2> HIDE DEF q
  <2> QED
    BY <1>1, <2>1, <2>4, MovedTyped
<1> QED
  BY <1>2, <1>3 DEF Deploys!getDeployments

\* What is about to be written.
LEMMA WritingFits ==
    /\ \A v \in SUBSET Deploys!Deployment :
           FitsReq([at |-> "write", to |-> "deployments", value |-> v])
    /\ \A v \in SUBSET Window : FitsReq([at |-> "write", to |-> "windows", value |-> v])
    /\ \A v \in Deploys!Policy : FitsReq([at |-> "write", to |-> "policy", value |-> v])
    /\ FitsReq(Deploys!Idle)
  BY DEF FitsReq, Deploys!Writing

LEMMA ForwardedTyped ==
    ASSUME DeploysTyped, Deploys!Lasting, NEW r \in Slot,
           Deploys!forwardDeploymentToOrchestrator(r)
    PROVE  DeploysTyped'
<1>1. /\ StoredTyped' /\ deployments' \subseteq Deploys!Deployment /\ requests' \in Nat
      /\ req[r].at = "forward" /\ FitsReq(req[r]) /\ orchestrated \subseteq Nat
  BY DEF Deploys!forwardDeploymentToOrchestrator, Deploys!stored, DeploysTyped, StoredTyped
<1>2. PICK taken \in BOOLEAN, known \in BOOLEAN :
         /\ orchestrated' = orchestrated \cup (IF taken THEN {req[r].entry.id} ELSE {})
         /\ Deploys!Goto(r, [at |-> "write", to |-> "deployments",
              value |-> req[r].read \cup {[req[r].entry EXCEPT !.orchestration = known]}])
  <2>1. PICK taken \in (IF Forwarding THEN BOOLEAN ELSE {FALSE}) : \E known \in {FALSE, taken} :
         /\ orchestrated' = orchestrated \cup (IF taken THEN {req[r].entry.id} ELSE {})
         /\ Deploys!Goto(r, [at |-> "write", to |-> "deployments",
              value |-> req[r].read \cup {[req[r].entry EXCEPT !.orchestration = known]}])
    BY DEF Deploys!forwardDeploymentToOrchestrator
  <2>2. PICK known \in {FALSE, taken} :
         /\ orchestrated' = orchestrated \cup (IF taken THEN {req[r].entry.id} ELSE {})
         /\ Deploys!Goto(r, [at |-> "write", to |-> "deployments",
              value |-> req[r].read \cup {[req[r].entry EXCEPT !.orchestration = known]}])
    BY <2>1
  <2>3. taken \in BOOLEAN /\ known \in BOOLEAN
    OBVIOUS
  <2> QED
    BY <2>2, <2>3
<1>3. req[r].entry \in Deploys!Deployment /\ req[r].read \in SUBSET Deploys!Deployment
  BY <1>1, PassedFields
<1>4. [req[r].entry EXCEPT !.orchestration = known] \in Deploys!Deployment
      /\ req[r].entry.id \in Nat
  BY <1>3 DEF Deploys!Deployment
<1>5. FitsReq([at |-> "write", to |-> "deployments",
               value |-> req[r].read \cup {[req[r].entry EXCEPT !.orchestration = known]}])
  BY <1>3, <1>4, WritingFits
<1>6. orchestrated' \subseteq Nat
  BY <1>1, <1>2, <1>4
<1> QED
  BY <1>1, <1>2, <1>5, <1>6, MovedTyped

\* What the routes that begin a request leave alone.
LEMMA BegunTyped ==
    ASSUME DeploysTyped, NEW r \in Slot, Deploys!Begin(r),
           UNCHANGED <<Deploys!stored, deployments, orchestrated>>
    PROVE  /\ StoredTyped' /\ deployments' \subseteq Deploys!Deployment
           /\ orchestrated' \subseteq Nat /\ requests' \in Nat
  BY DEF Deploys!Begin, Deploys!stored, DeploysTyped, StoredTyped

LEMMA EditTyped ==
    ASSUME DeploysTyped, Deploys!Lasting, NEW r \in Slot, NEW user, NEW id,
           Deploys!deleteDeployment(r, user, id) \/ Deploys!toggleDeployment(r, user, id)
    PROVE  DeploysTyped'
<1>1. /\ StoredTyped' /\ deployments' \subseteq Deploys!Deployment
      /\ orchestrated' \subseteq Nat /\ requests' \in Nat
  BY BegunTyped DEF Deploys!deleteDeployment, Deploys!toggleDeployment, Deploys!Edit
<1>2. \A v \in SUBSET Deploys!Deployment :
         Deploys!Goto(r, [at |-> "write", to |-> "deployments", value |-> v]) => DeploysTyped'
  BY <1>1, WritingFits, MovedTyped
<1>3. Deploys!Goto(r, Deploys!Idle) => DeploysTyped'
  BY <1>1, WritingFits, MovedTyped
<1> DEFINE Read(seen) == IF seen THEN deployments ELSE {}
           Own(seen) == {d \in Read(seen) : d.id = id /\ d.user = user}
<1>4. \A seen \in BOOLEAN : Read(seen) \subseteq Deploys!Deployment
  BY DEF DeploysTyped
<1>5. CASE Deploys!deleteDeployment(r, user, id)
  <2>1. PICK seen \in BOOLEAN :
          \/ Deploys!Goto(r, Deploys!Idle)
          \/ Deploys!Goto(r, [at |-> "write", to |-> "deployments",
                value |-> (Read(seen) \ Own(seen)) \cup ({None : d \in Own(seen)} \ {None})])
    BY <1>5 DEF Deploys!deleteDeployment, Deploys!Edit
  <2>2. (Read(seen) \ Own(seen)) \cup ({None : d \in Own(seen)} \ {None})
        \subseteq Deploys!Deployment
    BY <1>4
  <2> QED
    BY <1>2, <1>3, <2>1, <2>2
<1>6. CASE Deploys!toggleDeployment(r, user, id)
  <2> DEFINE Toggled(seen) == {[d EXCEPT !.enabled = ~d.enabled] : d \in Own(seen)}
  <2>1. PICK seen \in BOOLEAN :
          \/ Deploys!Goto(r, Deploys!Idle)
          \/ Deploys!Goto(r, [at |-> "write", to |-> "deployments",
                value |-> (Read(seen) \ Own(seen)) \cup (Toggled(seen) \ {None})])
    BY <1>6 DEF Deploys!toggleDeployment, Deploys!Edit
  <2>2. Toggled(seen) \subseteq Deploys!Deployment
    <3>1. \A d \in Deploys!Deployment : [d EXCEPT !.enabled = ~d.enabled] \in Deploys!Deployment
      BY DEF Deploys!Deployment
    <3> QED
      BY <1>4, <3>1
  <2>3. (Read(seen) \ Own(seen)) \cup (Toggled(seen) \ {None}) \subseteq Deploys!Deployment
    BY <1>4, <2>2
  <2> HIDE DEF Toggled, Read, Own
  <2> QED
    BY <1>2, <1>3, <2>1, <2>3
<1> QED
  BY <1>5, <1>6

LEMMA AdminTyped ==
    ASSUME DeploysTyped, Deploys!Lasting, NEW r \in Slot,
           \/ \E w \in Window : Deploys!createWindow(r, w) \/ Deploys!deleteWindow(r, w)
           \/ \E body \in PolicyBody : Deploys!putPolicy(r, body)
    PROVE  DeploysTyped'
<1>1. /\ StoredTyped' /\ deployments' \subseteq Deploys!Deployment
      /\ orchestrated' \subseteq Nat /\ requests' \in Nat
  BY BegunTyped
     DEF Deploys!createWindow, Deploys!deleteWindow, Deploys!putPolicy, Deploys!ReadThenWrite
<1>2. \A v \in SUBSET Window :
         Deploys!Goto(r, [at |-> "write", to |-> "windows", value |-> v]) => DeploysTyped'
  BY <1>1, WritingFits, MovedTyped
<1>3. \A v \in Deploys!Policy :
         Deploys!Goto(r, [at |-> "write", to |-> "policy", value |-> v]) => DeploysTyped'
  BY <1>1, WritingFits, MovedTyped
<1>4. Deploys!Goto(r, Deploys!Idle) => DeploysTyped'
  BY <1>1, WritingFits, MovedTyped
<1> DEFINE Read(seen) == IF seen THEN windows ELSE {}
<1>5. \A seen \in BOOLEAN : Read(seen) \subseteq Window
  BY DEF DeploysTyped, StoredTyped
<1>6. ASSUME NEW w \in Window, Deploys!createWindow(r, w) PROVE DeploysTyped'
  <2>1. PICK seen \in BOOLEAN :
          \/ Deploys!Goto(r, Deploys!Idle)
          \/ Deploys!Goto(r, [at |-> "write", to |-> "windows", value |-> Read(seen) \cup {w}])
    BY <1>6 DEF Deploys!createWindow, Deploys!ReadThenWrite
  <2> HIDE DEF Read
  <2> QED
    BY <1>2, <1>4, <1>5, <2>1
<1>7. ASSUME NEW w \in Window, Deploys!deleteWindow(r, w) PROVE DeploysTyped'
  <2>1. PICK seen \in BOOLEAN :
          \/ Deploys!Goto(r, Deploys!Idle)
          \/ Deploys!Goto(r, [at |-> "write", to |-> "windows", value |-> Read(seen) \ {w}])
    <3>1. PICK seen \in BOOLEAN :
            LET edited == IF w \in Read(seen) THEN Read(seen) \ {w} ELSE None
            IN  Deploys!Goto(r, IF edited = None THEN Deploys!Idle
                                ELSE [at |-> "write", to |-> "windows", value |-> edited])
      BY <1>7 DEF Deploys!deleteWindow, Deploys!ReadThenWrite
    <3> HIDE DEF Read
    <3> QED
      BY <3>1
  <2> HIDE DEF Read
  <2> QED
    BY <1>2, <1>4, <1>5, <2>1
<1>8. ASSUME NEW body \in PolicyBody, Deploys!putPolicy(r, body) PROVE DeploysTyped'
  <2> DEFINE Was(seen) == IF seen THEN policy ELSE Deploys!DEFAULT_FREEZE_POLICY
  <2>1. PICK seen \in BOOLEAN :
          \/ Deploys!Goto(r, Deploys!Idle)
          \/ Deploys!Goto(r, [at |-> "write", to |-> "policy",
                              value |-> Deploys!With(Was(seen), body)])
    BY <1>8 DEF Deploys!putPolicy, Deploys!ReadThenWrite
  <2>2. Was(seen) \in Deploys!Policy
    BY EmptyTyped DEF DeploysTyped, StoredTyped
  <2> HIDE DEF Was
  <2> QED
    BY <1>3, <1>4, <2>1, <2>2, PolicyWith
<1> QED
  BY <1>6, <1>7, <1>8

LEMMA UpsertTyped ==
    ASSUME DeploysTyped, Deploys!Lasting, NEW r \in Slot, Deploys!setSharedConfig(r)
    PROVE  DeploysTyped'
<1> DEFINE To(name, value) == IF req[r].to = name THEN req[r].value ELSE value
<1>1. /\ Deploys!Goto(r, Deploys!Idle) /\ UNCHANGED <<signals, alerts, orchestrated, requests>>
      /\ \/ /\ windows' = To("windows", windows) /\ policy' = To("policy", policy)
            /\ deployments' = To("deployments", deployments)
         \/ UNCHANGED <<windows, policy, deployments>>
  BY DEF Deploys!setSharedConfig
<1>2. Deploys!Writing(req[r])
  BY DEF Deploys!setSharedConfig, DeploysTyped, FitsReq, Deploys!Idle, Deploys!Gated,
         Deploys!Passed
<1>3. /\ windows \subseteq Window /\ policy \in Deploys!Policy
      /\ deployments \subseteq Deploys!Deployment
  BY DEF DeploysTyped, StoredTyped
<1>4. /\ To("windows", windows) \subseteq Window /\ To("policy", policy) \in Deploys!Policy
      /\ To("deployments", deployments) \subseteq Deploys!Deployment
  BY <1>2, <1>3 DEF Deploys!Writing
<1> HIDE DEF To
<1>5. /\ StoredTyped' /\ deployments' \subseteq Deploys!Deployment
      /\ orchestrated' \subseteq Nat /\ requests' \in Nat
  BY <1>1, <1>3, <1>4 DEF DeploysTyped, StoredTyped
<1> QED
  BY <1>1, <1>5, WritingFits, MovedTyped

\* Nothing is asked.
LEMMA QuietTyped ==
    ASSUME DeploysTyped, Deploys!Lasting, StoredTyped',
           UNCHANGED <<req, deployments, orchestrated>>, requests' \in Nat
    PROVE  DeploysTyped'
<1>1. \A r \in Slot : FitsReq(req'[r])
  BY DEF DeploysTyped
<1> QED
  BY <1>1, LastingTyped DEF DeploysTyped, FitsReq

LEMMA DeploysStepTyped == ASSUME DeploysTyped, [Deploys!Next]_Deploys!vars PROVE DeploysTyped'
<1>1. CASE UNCHANGED Deploys!vars
  <2>1. /\ UNCHANGED <<windows, policy, signals, alerts, deployments, orchestrated, req,
                       lasting, requests>>
    BY <1>1 DEF Deploys!vars, Deploys!stored
  <2>2. \A r \in Slot : FitsReq(req[r])'
    BY <2>1 DEF DeploysTyped, FitsReq
  <2> QED
    BY <2>1, <2>2 DEF DeploysTyped, StoredTyped
<1>2. CASE Deploys!Next
  <2>1. Deploys!Lasting
    BY <1>2 DEF Deploys!Next
  <2>2. ASSUME NEW r \in Slot, NEW body \in SignalsBody, Deploys!putSignals(r, body)
        PROVE  DeploysTyped'
    <3>1. signals' \in {signals, Deploys!With(Deploys!EMPTY_SIGNALS, body)}
          /\ UNCHANGED <<windows, policy, alerts, deployments, orchestrated, req>>
      BY <2>2 DEF Deploys!putSignals
    <3>2. requests' \in Nat
      BY <2>2 DEF Deploys!putSignals, Deploys!Begin, DeploysTyped
    <3>3. StoredTyped'
      BY <3>1, SignalsWith DEF DeploysTyped, StoredTyped
    <3> QED
      BY <2>1, <3>1, <3>2, <3>3, QuietTyped
  <2>3. ASSUME NEW user \in User, NEW config \in ConfigsOf[user], Deploys!Alerted(user, config)
        PROVE  DeploysTyped'
    <3>1. config \in Deploys!AlertConfig
      BY DEF Deploys!AlertConfig
    <3>2. alerts \in [User -> SUBSET Deploys!AlertConfig]
      BY DEF DeploysTyped, StoredTyped
    <3>3. alerts' \in [User -> SUBSET Deploys!AlertConfig]
      BY <2>3, <3>1, <3>2 DEF Deploys!Alerted
    <3>4. StoredTyped' /\ UNCHANGED <<req, deployments, orchestrated>> /\ requests' \in Nat
      BY <2>3, <3>3 DEF Deploys!Alerted, DeploysTyped, StoredTyped
    <3> QED
      BY <2>1, <3>4, QuietTyped
  <2>4. CASE Deploys!Tick
    <3>1. StoredTyped' /\ UNCHANGED <<req, deployments, orchestrated>> /\ requests' \in Nat
      BY <2>4 DEF Deploys!Tick, Deploys!stored, DeploysTyped, StoredTyped
    <3> QED
      BY <2>1, <3>1, QuietTyped
  <2> QED
    BY <1>2, <2>1, <2>2, <2>3, <2>4, CreatedTyped, WindowsReadTyped, PolicyReadTyped,
       SignalsReadTyped, ConfigsReadTyped, EnforcedTyped, ListedTyped, ForwardedTyped, EditTyped, AdminTyped,
       UpsertTyped DEF Deploys!Next
<1> QED
  BY <1>1, <1>2

LEMMA DeploysTypesHold == DeploysTyped => Deploys!TypeOK
  BY DEF DeploysTyped, StoredTyped, FitsReq, Deploys!TypeOK

-----------------------------------------------------------------------------
(***************************************************************************)
(* The types of the flag and of who follows it.                            *)
(***************************************************************************)
FlagRows == flag \in {None} \cup Flags!Flag /\ rule \in {None} \cup Flags!GivenRule

Asks(q) == q.at \in {"select", "upsert"} => q.rule \in Rule

Copies ==
    /\ cache \subseteq Flags!Value /\ view \in BOOLEAN /\ kept \in Flags!Value
    /\ fetches \subseteq Flags!Reading

FlagsTyped ==
    FlagRows /\ registered \in BOOLEAN /\ (\A r \in Slot : Asks(req[r])) /\ Copies

LEMMA FlagsInitTyped == Flags!Init => FlagsTyped
<1> SUFFICES ASSUME Flags!Init PROVE FlagsTyped
  OBVIOUS
<1>1. /\ flag \in {None, [active |-> TRUE, default |-> FALSE, expired |-> FALSE]}
      /\ rule = None /\ registered \in BOOLEAN /\ req = [r \in Slot |-> Flags!Idle]
      /\ cache \in {{}, {TRUE}} /\ view = FALSE /\ kept = None /\ fetches = {}
  BY DEF Flags!Init, Flags!Fallback
<1>2. FlagRows
  <2>1. [active |-> TRUE, default |-> FALSE, expired |-> FALSE] \in Flags!Flag
    BY DEF Flags!Flag
  <2> QED
    BY <1>1, <2>1 DEF FlagRows
<1>3. \A r \in Slot : Asks(req[r])
  BY <1>1 DEF Asks, Flags!Idle
<1>4. Copies
  BY <1>1 DEF Copies, Flags!Value
<1> QED
  BY <1>1, <1>2, <1>3, <1>4 DEF FlagsTyped

\* What is given is a rule, and what is evaluated a value.
LEMMA RulesAreGiven == Rule \subseteq Flags!GivenRule
  BY ServicesAssumption DEF Flags!GivenRule, Flags!Follower

LEMMA EvaluatedTyped ==
    ASSUME NEW f \in {None} \cup Flags!Flag, NEW given, registered \in BOOLEAN
    PROVE  Flags!Evaluated(f, given) \in Flags!Value
<1>1. ASSUME f # None PROVE Flags!evaluateFlag(f, given) \in BOOLEAN
  BY <1>1 DEF Flags!evaluateFlag, Flags!Flag
<1> QED
  BY <1>1 DEF Flags!Evaluated, Flags!Value

LEMMA ShownTyped == \A v \in Flags!Value : Flags!Shown(v) \in BOOLEAN
  BY DEF Flags!Value, Flags!Shown, Flags!Fallback

\* The rows change, or not, and a request goes on.
LEMMA RowsTyped ==
    ASSUME FlagsInv, FlagsTyped, NEW r \in Slot, NEW next, Asks(next),
           Flags!Goto(r, next) \/ UNCHANGED req,
           \/ UNCHANGED <<flag, rule>>
           \/ \E f \in {None} \cup Flags!Flag, given \in {None} \cup Flags!GivenRule :
                  flag' = f /\ rule' = given,
           UNCHANGED <<registered, cache, view, kept, fetches>>
    PROVE  FlagsTyped'
<1>1. \A s \in Slot : req'[s] \in {req[s], next}
  BY DEF FlagsInv, Flags!Goto
<1>2. \A s \in Slot : Asks(req'[s])
  BY <1>1 DEF FlagsTyped
<1>3. FlagRows'
  BY DEF FlagsTyped, FlagRows
<1>4. Copies'
  BY DEF FlagsTyped, Copies
<1> QED
  BY <1>2, <1>3, <1>4 DEF FlagsTyped, Asks

LEMMA RequestsTyped ==
    ASSUME FlagsInv, FlagsTyped, NEW r \in Slot,
           \/ \E default \in BOOLEAN, given \in Rule \cup {None} :
                  Flags!createFlag(r, default, given)
           \/ \E given \in Rule : Flags!patchRule(r, given)
           \/ \E active \in BOOLEAN : Flags!patchFlag(r, active)
           \/ Flags!kill(r)
           \/ Flags!SelectRule(r) \/ Flags!UpsertRule(r) \/ Flags!Nudge(r)
    PROVE  FlagsTyped'
<1>1. UNCHANGED <<registered, cache, view, kept, fetches>>
  BY DEF Flags!createFlag, Flags!patchRule, Flags!patchFlag, Flags!kill, Flags!SelectRule,
         Flags!UpsertRule, Flags!Nudge, Flags!Written, Flags!database, Flags!browser
<1>2. Asks(Flags!Idle) /\ Asks([at |-> "nudge"])
  BY DEF Asks, Flags!Idle
<1>3. \A given \in Rule : Asks([at |-> "select", rule |-> given])
  BY DEF Asks
<1>4. FlagRows
  BY DEF FlagsTyped
<1>5. ASSUME NEW default \in BOOLEAN, NEW given \in Rule \cup {None},
             Flags!createFlag(r, default, given)
      PROVE  FlagsTyped'
  <2> DEFINE fresh == [active |-> TRUE, default |-> default, expired |-> FALSE]
             next == IF given = None THEN [at |-> "nudge"]
                     ELSE [at |-> "select", rule |-> given]
  <2>1. fresh \in Flags!Flag
    BY DEF Flags!Flag
  <2>2. Asks(next)
    BY <1>2, <1>3
  <2>3. /\ Flags!Goto(r, next) \/ UNCHANGED req
        /\ UNCHANGED <<flag, rule>> \/ (flag' = fresh /\ rule' = None)
    BY <1>5 DEF Flags!createFlag, Flags!Written, Flags!database
  <2> HIDE DEF fresh, next
  <2> QED
    BY <1>1, <2>1, <2>2, <2>3, RowsTyped
<1>6. ASSUME NEW given \in Rule, Flags!patchRule(r, given) PROVE FlagsTyped'
  <2>1. Flags!Goto(r, [at |-> "select", rule |-> given]) /\ UNCHANGED <<flag, rule>>
    BY <1>6 DEF Flags!patchRule, Flags!database
  <2> QED
    BY <1>1, <1>3, <2>1, RowsTyped
<1>7. ASSUME NEW active \in BOOLEAN, Flags!patchFlag(r, active) PROVE FlagsTyped'
  <2> DEFINE f == IF flag = None THEN None ELSE [flag EXCEPT !.active = active]
  <2>1. f \in {None} \cup Flags!Flag
    BY <1>4 DEF FlagRows, Flags!Flag
  <2>2. /\ Flags!Goto(r, [at |-> "nudge"]) \/ UNCHANGED req
        /\ UNCHANGED <<flag, rule>> \/ (flag' = f /\ rule' = rule)
    BY <1>7 DEF Flags!patchFlag, Flags!Written, Flags!database
  <2> HIDE DEF f
  <2>3. rule \in {None} \cup Flags!GivenRule
    BY <1>4 DEF FlagRows
  <2> QED
    BY <1>1, <1>2, <2>1, <2>2, <2>3, RowsTyped
<1>8. ASSUME Flags!kill(r) PROVE FlagsTyped'
  <2> DEFINE given == IF rule = None THEN None
                      ELSE [rule EXCEPT !.enabled = FALSE, !.rollout = 0]
  <2>1. given \in {None} \cup Flags!GivenRule
    <3>1. ASSUME NEW known \in Flags!GivenRule
          PROVE  [known EXCEPT !.enabled = FALSE, !.rollout = 0] \in Flags!GivenRule
      <4> DEFINE off == [known EXCEPT !.enabled = FALSE]
      <4>1. off \in Flags!GivenRule
        BY DEF Flags!GivenRule
      <4> HIDE DEF off
      <4>2. [off EXCEPT !.rollout = 0] \in Flags!GivenRule
        BY <4>1 DEF Flags!GivenRule
      <4> QED
        BY <4>2 DEF off
    <3> QED
      BY <1>4, <3>1 DEF FlagRows
  <2>2. /\ Flags!Goto(r, [at |-> "nudge"])
        /\ UNCHANGED <<flag, rule>> \/ (flag' = flag /\ rule' = given)
    BY <1>8 DEF Flags!kill, Flags!Written, Flags!database
  <2> HIDE DEF given
  <2>3. flag \in {None} \cup Flags!Flag
    BY <1>4 DEF FlagRows
  <2> QED
    BY <1>1, <1>2, <2>1, <2>2, <2>3, RowsTyped
<1>9. ASSUME Flags!SelectRule(r) PROVE FlagsTyped'
  <2>1. PICK b \in BOOLEAN :
          Flags!Goto(r, [at |-> "upsert", rule |-> req[r].rule, existing |-> ~b /\ rule # None])
    BY <1>9 DEF Flags!SelectRule
  <2> DEFINE next == [at |-> "upsert", rule |-> req[r].rule, existing |-> ~b /\ rule # None]
  <2>2. req[r].at = "select" /\ UNCHANGED <<flag, rule>>
    BY <1>9 DEF Flags!SelectRule, Flags!database
  <2>3. Asks(next)
    BY <2>2 DEF FlagsTyped, Asks
  <2>4. Flags!Goto(r, next)
    BY <2>1
  <2> HIDE DEF next
  <2> QED
    BY <1>1, <2>2, <2>3, <2>4, RowsTyped
<1>10. ASSUME Flags!UpsertRule(r) PROVE FlagsTyped'
  <2>1. req[r].rule \in Flags!GivenRule
    BY <1>10, RulesAreGiven DEF Flags!UpsertRule, FlagsTyped, Asks
  <2>2. /\ Flags!Goto(r, [at |-> "nudge"]) \/ Flags!Goto(r, Flags!Idle)
        /\ UNCHANGED <<flag, rule>> \/ (flag' = flag /\ rule' = req[r].rule)
    BY <1>10 DEF Flags!UpsertRule, Flags!Written, Flags!database
  <2>3. flag \in {None} \cup Flags!Flag
    BY <1>4 DEF FlagRows
  <2> QED
    BY <1>1, <1>2, <2>1, <2>2, <2>3, RowsTyped
<1>11. ASSUME Flags!Nudge(r) PROVE FlagsTyped'
  <2>1. Flags!Goto(r, Flags!Idle) /\ UNCHANGED <<flag, rule>>
    BY <1>11 DEF Flags!Nudge, Flags!database
  <2> QED
    BY <1>1, <1>2, <2>1, RowsTyped
<1> QED
  BY <1>5, <1>6, <1>7, <1>8, <1>9, <1>10, <1>11

\* What a fetch becomes.
LEMMA ReadingTyped ==
    ASSUME FlagsInv, FlagsTyped, NEW f \in fetches,
           Flags!EvaluateFlags(f) \/ Flags!EvaluateRules(f)
    PROVE  fetches' \subseteq Flags!Reading
<1>1. f \in Flags!Reading /\ f.n \in Nat /\ fetches \subseteq Flags!Reading
  BY DEF FlagsTyped, Copies, Flags!Reading
<1>2. ASSUME Flags!EvaluateFlags(f) PROVE fetches' \subseteq Flags!Reading
  <2>1. PICK seen \in BOOLEAN :
          fetches' = (fetches \ {f}) \cup
              {[n |-> f.n, at |-> "rules", since |-> IF seen THEN changes ELSE None,
                flag |-> IF seen THEN flag ELSE None]}
    BY <1>2 DEF Flags!EvaluateFlags
  <2>2. /\ (IF seen THEN changes ELSE None) \in Nat \cup {None}
        /\ (IF seen THEN flag ELSE None) \in Flags!Flag \cup {None}
    BY DEF FlagsInv, FlagsTyped, FlagRows
  <2> QED
    BY <1>1, <2>1, <2>2 DEF Flags!Reading
<1>3. ASSUME Flags!EvaluateRules(f) PROVE fetches' \subseteq Flags!Reading
  <2>1. PICK seen \in BOOLEAN :
          fetches' = (fetches \ {f}) \cup
              {[n |-> f.n, at |-> "answer", since |-> IF seen THEN f.since ELSE None,
                value |-> Flags!Evaluated(f.flag, IF seen THEN rule ELSE None)]}
    BY <1>3 DEF Flags!EvaluateRules
  <2>2. f.flag \in {None} \cup Flags!Flag /\ f.since \in Nat \cup {None}
    BY <1>1, <1>3 DEF Flags!EvaluateRules, Flags!Reading
  <2>3. Flags!Evaluated(f.flag, IF seen THEN rule ELSE None) \in Flags!Value
    BY <2>2, EvaluatedTyped DEF FlagsTyped
  <2>4. (IF seen THEN f.since ELSE None) \in Nat \cup {None}
    BY <2>2
  <2> QED
    BY <1>1, <2>1, <2>3, <2>4 DEF Flags!Reading
<1> QED
  BY <1>2, <1>3

LEMMA StartTyped ==
    ASSUME FlagsTyped, Flags!StartFetch \/ UNCHANGED fetches
    PROVE  fetches' \subseteq Flags!Reading
<1>1. fetches \subseteq Flags!Reading
  BY DEF FlagsTyped, Copies
<1>2. \A n \in 1..MaxFetches : Flags!Fetch(n) \in Flags!Reading
  <2>1. MaxFetches \in Nat
    BY ServicesAssumption
  <2>2. ASSUME NEW n \in Nat PROVE [n |-> n, at |-> "flags"] \in [n : Nat, at : {"flags"}]
    OBVIOUS
  <2> QED
    BY <2>1, <2>2 DEF Flags!Fetch, Flags!Reading
<1> QED
  BY <1>1, <1>2 DEF Flags!StartFetch

\* The rows and the requests are left alone, and a follower changes its copies.
LEMMA FollowerTyped ==
    ASSUME FlagsTyped, UNCHANGED <<flag, rule, registered, req>>,
           fetches' \subseteq Flags!Reading,
           cache' \subseteq Flags!Value, view' \in BOOLEAN, kept' \in Flags!Value
    PROVE  FlagsTyped'
  BY DEF FlagsTyped, FlagRows, Asks, Copies

LEMMA FlagsStepTyped ==
    ASSUME FlagsInv, FlagsTyped, [Flags!Next]_Flags!vars PROVE FlagsTyped'
<1>1. /\ cache \subseteq Flags!Value /\ view \in BOOLEAN /\ kept \in Flags!Value
      /\ fetches \subseteq Flags!Reading
  BY DEF FlagsTyped, Copies
<1>2. CASE UNCHANGED Flags!vars
  <2>1. UNCHANGED <<registered, flag, rule, req, cache, view, kept, fetches>>
    BY <1>2 DEF Flags!vars, Flags!database, Flags!browser
  <2> QED
    BY <1>1, <2>1, FollowerTyped
<1>3. CASE Flags!Expire
  <2>1. /\ flag # None /\ flag' = [flag EXCEPT !.expired = TRUE] /\ rule' = rule
        /\ UNCHANGED <<registered, req, cache, view, kept, fetches>>
    BY <1>3 DEF Flags!Expire, Flags!Written
  <2>2. FlagRows'
    BY <2>1 DEF FlagsTyped, FlagRows, Flags!Flag
  <2> QED
    BY <2>1, <2>2 DEF FlagsTyped, Asks, Copies
<1>4. ASSUME NEW f \in fetches, Flags!EvaluateFlags(f) \/ Flags!EvaluateRules(f)
      PROVE  FlagsTyped'
  <2>1. UNCHANGED <<registered, flag, rule, req, cache, view, kept>>
    BY <1>4 DEF Flags!EvaluateFlags, Flags!EvaluateRules, Flags!database, Flags!browser
  <2> QED
    BY <1>1, <1>4, <2>1, ReadingTyped, FollowerTyped
<1>5. ASSUME NEW f \in fetches, Flags!Answer(f) PROVE FlagsTyped'
  <2>1. f.value \in Flags!Value
    BY <1>1, <1>5 DEF Flags!Answer, Flags!Reading
  <2>2. UNCHANGED <<registered, flag, rule, req>> /\ fetches' = fetches \ {f}
    BY <1>5 DEF Flags!Answer, Flags!database
  <2>3. /\ cache' \in {cache, {f.value}} /\ kept' \in {kept, f.value}
    BY <1>5 DEF Flags!Answer
  <2>4. view' = view \/ view' = Flags!Shown(f.value)
    BY <1>5 DEF Flags!Answer
  <2>5. view' \in BOOLEAN
    BY <1>1, <2>1, <2>4, ShownTyped
  <2> QED
    BY <1>1, <2>1, <2>2, <2>3, <2>5, FollowerTyped
<1>6. ASSUME NEW f \in fetches, Flags!FetchFails(f) PROVE FlagsTyped'
  <2>1. /\ UNCHANGED <<registered, flag, rule, req, cache, view, kept>>
        /\ fetches' = fetches \ {f}
    BY <1>6 DEF Flags!FetchFails, Flags!database
  <2> QED
    BY <1>1, <2>1, FollowerTyped
<1>7. CASE Flags!Mount
  <2> DEFINE old == CHOOSE v \in cache : TRUE
  <2>1. /\ UNCHANGED <<registered, flag, rule, req, cache, kept>>
        /\ Flags!StartFetch \/ UNCHANGED fetches
        /\ view' = FALSE \/ (cache # {} /\ view' = Flags!Shown(old))
    BY <1>7 DEF Flags!Mount, Flags!database, Flags!Fallback
  <2>2. cache # {} => old \in cache
    BY Zenon
  <2> HIDE DEF old
  <2>3. view' \in BOOLEAN
    BY <1>1, <2>1, <2>2, ShownTyped
  <2> QED
    BY <1>1, <2>1, <2>3, StartTyped, FollowerTyped
<1>8. CASE Flags!Unmount \/ Flags!SocketCloses
  <2>1. UNCHANGED <<registered, flag, rule, req, cache, view, kept, fetches>>
    BY <1>8 DEF Flags!Unmount, Flags!SocketCloses, Flags!database
  <2> QED
    BY <1>1, <2>1, FollowerTyped
<1>9. CASE Flags!onChanged
  <2>1. /\ UNCHANGED <<registered, flag, rule, req, view, kept>> /\ cache' \in {cache, {}}
        /\ Flags!StartFetch \/ UNCHANGED fetches
    BY <1>9 DEF Flags!onChanged, Flags!database
  <2> QED
    BY <1>1, <2>1, StartTyped, FollowerTyped
<1>10. CASE Flags!refresh
  <2>1. /\ UNCHANGED <<registered, flag, rule, req, cache, view, kept>> /\ Flags!StartFetch
    BY <1>10 DEF Flags!refresh, Flags!database, Flags!browser
  <2> QED
    BY <1>1, <2>1, StartTyped, FollowerTyped
<1> QED
  BY <1>2, <1>3, <1>4, <1>5, <1>6, <1>7, <1>8, <1>9, <1>10, RequestsTyped DEF Flags!Next

LEMMA FlagsTypesHold == FlagsInv /\ FlagsTyped => Flags!TypeOK
  BY DEF FlagsInv, FlagsTyped, FlagRows, Copies, Flags!TypeOK

-----------------------------------------------------------------------------
(***************************************************************************)
(* The types of the advisor's state.                                       *)
(***************************************************************************)
LEMMA AdviceStarts == ServicesInit /\ focus = "advice" => Advice!Init
  BY DEF ServicesInit, SettingsInit, ListsInit, DeploysInit, SetupInit,
         AppsInit, SecretsInit, AuditInit, FlagsInit, SharedInit, TasksInit,
         WatchInit, TicketsInit, CommandsInit, AdviceInit, ViewsInit, DutyInit,
         FleetInit, GateInit

LEMMA AdviceGoes ==
    [ServicesNext]_<<focus, places>> =>
        UNCHANGED focus /\ (focus = "advice" => [Advice!Next]_Advice!vars)
  BY DEF ServicesNext, SettingsStep, ListsStep, DeploysStep, SetupStep,
         AppsStep, SecretsStep, AuditStep, FlagsStep, SharedStep, TasksStep,
         WatchStep, TicketsStep, CommandsStep, AdviceStep, ViewsStep, DutyStep,
         FleetStep, GateStep, places, rest5, rest6, Advice!vars, scope, text,
         report, heeded, woken, answer

LEMMA AdviceCounts == \A S : Advice!Cardinality(S) = Cardinality(S)
  BY DEF Advice!Cardinality, Cardinality

LEMMA AdviceInitTyped == Advice!Init => Advice!TypeOK
<1> SUFFICES ASSUME Advice!Init PROVE Advice!TypeOK
  OBVIOUS
<1>1. PICK r \in Advice!RULES, q \in Advice!RULES : scope = {r, q}
  BY DEF Advice!Init
<1>2. Cardinality(scope) \in 1..2
  <2>1. Cardinality({r}) = 1
    BY FS_Singleton
  <2>2. r # q => Cardinality({r, q}) = 2
    <3>1. IsFiniteSet({r}) /\ {r} \cup {q} = {r, q}
      BY FS_Singleton
    <3>2. r # q => q \notin {r}
      OBVIOUS
    <3> QED
      BY <2>1, <3>1, <3>2, FS_AddElement
  <2>3. r = q => scope = {r}
    BY <1>1
  <2> QED
    BY <1>1, <2>1, <2>2, <2>3
<1>3. /\ text \subseteq Advice!Seen
      /\ report = None /\ heeded = {} /\ woken = {} /\ answer = "none"
  BY DEF Advice!Init
<1> QED
  BY <1>1, <1>2, <1>3, AdviceCounts DEF Advice!TypeOK

LEMMA AdviceStepTyped ==
    ASSUME Advice!TypeOK, [Advice!Next]_Advice!vars PROVE Advice!TypeOK'
<1>1. /\ scope \subseteq Advice!RULES /\ Cardinality(scope) \in 1..2
      /\ text \subseteq Advice!Seen \cup {"flag-twice"}
      /\ report = None \/ report \subseteq scope
      /\ heeded \subseteq scope /\ woken \subseteq {r.id : r \in scope}
      /\ answer \in {"none", "Suggestion not found"}
  BY AdviceCounts DEF Advice!TypeOK
<1>2. CASE UNCHANGED Advice!vars
  <2>1. UNCHANGED <<scope, text, report, heeded, woken, answer>>
    BY <1>2 DEF Advice!vars
  <2> QED
    BY <1>1, <2>1, AdviceCounts DEF Advice!TypeOK, Advice!Seen
<1>3. CASE Advice!Advise
  <2>1. report' \subseteq scope /\ UNCHANGED <<scope, text, heeded, woken, answer>>
    BY <1>3 DEF Advice!Advise, Advice!analyzeConfiguration
  <2> QED
    BY <1>1, <2>1, AdviceCounts DEF Advice!TypeOK, Advice!Seen
<1>4. ASSUME NEW r \in scope, Advice!Apply(r) PROVE Advice!TypeOK'
  <2>1. answer' = "Suggestion not found" /\ UNCHANGED <<scope, text, report, heeded, woken>>
    BY <1>4 DEF Advice!Apply
  <2> QED
    BY <1>1, <2>1, AdviceCounts DEF Advice!TypeOK, Advice!Seen
<1>5. ASSUME NEW r \in scope, Advice!Follow(r) PROVE Advice!TypeOK'
  <2> DEFINE roused == {p \in scope \ {r} : Advice!GivesReason(p, text, text')}
             marks == Advice!Seen
  <2>1. /\ heeded' = heeded \cup {r}
        /\ woken' = woken \cup {p.id : p \in roused}
        /\ UNCHANGED <<scope, report, answer>>
    BY <1>5 DEF Advice!Follow
  <2>2. PICK swayed \in SUBSET (r.sways \cap marks) : text' = Advice!Followed(r, text, swayed)
    BY <1>5 DEF Advice!Follow
  <2>3. Advice!Followed(r, text, swayed) \subseteq text \cup r.adds \cup swayed \cup {"flag-twice"}
    BY DEF Advice!Followed
  <2>4. r.adds \subseteq marks
    BY DEF Advice!Seen, Advice!Marks
  <2>11. text \subseteq marks \cup {"flag-twice"}
    BY <1>1, Zenon
  <2>5. roused \subseteq scope
    OBVIOUS
  <2>6. woken' \subseteq {p.id : p \in scope}
    <3> HIDE DEF roused
    <3> QED
      BY <1>1, <2>1, <2>5
  <2>7. marks' = marks
    BY <2>1 DEF Advice!Seen
  <2> HIDE DEF marks, roused
  <2>8. text' \subseteq marks' \cup {"flag-twice"}
    BY <2>2, <2>3, <2>4, <2>7, <2>11
  <2>9. text' \subseteq Advice!Seen' \cup {"flag-twice"}
    BY <2>8 DEF marks
  <2>10. heeded' \subseteq scope
    BY <1>1, <2>1
  <2> QED
    BY <1>1, <2>1, <2>6, <2>9, <2>10, AdviceCounts DEF Advice!TypeOK
<1> QED
  BY <1>2, <1>3, <1>4, <1>5 DEF Advice!Next

-----------------------------------------------------------------------------
(***************************************************************************)
(* The advisor's rules.  What is known of every one of them (Sound), is    *)
(* proved of each rule of the table; what following a recommendation does  *)
(* to another rule is then argued from that, whatever the two rules are.   *)
(***************************************************************************)
\* The marks that some rule wants to find.
Wished ==
    {"-Xmx", "-Xms", "+UseG1GC", "+UseZGC", "+UseShenandoahGC",
     "HeapDumpOnOutOfMemoryError", "+HeapDumpOnOutOfMemoryError",
     "HeapDumpPath", "MaxMetaspaceSize",
     "-Xlog:gc", "rmi.server.hostname", "memory_limit", "cpu_shares",
     "JAVA_VERSION", "ports", "description", "labels", "label-healthcheck",
     "MaxDirectMemorySize", "ReservedCodeCacheSize", "PrintFlagsFinal",
     "+PrintFlagsFinal", "Xss", "ThreadStackSize", "ExitOnOutOfMemoryError",
     "+ExitOnOutOfMemoryError", "CrashOnOutOfMemoryError",
     "StringDeduplication", "+UseStringDeduplication", "volumes",
     "NativeMemoryTracking", "safepoint", "+PrintSafepointStatistics",
     "ParallelGCThreads", "ConcGCThreads", "logging.config.file", "log4j",
     "logback", "FlightRecorder", "StartFlightRecording", "CICompilerCount"}

\* The marks of the layout, which a recommendation may bring about.
Layout ==
    {"line-over-120", "quoted-value-over-150", "unquoted-special-value",
     "special-no-string", "value-twice", "uneven-indents", "four-levels",
     "key-in-two-maps", "unquoted-spaces", "no-sections",
     "ten-lines-uncommented"}

\* The marks that keep a rule awake although its advice was followed.
Excused(id) == {p[2] : p \in {q \in Advice!LeftAlone : q[1] = id}}

Casing ==
    Advice!RuleOf("props-casing", {{}},
        {"most-properties-in-two-casings", "most-properties-twice"},
        {"most-properties-in-two-casings"}, {"most-properties-twice"}, {})

\* Nothing that a rule adds or brings about is what a rule objects to, but for the
\* wakeable ones, and nothing it removes or ends what one wants, but for a variable.
Harmless(r) ==
    /\ r.adds \subseteq Wished \cup {"most-properties-twice"}
    /\ "most-properties-twice" \in r.adds => r = Casing
    /\ r.sways \subseteq Layout \cup {"JAVA_VERSION"}
    /\ r.drops \cap Wished = {}

\* What a rule tests for is of that kind.
Plain(r) ==
    /\ r.id = "app-java-version" \/ \A w \in r.silencedBy : w \subseteq Wished \ {"JAVA_VERSION"}
    /\ r.id = "app-java-version" => r.setOffBy = {}
    /\ r.setOffBy \cap Wished = {}
    /\ r.setOffBy \cap Layout # {} => r.id \in Advice!Wakeable
    /\ "flag-twice" \in r.setOffBy => r.id = "jvm-args-gray" /\ r.adds = {}
    /\ "most-properties-twice" \in r.setOffBy => r = Casing \/ r.id = "props-duplicate"

\* Its recommendation is what it tests for.
Heals(r) ==
    /\ \E w \in r.silencedBy : w \subseteq r.adds
    /\ r.drops # {} => r.silencedBy = {{}}
    /\ r.setOffBy \subseteq r.drops \cup Excused(r.id)
    /\ r.drops \cap (r.adds \cup r.sways) = {}

Sound(r) == Harmless(r) /\ Plain(r) /\ (r.id \in Advice!Restless \/ Heals(r))

LEMMA MarksApart ==
    /\ Layout \cap Wished = {} /\ "JAVA_VERSION" \in Wished
    /\ "flag-twice" \notin Wished /\ "most-properties-twice" \notin Wished
    /\ "flag-twice" \notin Layout /\ "most-properties-twice" \notin Layout
  BY DEF Wished, Layout

LEMMA ExcusedIf == \A id, m : <<id, m>> \in Advice!LeftAlone => m \in Excused(id)
<1> SUFFICES ASSUME NEW id, NEW m, <<id, m>> \in Advice!LeftAlone PROVE m \in Excused(id)
  OBVIOUS
<1> DEFINE p == <<id, m>>
<1>1. p \in {q \in Advice!LeftAlone : q[1] = id} /\ p[2] = m
  OBVIOUS
<1> QED
  BY <1>1 DEF Excused

\* A rule that wants something sways the layout at most.
LEMMA WantsSound ==
    ASSUME NEW id, NEW alternatives, NEW adds, NEW sways,
           \A w \in alternatives : w \subseteq Wished \ {"JAVA_VERSION"},
           adds \subseteq Wished, sways \subseteq Layout,
           id # "app-java-version",
           id \in Advice!Restless \/ \E w \in alternatives : w \subseteq adds
    PROVE  Sound(Advice!RuleOf(id, alternatives, {}, {}, adds, sways))
<1> DEFINE r == Advice!RuleOf(id, alternatives, {}, {}, adds, sways)
<1>1. /\ r.id = id /\ r.silencedBy = alternatives /\ r.setOffBy = {}
      /\ r.adds = adds /\ r.drops = {} /\ r.sways = sways
  BY DEF Advice!RuleOf
<1> HIDE DEF r
<1>2. Harmless(r)
  BY <1>1, MarksApart DEF Harmless
<1>3. Plain(r)
  BY <1>1 DEF Plain
<1>4. r.id \in Advice!Restless \/ Heals(r)
  BY <1>1 DEF Heals
<1> QED
  BY <1>2, <1>3, <1>4 DEF Sound, r

\* A rule that removes what it objects to, but for what is excused.
LEMMA RejectsSound ==
    ASSUME NEW id, NEW defects, NEW drops, NEW sways,
           (defects \cup drops) \cap Wished = {},
           defects \cap Layout # {} => id \in Advice!Wakeable,
           "flag-twice" \notin defects, "most-properties-twice" \notin defects,
           defects \subseteq drops \cup Excused(id),
           sways \subseteq Layout \cup {"JAVA_VERSION"}, drops \cap sways = {},
           id # "app-java-version"
    PROVE  Sound(Advice!RuleOf(id, {{}}, defects, drops, {}, sways))
<1> DEFINE r == Advice!RuleOf(id, {{}}, defects, drops, {}, sways)
<1>1. /\ r.id = id /\ r.silencedBy = {{}} /\ r.setOffBy = defects
      /\ r.adds = {} /\ r.drops = drops /\ r.sways = sways
  BY DEF Advice!RuleOf
<1> HIDE DEF r
<1>2. Harmless(r)
  BY <1>1 DEF Harmless
<1>3. Plain(r)
  BY <1>1 DEF Plain
<1>4. Heals(r)
  BY <1>1 DEF Heals
<1> QED
  BY <1>2, <1>3, <1>4 DEF Sound, r

\* The plain cases of both.
LEMMA WantsIt ==
    /\ \A id, adds : adds \subseteq Wished \ {"JAVA_VERSION"} /\ id # "app-java-version"
            => /\ Sound(Advice!Wants(id, {adds}, adds))
               /\ Sound(Advice!WantsFlags(id, {adds}, adds))
    /\ \A id \in Advice!Restless : id # "app-java-version" => Sound(Advice!Always(id))
    /\ \A id : id # "app-java-version" => Sound(Advice!Never(id))
<1>1. ASSUME NEW id, NEW adds, NEW sways, adds \subseteq Wished \ {"JAVA_VERSION"},
             id # "app-java-version", sways \subseteq Layout
      PROVE  Sound(Advice!RuleOf(id, {adds}, {}, {}, adds, sways))
  BY <1>1, WantsSound
<1>2. Advice!FlagLines \subseteq Layout
  BY DEF Advice!FlagLines, Layout
<1>3. \A id \in Advice!Restless : id # "app-java-version" => Sound(Advice!Always(id))
  BY WantsSound DEF Advice!Always, Advice!Wants
<1>4. \A id : id # "app-java-version" => Sound(Advice!Never(id))
  BY RejectsSound DEF Advice!Never, Advice!Rejects
<1> QED
  BY <1>1, <1>2, <1>3, <1>4 DEF Advice!Wants, Advice!WantsFlags

LEMMA RejectsIt ==
    ASSUME NEW id, NEW drops,
           drops \cap (Wished \cup Layout) = {},
           "flag-twice" \notin drops, "most-properties-twice" \notin drops,
           id # "app-java-version"
    PROVE  Sound(Advice!Rejects(id, drops, drops, {}))
  BY RejectsSound DEF Advice!Rejects

LEMMA JvmSound == \A r \in Advice!JvmRules : Sound(r)
<1>0. Advice!FlagLines \subseteq Layout
  BY DEF Advice!FlagLines, Layout
<1>1. Sound(Advice!WantsFlags("jvm-gc-type",
           {{"+UseG1GC"}, {"+UseZGC"}, {"+UseShenandoahGC"}}, {"+UseG1GC"}))
  BY <1>0, WantsSound DEF Wished, Advice!WantsFlags
<1>2. Sound(Advice!WantsFlags("jvm-oom-handling",
           {{"HeapDumpOnOutOfMemoryError", "HeapDumpPath"},
            {"+HeapDumpOnOutOfMemoryError", "HeapDumpPath"}},
           {"+HeapDumpOnOutOfMemoryError", "HeapDumpPath"}))
  BY <1>0, WantsSound DEF Wished, Advice!WantsFlags
<1>3. <<"jvm-aot-compilation", "-TieredCompilation-mentioned">> \in Advice!LeftAlone
  BY DEF Advice!LeftAlone
<1>4. Sound(Advice!Rejects("jvm-aot-compilation",
           {"-TieredCompilation", "-TieredCompilation-mentioned"},
           {"-TieredCompilation"}, {}))
  BY <1>3, ExcusedIf, RejectsSound DEF Wished, Layout, Advice!Rejects
<1> QED
  BY <1>1, <1>2, <1>4, WantsIt DEF Advice!JvmRules, Wished

LEMMA JvmProductionSound == \A r \in Advice!JvmProductionRules : Sound(r)
<1>1. /\ <<"jvm-assertions", "-enableassertions">> \in Advice!LeftAlone
      /\ <<"jvm-assertions", "-ea-mentioned">> \in Advice!LeftAlone
  BY DEF Advice!LeftAlone
<1>2. Sound(Advice!Rejects("jvm-assertions",
           {"-ea", "-enableassertions", "-ea-mentioned"}, {"-ea"}, {}))
  BY <1>1, ExcusedIf, RejectsSound DEF Wished, Layout, Advice!Rejects
<1> QED
  BY <1>2, WantsIt DEF Advice!JvmProductionRules, Wished

LEMMA YamlSound == \A r \in Advice!YamlRules : Sound(r)
<1>1. Sound(Advice!Rejects("yaml-indentation", {"tabs-and-spaces"},
           {"tabs-and-spaces"}, {"uneven-indents", "four-levels", "line-over-120"}))
  BY RejectsSound DEF Wished, Layout, Advice!Rejects
<1>2. /\ <<"yaml-long-lines", "comment-over-120">> \in Advice!LeftAlone
      /\ <<"yaml-quoted-strings", "special-no-string">> \in Advice!LeftAlone
      /\ <<"yaml-duplicate-keys", "key-in-two-maps">> \in Advice!LeftAlone
  BY DEF Advice!LeftAlone
<1>3. {"yaml-long-lines", "yaml-quoted-strings", "yaml-duplicate-keys"} \subseteq Advice!Wakeable
  BY DEF Advice!Wakeable
<1>4. Sound(Advice!Rejects("yaml-long-lines", {"line-over-120", "comment-over-120"},
           {"line-over-120"}, Advice!Folding \ {"line-over-120"}))
  <2>1. Advice!Folding \subseteq Layout
    BY DEF Advice!Folding, Layout
  <2> QED
    BY <1>2, <1>3, <2>1, ExcusedIf, RejectsSound DEF Wished, Advice!Rejects
<1>5. Sound(Advice!Rejects("yaml-quoted-strings",
           {"unquoted-special-value", "special-no-string"}, {"unquoted-special-value"},
           {"line-over-120", "quoted-value-over-150", "value-twice"}))
  BY <1>2, <1>3, ExcusedIf, RejectsSound DEF Wished, Layout, Advice!Rejects
<1>6. Sound(Advice!Rejects("yaml-duplicate-keys", {"key-twice", "key-in-two-maps"},
           {"key-twice"}, {}))
  BY <1>2, <1>3, ExcusedIf, RejectsSound DEF Wished, Advice!Rejects
<1> QED
  BY <1>1, <1>4, <1>5, <1>6, RejectsIt DEF Advice!YamlRules, Wished, Layout

LEMMA AppSound == \A r \in Advice!AppRules : Sound(r)
<1>1. Sound(Advice!Wants("app-label-tags",
           {{"labels"}, {"label-healthcheck"}}, {"labels"}))
  BY WantsSound DEF Wished, Advice!Wants
<1>2. Sound(Advice!Rejects("app-env-size", {"over-30-variables"},
           {"over-30-variables"}, {"JAVA_VERSION"}))
  BY RejectsSound DEF Wished, Layout, Advice!Rejects
<1>3. Sound(Advice!RuleOf("app-java-version", {{"JAVA_VERSION"}}, {}, {}, {}, {"JAVA_VERSION"}))
  BY DEF Advice!RuleOf, Sound, Harmless, Plain, Advice!Restless
<1> QED
  BY <1>1, <1>2, <1>3, WantsIt, RejectsIt DEF Advice!AppRules, Wished, Layout

LEMMA PropsSound == \A r \in Advice!PropsRules : Sound(r)
<1>1. Sound(Advice!Rejects("props-duplicate", {"property-twice", "most-properties-twice"},
           {"property-twice", "most-properties-twice"}, {}))
  BY DEF Advice!Rejects, Advice!RuleOf, Sound, Harmless, Plain, Heals, Wished, Layout
<1>2. Sound(Advice!Rejects("props-section", {"no-sections"}, {"no-sections"}, {}))
  BY RejectsSound DEF Wished, Advice!Wakeable, Advice!Rejects
<1> QED
  BY <1>1, <1>2, WantsIt, RejectsIt DEF Advice!PropsRules, Wished, Layout

LEMMA JvmTuningSound == \A r \in Advice!JvmTuningRules : Sound(r)
<1>0. Advice!FlagLines \subseteq Layout
  BY DEF Advice!FlagLines, Layout
<1>1. Sound(Advice!RuleOf("jvm-printflags", {{"PrintFlagsFinal"}, {"+PrintFlagsFinal"}},
           {"-PrintFlagsFinal"}, {}, {"+PrintFlagsFinal"}, Advice!FlagLines))
  <2>1. <<"jvm-printflags", "-PrintFlagsFinal">> \in Advice!LeftAlone
    BY DEF Advice!LeftAlone
  <2>2. "-PrintFlagsFinal" \in Excused("jvm-printflags")
    BY <2>1, ExcusedIf
  <2> QED
    BY <1>0, <2>2 DEF Advice!RuleOf, Sound, Harmless, Plain, Heals, Wished, Layout
<1>2. Sound(Advice!WantsFlags("jvm-ssi", {{"Xss"}, {"ThreadStackSize"}}, {"Xss"}))
  BY <1>0, WantsSound DEF Wished, Advice!WantsFlags
<1>3. Sound(Advice!WantsFlags("jvm-oom-kill",
           {{"ExitOnOutOfMemoryError"}, {"+ExitOnOutOfMemoryError"},
            {"CrashOnOutOfMemoryError"}}, {"+ExitOnOutOfMemoryError"}))
  BY <1>0, WantsSound DEF Wished, Advice!WantsFlags
<1>4. Sound(Advice!WantsFlags("jvm-string-dedup",
           {{"StringDeduplication"}, {"+UseStringDeduplication"}},
           {"+UseStringDeduplication"}))
  BY <1>0, WantsSound DEF Wished, Advice!WantsFlags
<1>5. Sound(Advice!Rejects("jvm-biased-locking",
           {"BiasedLockingStartupDelay", "+UseBiasedLocking",
            "UseBiasedLocking-mentioned"},
           {"BiasedLockingStartupDelay", "+UseBiasedLocking"}, {}))
  <2>1. <<"jvm-biased-locking", "UseBiasedLocking-mentioned">> \in Advice!LeftAlone
    BY DEF Advice!LeftAlone
  <2> QED
    BY <2>1, ExcusedIf, RejectsSound DEF Wished, Layout, Advice!Rejects
<1> QED
  BY <1>1, <1>2, <1>3, <1>4, <1>5, WantsIt DEF Advice!JvmTuningRules, Wished

LEMMA StyleSound == \A r \in Advice!StyleRules : Sound(r)
<1>1. Sound(Casing)
  <2>1. <<"props-casing", "most-properties-twice">> \in Advice!LeftAlone
    BY DEF Advice!LeftAlone
  <2>2. "most-properties-twice" \in Excused("props-casing")
    BY <2>1, ExcusedIf
  <2>3. /\ Casing.id = "props-casing" /\ Casing.silencedBy = {{}}
        /\ Casing.setOffBy = {"most-properties-in-two-casings", "most-properties-twice"}
        /\ Casing.drops = {"most-properties-in-two-casings"}
        /\ Casing.adds = {"most-properties-twice"} /\ Casing.sways = {}
    BY DEF Casing, Advice!RuleOf
  <2> QED
    BY <2>2, <2>3 DEF Sound, Harmless, Plain, Heals, Wished, Layout
<1>2. Sound(Advice!Rejects("yaml-anchor-usage", {"value-twice"}, {"value-twice"},
           {"line-over-120", "special-no-string"}))
  BY RejectsSound DEF Wished, Layout, Advice!Wakeable, Advice!Rejects
<1>3. Sound(Advice!Rejects("yaml-block-scalar",
           {"quoted-value-over-150", "quoted-comment-over-150"},
           {"quoted-value-over-150"}, Advice!Folding \ {"quoted-value-over-150"}))
  <2>1. <<"yaml-block-scalar", "quoted-comment-over-150">> \in Advice!LeftAlone
    BY DEF Advice!LeftAlone
  <2>2. Advice!Folding \subseteq Layout
    BY DEF Advice!Folding, Layout
  <2> QED
    BY <2>1, <2>2, ExcusedIf, RejectsSound DEF Wished, Advice!Wakeable, Advice!Rejects
<1>4. Sound(Advice!Rejects("props-quoted-values", {"unquoted-spaces", "spaces-no-value"},
           {"unquoted-spaces"}, {}))
  <2>1. <<"props-quoted-values", "spaces-no-value">> \in Advice!LeftAlone
    BY DEF Advice!LeftAlone
  <2> QED
    BY <2>1, ExcusedIf, RejectsSound DEF Wished, Advice!Wakeable, Advice!Rejects
<1> QED
  BY <1>1, <1>2, <1>3, <1>4 DEF Advice!StyleRules, Casing

LEMMA ContainerSound == \A r \in Advice!ContainerRules : Sound(r)
<1>1. Sound(Advice!Wants("app-healthcheck", {{"label-healthcheck"}}, {}))
  BY WantsSound DEF Wished, Advice!Restless, Advice!Wants
<1> QED
  BY <1>1, WantsIt DEF Advice!ContainerRules, Wished

LEMMA JvmDiagnosticSound == \A r \in Advice!JvmDiagnosticRules : Sound(r)
<1>0. Advice!FlagLines \subseteq Layout
  BY DEF Advice!FlagLines, Layout
<1>1. Sound(Advice!WantsFlags("jvm-safepoint",
           {{"safepoint", "+PrintSafepointStatistics"}},
           {"+PrintSafepointStatistics"}))
  BY <1>0, WantsSound DEF Wished, Advice!Restless, Advice!WantsFlags
<1> QED
  BY <1>1, WantsIt DEF Advice!JvmDiagnosticRules, Wished

LEMMA LayoutSound == \A r \in Advice!LayoutRules : Sound(r)
<1>1. Sound(Advice!Rejects("yaml-mixed-indent",
           {"uneven-indents", "four-levels"}, {"uneven-indents"}, {"line-over-120"}))
  <2>1. <<"yaml-mixed-indent", "four-levels">> \in Advice!LeftAlone
    BY DEF Advice!LeftAlone
  <2> QED
    BY <2>1, ExcusedIf, RejectsSound DEF Wished, Layout, Advice!Wakeable, Advice!Rejects
<1>2. Sound(Advice!WantsFlags("jvm-parallel-gc-threads",
           {{"ParallelGCThreads"}, {"ConcGCThreads"}}, {"ParallelGCThreads",
           "ConcGCThreads"}))
  <2>1. Advice!FlagLines \subseteq Layout
    BY DEF Advice!FlagLines, Layout
  <2> QED
    BY <2>1, WantsSound DEF Wished, Advice!WantsFlags
<1>3. Sound(Advice!Rejects("props-empty-values", {"empty-value"}, {"empty-value"},
           {"unquoted-spaces"}))
  BY RejectsSound DEF Wished, Layout, Advice!Rejects
<1>4. Sound(Advice!Always("app-network-mode"))
  BY WantsIt DEF Advice!Restless
<1> QED
  BY <1>1, <1>2, <1>3, <1>4, RejectsIt DEF Advice!LayoutRules, Wished, Layout

\* A rule against a collector puts another in its place.
LEMMA ReplacesSound ==
    ASSUME NEW id, NEW defects, NEW drops,
           (defects \cup drops) \cap (Wished \cup Layout) = {},
           "flag-twice" \notin defects, "most-properties-twice" \notin defects,
           defects \subseteq drops \cup Excused(id), id # "app-java-version"
    PROVE  Sound(Advice!RuleOf(id, {{}}, defects, drops, {"+UseG1GC"}, Advice!FlagLines))
<1> DEFINE r == Advice!RuleOf(id, {{}}, defects, drops, {"+UseG1GC"}, Advice!FlagLines)
<1>1. /\ r.id = id /\ r.silencedBy = {{}} /\ r.setOffBy = defects
      /\ r.adds = {"+UseG1GC"} /\ r.drops = drops /\ r.sways = Advice!FlagLines
  BY DEF Advice!RuleOf
<1> HIDE DEF r
<1>2. Advice!FlagLines \subseteq Layout /\ "+UseG1GC" \in Wished
  BY DEF Advice!FlagLines, Layout, Wished
<1>3. Harmless(r)
  BY <1>1, <1>2, MarksApart DEF Harmless
<1>4. Plain(r)
  BY <1>1 DEF Plain
<1>5. Heals(r)
  BY <1>1, <1>2 DEF Heals
<1> QED
  BY <1>3, <1>4, <1>5 DEF Sound, r

LEMMA CollectorSound == \A r \in Advice!CollectorRules : Sound(r)
<1>1. Sound(Advice!Wants("jvm-logging-config",
           {{"logging.config.file"}, {"log4j"}, {"logback"}}, {"logback"}))
  BY WantsSound DEF Wished, Advice!Wants
<1>2. /\ <<"props-default-value", "ten-lines-uncommented">> \in Advice!LeftAlone
      /\ <<"jvm-cms-deprecated", "UseConcMarkSweepGC-mentioned">> \in Advice!LeftAlone
      /\ <<"jvm-parallel-old-gc", "UseParallelGC-mentioned">> \in Advice!LeftAlone
  BY DEF Advice!LeftAlone
<1>3. Sound(Advice!Rejects("props-default-value", {"ten-lines-uncommented"}, {}, {}))
  BY <1>2, ExcusedIf, RejectsSound DEF Wished, Advice!Wakeable, Advice!Rejects
<1>4. Sound(Advice!RuleOf("jvm-cms-deprecated", {{}},
           {"+UseConcMarkSweepGC", "UseConcMarkSweepGC-mentioned"},
           {"+UseConcMarkSweepGC"}, {"+UseG1GC"}, Advice!FlagLines))
  BY <1>2, ExcusedIf, ReplacesSound DEF Wished, Layout
<1>5. Sound(Advice!RuleOf("jvm-parallel-old-gc", {{}},
           {"+UseParallelOldGC", "+UseParallelGC", "UseParallelGC-mentioned"},
           {"+UseParallelOldGC", "+UseParallelGC"}, {"+UseG1GC"}, Advice!FlagLines))
  BY <1>2, ExcusedIf, ReplacesSound DEF Wished, Layout
<1> QED
  BY <1>1, <1>3, <1>4, <1>5 DEF Advice!CollectorRules

LEMMA HostSound == \A r \in Advice!HostRules : Sound(r)
<1>1. Sound(Advice!WantsFlags("jvm-jfr-recording",
           {{"FlightRecorder"}, {"StartFlightRecording"}},
           {"StartFlightRecording"}))
  <2>1. Advice!FlagLines \subseteq Layout
    BY DEF Advice!FlagLines, Layout
  <2> QED
    BY <2>1, WantsSound DEF Wished, Advice!WantsFlags
<1>2. Sound(Advice!Rejects("props-sensistive-values",
           {"secret-in-the-file", "secret-named-only"}, {"secret-in-the-file"}, {}))
  <2>1. <<"props-sensistive-values", "secret-named-only">> \in Advice!LeftAlone
    BY DEF Advice!LeftAlone
  <2> QED
    BY <2>1, ExcusedIf, RejectsSound DEF Wished, Layout, Advice!Rejects
<1> QED
  BY <1>1, <1>2, WantsIt DEF Advice!HostRules, Advice!Restless

LEMMA LastSound == \A r \in Advice!LastRules : Sound(r)
<1>1. Sound(Advice!Rejects("jvm-args-gray", {"flag-twice"}, {"flag-twice"}, {}))
  BY DEF Advice!Rejects, Advice!RuleOf, Sound, Harmless, Plain, Heals, Wished, Layout
<1>2. /\ <<"yaml-bool-true", "On-in-a-text">> \in Advice!LeftAlone
      /\ <<"yaml-null-variants", "Null-in-a-text">> \in Advice!LeftAlone
  BY DEF Advice!LeftAlone
<1>3. Sound(Advice!Rejects("yaml-bool-true", {"True-or-YES", "On-in-a-text"},
           {"True-or-YES"}, {"line-over-120", "value-twice"}))
  BY <1>2, ExcusedIf, RejectsSound DEF Wished, Layout, Advice!Rejects
<1>4. Sound(Advice!Rejects("yaml-null-variants", {"NULL-or-nil", "Null-in-a-text"},
           {"NULL-or-nil"}, {"line-over-120", "value-twice"}))
  BY <1>2, ExcusedIf, RejectsSound DEF Wished, Layout, Advice!Rejects
<1> QED
  BY <1>1, <1>3, <1>4, WantsIt DEF Advice!LastRules, Wished

LEMMA RulesSound == \A r \in Advice!RULES : Sound(r)
  BY JvmSound, JvmProductionSound, YamlSound, AppSound, PropsSound,
     JvmTuningSound, StyleSound, ContainerSound, JvmDiagnosticSound,
     LayoutSound, CollectorSound, HostSound, LastSound DEF Advice!RULES

\* What is new in the text was added, came about by the way, or is a second flag.
LEMMA NewMarks ==
    ASSUME NEW r, NEW t, NEW swayed, NEW m \in Advice!Followed(r, t, swayed), m \notin t
    PROVE  m \in r.adds \cup swayed \cup {"flag-twice"}
  BY DEF Advice!Followed

\* What quiets a rule stays, but for the variable.
LEMMA QuietingLasts ==
    ASSUME NEW r, NEW q, Sound(r), Sound(q), q.id # "app-java-version",
           NEW t, NEW swayed, NEW w \in q.silencedBy, w \subseteq t
    PROVE  w \subseteq Advice!Followed(r, t, swayed)
<1>1. w \subseteq Wished \ {"JAVA_VERSION"}
  BY DEF Sound, Plain
<1>2. r.drops \cap Wished = {} /\ r.sways \subseteq Layout \cup {"JAVA_VERSION"}
  BY DEF Sound, Harmless
<1>3. w \cap (r.drops \cup r.sways) = {}
  BY <1>1, <1>2, MarksApart
<1> QED
  BY <1>3 DEF Advice!Followed

\* A rule that is given a new reason by another one's recommendation is wakeable.
LEMMA WokenOnly ==
    ASSUME NEW r, NEW q, Sound(r), Sound(q), q # r,
           NEW t, NEW swayed \in SUBSET r.sways,
           Advice!GivesReason(q, t, Advice!Followed(r, t, swayed))
    PROVE  q.id \in Advice!Wakeable
<1> DEFINE after == Advice!Followed(r, t, swayed)
<1>0. {"app-java-version", "jvm-args-gray", "props-duplicate"} \subseteq Advice!Wakeable
  BY DEF Advice!Wakeable
<1>1. CASE q.setOffBy \cap (after \ t) # {}
  <2>1. PICK m \in q.setOffBy : m \in after /\ m \notin t
    BY <1>1
  <2>2. m \in r.adds \cup swayed \cup {"flag-twice"}
    BY <2>1, NewMarks
  <2>3. m \notin Wished
    BY DEF Sound, Plain
  <2>4. CASE m = "flag-twice"
    BY <1>0, <2>4 DEF Sound, Plain
  <2>5. CASE m \in swayed
    <3>1. m \in Layout
      BY <2>3, <2>5, MarksApart DEF Sound, Harmless
    <3> QED
      BY <3>1 DEF Sound, Plain
  <2>6. CASE m \in r.adds
    <3>1. m = "most-properties-twice"
      BY <2>3, <2>6 DEF Sound, Harmless
    <3>2. r = Casing
      BY <2>6, <3>1 DEF Sound, Harmless
    <3>3. q = Casing \/ q.id = "props-duplicate"
      BY <3>1 DEF Sound, Plain
    <3> QED
      BY <1>0, <3>2, <3>3
  <2> QED
    BY <2>2, <2>4, <2>5, <2>6
<1>2. CASE q.setOffBy \cap (after \ t) = {}
  <2>1. Advice!Loud(q, after) /\ ~Advice!Loud(q, t)
    BY <1>2 DEF Advice!GivesReason
  <2>2. PICK w \in q.silencedBy : w \subseteq t
    BY <2>1 DEF Advice!Loud
  <2>3. q.setOffBy \cap after = {}
    BY <1>2, <2>1 DEF Advice!Loud
  <2>4. ~(w \subseteq after)
    BY <2>1, <2>3 DEF Advice!Loud
  <2> QED
    BY <1>0, <2>2, <2>4, QuietingLasts
<1> QED
  BY <1>1, <1>2

\* Nothing but what is excused keeps the rule awake.
AtRest(r, t) ==
    /\ \E w \in r.silencedBy : w \subseteq t
    /\ r.setOffBy \cap t \subseteq Excused(r.id)

LEMMA FollowedRests ==
    ASSUME NEW r, Sound(r), r.id \notin Advice!Restless,
           NEW t, NEW swayed \in SUBSET r.sways
    PROVE  AtRest(r, Advice!Followed(r, t, swayed))
<1> DEFINE after == Advice!Followed(r, t, swayed)
<1>1. Heals(r)
  BY DEF Sound
<1>2. PICK w \in r.silencedBy : w \subseteq r.adds
  BY <1>1 DEF Heals
<1>3. CASE r.drops # {} /\ r.drops \cap t = {}
  <2>1. after = t
    BY <1>3 DEF Advice!Followed
  <2>2. {} \in r.silencedBy
    BY <1>1, <1>3 DEF Heals
  <2>3. r.setOffBy \cap t \subseteq Excused(r.id)
    BY <1>1, <1>3 DEF Heals
  <2> QED
    BY <2>1, <2>2, <2>3 DEF AtRest
<1>4. CASE ~(r.drops # {} /\ r.drops \cap t = {})
  <2>1. r.adds \subseteq after
    BY <1>4 DEF Advice!Followed
  <2>2. ASSUME NEW m \in r.setOffBy, m \in after PROVE m \in Excused(r.id)
    <3>1. SUFFICES ASSUME m \in r.drops PROVE FALSE
      BY <1>1 DEF Heals
    <3>2. m \notin r.adds /\ m \notin swayed
      BY <1>1, <3>1 DEF Heals
    <3>3. m = "flag-twice" /\ r.adds # {}
      BY <1>4, <2>2, <3>1, <3>2 DEF Advice!Followed
    <3> QED
      BY <3>3 DEF Sound, Plain
  <2> QED
    BY <1>2, <2>1, <2>2 DEF AtRest
<1> QED
  BY <1>3, <1>4

\* A rule that was followed is at rest, or given a new reason since, or restless.
AdviceInv ==
    /\ scope \subseteq Advice!RULES /\ heeded \subseteq scope
    /\ woken \subseteq Advice!Wakeable
    /\ \A r \in heeded : r.id \in Advice!Restless \cup woken \/ AtRest(r, text)

LEMMA AdviceStepInv ==
    ASSUME AdviceInv, [Advice!Next]_Advice!vars PROVE AdviceInv'
<1>1. /\ scope \subseteq Advice!RULES /\ heeded \subseteq scope
      /\ woken \subseteq Advice!Wakeable
      /\ \A r \in heeded : r.id \in Advice!Restless \cup woken \/ AtRest(r, text)
  BY DEF AdviceInv
<1>2. CASE UNCHANGED <<scope, text, heeded, woken>>
  BY <1>1, <1>2 DEF AdviceInv, AtRest
<1>3. ASSUME NEW r \in scope, Advice!Follow(r) PROVE AdviceInv'
  <2> DEFINE roused == {p \in scope \ {r} : Advice!GivesReason(p, text, text')}
  <2>1. /\ heeded' = heeded \cup {r} /\ scope' = scope
        /\ woken' = woken \cup {p.id : p \in roused}
    BY <1>3 DEF Advice!Follow
  <2>2. PICK swayed \in SUBSET r.sways : text' = Advice!Followed(r, text, swayed)
    BY <1>3 DEF Advice!Follow
  <2>3. \A q \in scope : q \in Advice!RULES /\ Sound(q)
    BY <1>1, RulesSound
  <2>4. \A q \in roused : q.id \in Advice!Wakeable
    BY <2>2, <2>3, WokenOnly
  <2>5. \A q \in roused : q.id \in woken'
    BY <2>1
  <2>6. woken' \subseteq Advice!Wakeable /\ woken \subseteq woken'
    <3> HIDE DEF roused
    <3> QED
      BY <1>1, <2>1, <2>4
  <2>7. \A q \in scope \ {r} : Advice!GivesReason(q, text, text') => q.id \in woken'
    BY <2>5
  <2> HIDE DEF roused
  <2>8. ASSUME NEW q \in heeded', q.id \notin Advice!Restless \cup woken'
        PROVE  AtRest(q, text')
    <3>1. q \in scope /\ Sound(q) /\ Sound(r)
      BY <1>1, <2>1, <2>3, <2>8
    <3>2. CASE q = r
      BY <2>2, <2>8, <3>1, <3>2, FollowedRests
    <3>3. CASE q # r
      <4>1. AtRest(q, text) /\ ~Advice!GivesReason(q, text, text')
        BY <1>1, <2>1, <2>6, <2>7, <2>8, <3>1, <3>3
      <4>2. q.id # "app-java-version"
        BY <2>8 DEF Advice!Restless
      <4>3. PICK w \in q.silencedBy : w \subseteq text
        BY <4>1 DEF AtRest
      <4>4. w \subseteq text'
        BY <2>2, <3>1, <4>2, <4>3, QuietingLasts
      <4>5. q.setOffBy \cap text' \subseteq text
        BY <4>1 DEF Advice!GivesReason, Advice!Loud
      <4> QED
        BY <4>1, <4>4, <4>5 DEF AtRest
    <3> QED
      BY <3>2, <3>3
  <2> QED
    BY <1>1, <2>1, <2>6, <2>8 DEF AdviceInv
<1> QED
  BY <1>2, <1>3 DEF Advice!Next, Advice!Advise, Advice!Apply, Advice!vars

LEMMA AdviceInitInv == Advice!Init => AdviceInv
<1> SUFFICES ASSUME Advice!Init PROVE AdviceInv
  OBVIOUS
<1>1. PICK r \in Advice!RULES, q \in Advice!RULES : scope = {r, q}
  BY DEF Advice!Init
<1>2. heeded = {} /\ woken = {}
  BY DEF Advice!Init
<1> QED
  BY <1>1, <1>2 DEF AdviceInv

LEMMA AdviceInvHeeds == AdviceInv => Advice!AdviceHeeded
<1> SUFFICES ASSUME AdviceInv PROVE Advice!AdviceHeeded
  OBVIOUS
<1>1. ASSUME NEW r \in heeded, Advice!Loud(r, text), r.id \notin woken
      PROVE  r.id \in Advice!Unending
  <2>1. CASE r.id \in Advice!Restless
    BY <2>1 DEF Advice!Unending
  <2>2. CASE AtRest(r, text)
    <3>1. PICK m \in r.setOffBy : m \in text
      BY <1>1, <2>2 DEF Advice!Loud, AtRest
    <3>2. m \in Excused(r.id)
      BY <2>2, <3>1 DEF AtRest
    <3>3. PICK p \in Advice!LeftAlone : p[1] = r.id /\ p[2] = m
      BY <3>2 DEF Excused
    <3> QED
      BY <3>1, <3>3 DEF Advice!Unending
  <2> QED
    BY <1>1, <2>1, <2>2 DEF AdviceInv
<1> QED
  BY <1>1 DEF AdviceInv, Advice!AdviceHeeded

\* Advice that was followed is not given again, whatever is followed in whatever
\* order from a report however old, but for the recommendations the property names
\* (the rules of config-advice-engine.ts).
THEOREM AdviceAlwaysHeeded == ServicesSpec => []AdviceHeeded
<1> DEFINE I == focus = "advice" => AdviceInv
<1>1. ServicesInit => I
  BY AdviceStarts, AdviceInitInv
<1>2. I /\ [ServicesNext]_<<focus, places>> => I'
  BY AdviceGoes, AdviceStepInv
<1>3. I => AdviceHeeded
  BY AdviceInvHeeds DEF AdviceHeeded
<1> QED
  BY <1>1, <1>2, <1>3, PTL DEF ServicesSpec

\* The same for an operator who deals with any set of rules, all of them included:
\* the runs, and ServicesSpec, take them singly and in pairs.
THEOREM AdviceHeededOfAnyRules ==
    /\ scope \subseteq Advice!RULES /\ heeded = {} /\ woken = {}
    /\ [][Advice!Next]_Advice!vars
    => []Advice!AdviceHeeded
<1>1. scope \subseteq Advice!RULES /\ heeded = {} /\ woken = {} => AdviceInv
  BY DEF AdviceInv
<1>2. AdviceInv /\ [Advice!Next]_Advice!vars => AdviceInv'
  BY AdviceStepInv
<1> QED
  BY <1>1, <1>2, AdviceInvHeeds, PTL

=============================================================================
