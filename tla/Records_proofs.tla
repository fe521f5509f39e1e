---------------------------- MODULE Records_proofs ----------------------------
(***************************************************************************)
(* What is kept beside a state agrees with it: the secrets and their       *)
(* history, the rows of the panel's lists and the audit log, the incidents *)
(* and their timelines, the creatures and the workloads they stand for,    *)
(* the panel's screens and what they are about, the terminals of a session *)
(* and what was typed in it.                                               *)
(***************************************************************************)
EXTENDS Services, Sequences, FiniteSets, FiniteSetsExt, FiniteSetTheorems,
        SequenceTheorems, TLAPS

LEMMA SecretsStarts == ServicesInit /\ focus = "secrets" => Secrets!Init
  BY DEF ServicesInit, SettingsInit, ListsInit, DeploysInit, SetupInit,
         AppsInit, SecretsInit, AuditInit, FlagsInit, SharedInit, TasksInit,
         WatchInit, TicketsInit, CommandsInit, AdviceInit, ViewsInit, DutyInit,
         FleetInit, GateInit

LEMMA SecretsGoes ==
    [ServicesNext]_<<focus, places>> =>
        UNCHANGED focus /\ (focus = "secrets" => [Secrets!Next]_Secrets!vars)
  BY DEF ServicesNext, SettingsStep, ListsStep, DeploysStep, SetupStep,
         AppsStep, SecretsStep, AuditStep, FlagsStep, SharedStep, TasksStep,
         WatchStep, TicketsStep, CommandsStep, AdviceStep, ViewsStep, DutyStep,
         FleetStep, GateStep, places, rest5, rest6, Secrets!vars, secret,
         history, req, lost, requests, failures

LEMMA AuditStarts == ServicesInit /\ focus = "audit" => Audit!Init
  BY DEF ServicesInit, SettingsInit, ListsInit, DeploysInit, SetupInit,
         AppsInit, SecretsInit, AuditInit, FlagsInit, SharedInit, TasksInit,
         WatchInit, TicketsInit, CommandsInit, AdviceInit, ViewsInit, DutyInit,
         FleetInit, GateInit

LEMMA AuditGoes ==
    [ServicesNext]_<<focus, places>> =>
        UNCHANGED focus /\ (focus = "audit" => [Audit!Next]_Audit!vars)
  BY DEF ServicesNext, SettingsStep, ListsStep, DeploysStep, SetupStep,
         AppsStep, SecretsStep, AuditStep, FlagsStep, SharedStep, TasksStep,
         WatchStep, TicketsStep, CommandsStep, AdviceStep, ViewsStep, DutyStep,
         FleetStep, GateStep, places, rest5, rest6, rest7, rest8, Audit!vars,
         table, rows, trail, req, excused, requests, failures, restarts

LEMMA DutyStarts == ServicesInit /\ focus = "incidents" => Duty!Init
  BY DEF ServicesInit, SettingsInit, ListsInit, DeploysInit, SetupInit,
         AppsInit, SecretsInit, AuditInit, FlagsInit, SharedInit, TasksInit,
         WatchInit, TicketsInit, CommandsInit, AdviceInit, ViewsInit, DutyInit,
         FleetInit, GateInit

LEMMA DutyGoes ==
    [ServicesNext]_<<focus, places>> =>
        UNCHANGED focus /\ (focus = "incidents" => [Duty!Next]_Duty!vars)
  BY DEF ServicesNext, SettingsStep, ListsStep, DeploysStep, SetupStep,
         AppsStep, SecretsStep, AuditStep, FlagsStep, SharedStep, TasksStep,
         WatchStep, TicketsStep, CommandsStep, AdviceStep, ViewsStep, DutyStep,
         FleetStep, GateStep, places, rest5, rest6, Duty!vars, rota, store,
         created, unread, events, failures

LEMMA FleetStarts == ServicesInit /\ focus = "fleet" => Fleet!Init
  BY DEF ServicesInit, SettingsInit, ListsInit, DeploysInit, SetupInit,
         AppsInit, SecretsInit, AuditInit, FlagsInit, SharedInit, TasksInit,
         WatchInit, TicketsInit, CommandsInit, AdviceInit, ViewsInit, DutyInit,
         FleetInit, GateInit

LEMMA FleetGoes ==
    [ServicesNext]_<<focus, places>> =>
        UNCHANGED focus /\ (focus = "fleet" => [Fleet!Next]_Fleet!vars)
  BY DEF ServicesNext, SettingsStep, ListsStep, DeploysStep, SetupStep,
         AppsStep, SecretsStep, AuditStep, FlagsStep, SharedStep, TasksStep,
         WatchStep, TicketsStep, CommandsStep, AdviceStep, ViewsStep, DutyStep,
         FleetStep, GateStep, places, rest5, rest6, rest7, Fleet!vars, store,
         reading, now, seenUp, named, unread, failures

-----------------------------------------------------------------------------
(***************************************************************************)
(* The secrets.  The id of a secret is never given to another: the values  *)
(* that requests mean to insert are their own, and no secret that was ever *)
(* read has one of them as its id.  So a change that finds the row of its  *)
(* id finds the secret in whose history it has put its value.              *)
(***************************************************************************)
Changing(r) == req[r].at \in {"record", "update"}
Inserting(r) == req[r].at = "insert"

\* The ids in use are those of requests that have begun.
IdsGiven ==
    /\ secret # None => secret.id <= requests
    /\ \A r \in Slot : /\ Changing(r) => req[r].id <= requests
                       /\ Inserting(r) => req[r].value <= requests

\* What a request inserts is an id nobody has seen.
IdUnseen(r) ==
    Inserting(r) =>
        /\ secret # None => secret.id # req[r].value
        /\ \A other \in Slot : Changing(other) => req[other].id # req[r].value
        /\ \A other \in Slot : Inserting(other) /\ other # r => req[other].value # req[r].value

\* The history knows the value a request is about to put in the row.
Noted(r) ==
    (req[r].at = "update" /\ secret # None /\ secret.id = req[r].id) =>
        Secrets!NewVersion(req[r]) \in history \/ req[r].value \in lost

SecretsInv ==
    /\ Secrets!TypeOK
    /\ requests \in Nat
    /\ IdsGiven
    /\ \A r \in Slot : IdUnseen(r) /\ Noted(r)
    /\ Secrets!CurrentRecorded

LEMMA SecretsInitInv == Secrets!Init => SecretsInv
<1> SUFFICES ASSUME Secrets!Init PROVE SecretsInv
  OBVIOUS
<1>1. /\ secret = None /\ history = {} /\ lost = {} /\ requests = 0
      /\ req = [r \in Slot |-> Secrets!Idle]
  BY DEF Secrets!Init
<1>2. Secrets!TypeOK
  BY <1>1 DEF Secrets!TypeOK
<1>3. \A r \in Slot : ~Changing(r) /\ ~Inserting(r) /\ req[r].at # "update"
  BY <1>1 DEF Changing, Inserting, Secrets!Idle
<1> QED
  BY <1>1, <1>2, <1>3 DEF SecretsInv, IdsGiven, IdUnseen, Noted, Secrets!CurrentRecorded

\* What the slots hold, by where they are.
LEMMA SecretsSlots ==
    ASSUME SecretsInv, NEW r \in Slot
    PROVE  /\ req \in [Slot -> {Secrets!Idle} \cup Secrets!Request]
           /\ Changing(r) => /\ req[r] \in Secrets!Change
                             /\ req[r].id \in Nat /\ req[r].value \in Nat
                             /\ req[r].version \in Nat
           /\ Inserting(r) => req[r].value \in Nat /\ req[r].rotate \in BOOLEAN
           /\ secret # None => secret \in Secrets!Row
<1>1. /\ req \in [Slot -> {Secrets!Idle} \cup Secrets!Request]
      /\ secret # None => secret \in Secrets!Row
  BY DEF SecretsInv, Secrets!TypeOK
<1>2. Changing(r) => req[r] \in Secrets!Change
  BY <1>1 DEF Changing, Secrets!Request, Secrets!Idle
<1>3. Inserting(r) => req[r] \in [at : {"insert"}, value : Nat, rotate : BOOLEAN]
  BY <1>1 DEF Inserting, Secrets!Request, Secrets!Change, Secrets!Idle
<1> QED
  BY <1>1, <1>2, <1>3 DEF Secrets!Change

\* A request that has begun changes no row; it goes on with a new value.
LEMMA SecretsBegun ==
    ASSUME SecretsInv, NEW r \in Slot, Secrets!Begin(r), UNCHANGED <<secret, history, lost>>,
           NEW next \in {Secrets!Idle} \cup Secrets!Request, Secrets!Goto(r, next),
           \/ next.at = "idle"
           \/ next.at = "record" /\ secret # None /\ next.id = secret.id
           \/ next.at = "insert" /\ next.value = requests + 1
    PROVE  SecretsInv'
<1>1. req[r] = Secrets!Idle /\ requests' = requests + 1 /\ requests' \in Nat
  BY DEF Secrets!Begin, SecretsInv
<1>2. /\ req' \in [Slot -> {Secrets!Idle} \cup Secrets!Request]
      /\ \A s \in Slot : req'[s] = IF s = r THEN next ELSE req[s]
  BY SecretsSlots DEF Secrets!Goto
<1>3. Secrets!TypeOK'
  BY <1>2 DEF SecretsInv, Secrets!TypeOK
<1>4. requests \in Nat
  BY DEF SecretsInv
<1>5. secret # None => secret.id \in Nat
  BY SecretsSlots DEF Secrets!Row
<1>6. \A s \in Slot : s # r => /\ Changing(s)' <=> Changing(s)
                               /\ Inserting(s)' <=> Inserting(s)
                               /\ req'[s] = req[s]
  BY <1>2 DEF Changing, Inserting
<1>7. IdsGiven'
  <2>1. \A s \in Slot : (Changing(s) => req[s].id \in Nat) /\ (Inserting(s) =>
        req[s].value \in Nat)
    BY SecretsSlots
  <2>2. secret # None => secret.id <= requests'
    BY <1>1, <1>4, <1>5 DEF SecretsInv, IdsGiven
  <2>3. ASSUME NEW s \in Slot, s # r
        PROVE  /\ Changing(s)' => req'[s].id <= requests'
               /\ Inserting(s)' => req'[s].value <= requests'
    BY <1>1, <1>4, <1>6, <2>1, <2>3 DEF SecretsInv, IdsGiven
  <2>4. /\ Changing(r)' => req'[r].id <= requests'
        /\ Inserting(r)' => req'[r].value <= requests'
    BY <1>1, <1>2, <1>4, <2>2 DEF Changing, Inserting
  <2> QED
    BY <2>2, <2>3, <2>4 DEF IdsGiven
<1>8. \A s \in Slot : IdUnseen(s)'
  <2>1. \A s \in Slot : /\ Changing(s) => req[s].id \in Nat /\ req[s].id <= requests
                        /\ Inserting(s) => req[s].value \in Nat /\ req[s].value <= requests
    BY SecretsSlots DEF SecretsInv, IdsGiven
  <2>2. secret # None => secret.id <= requests
    BY DEF SecretsInv, IdsGiven
  <2>3. Changing(r)' => secret # None /\ req'[r].id = secret.id
    BY <1>2 DEF Changing
  <2>4. Inserting(r)' => req'[r].value = requests + 1
    BY <1>2 DEF Inserting
  <2>5. ASSUME NEW s \in Slot, s # r PROVE IdUnseen(s)'
    BY <1>1, <1>4, <1>6, <2>1, <2>3, <2>4, <2>5 DEF SecretsInv, IdUnseen
  <2>6. IdUnseen(r)'
    BY <1>4, <1>5, <1>6, <2>1, <2>2, <2>4 DEF IdUnseen, Changing, Inserting
  <2> QED
    BY <2>5, <2>6
<1>9. \A s \in Slot : Noted(s)'
  BY <1>2 DEF SecretsInv, Noted, Secrets!NewVersion
<1> QED
  BY <1>1, <1>3, <1>7, <1>8, <1>9 DEF SecretsInv, Secrets!CurrentRecorded

LEMMA postSecretInv ==
    ASSUME SecretsInv, NEW r \in Slot, NEW on \in BOOLEAN, Secrets!postSecret(r, on)
    PROVE  SecretsInv'
<1>1. PICK seen \in BOOLEAN :
        Secrets!Goto(r, IF seen /\ secret # None THEN Secrets!ChangeOf(secret, on)
                        ELSE [at |-> "insert", value |-> Secrets!NewValue, rotate |-> on])
  BY DEF Secrets!postSecret
<1>2. Secrets!Begin(r) /\ UNCHANGED <<secret, history, lost>>
  BY DEF Secrets!postSecret, Secrets!Rows
<1>3. Secrets!NewValue = requests + 1 /\ requests + 1 \in Nat
  BY DEF Secrets!NewValue, SecretsInv
<1>4. CASE seen /\ secret # None
  <2>1. secret \in Secrets!Row
    BY <1>4, SecretsSlots
  <2>2. /\ Secrets!ChangeOf(secret, on) \in Secrets!Request
        /\ Secrets!ChangeOf(secret, on).at = "record"
        /\ Secrets!ChangeOf(secret, on).id = secret.id
    BY <1>3, <2>1 DEF Secrets!ChangeOf, Secrets!Request, Secrets!Change, Secrets!Row
  <2> QED
    BY <1>1, <1>2, <1>4, <2>2, SecretsBegun
<1>5. CASE ~(seen /\ secret # None)
  <2> DEFINE next == [at |-> "insert", value |-> requests + 1, rotate |-> on]
  <2>1. next \in Secrets!Request /\ next.at = "insert" /\ next.value = requests + 1
    BY <1>3 DEF Secrets!Request
  <2>2. Secrets!Goto(r, next)
    BY <1>1, <1>3, <1>5
  <2> HIDE DEF next
  <2> QED
    BY <1>2, <2>1, <2>2, SecretsBegun
<1> QED
  BY <1>4, <1>5

LEMMA rotateInv ==
    ASSUME SecretsInv, NEW r \in Slot, NEW all \in BOOLEAN, Secrets!rotate(r, all)
    PROVE  SecretsInv'
<1>1. PICK seen \in BOOLEAN :
        Secrets!Goto(r, IF seen /\ secret # None /\ (all => secret.rotate /\ secret.due)
                        THEN Secrets!ChangeOf(secret, None) ELSE Secrets!Idle)
  BY DEF Secrets!rotate
<1>2. Secrets!Begin(r) /\ UNCHANGED <<secret, history, lost>>
  BY DEF Secrets!rotate, Secrets!Rows
<1>3. Secrets!NewValue = requests + 1 /\ requests + 1 \in Nat
  BY DEF Secrets!NewValue, SecretsInv
<1>4. CASE secret # None /\ Secrets!Goto(r, Secrets!ChangeOf(secret, None))
  <2>1. secret \in Secrets!Row
    BY <1>4, SecretsSlots
  <2>2. /\ Secrets!ChangeOf(secret, None) \in Secrets!Request
        /\ Secrets!ChangeOf(secret, None).at = "record"
        /\ Secrets!ChangeOf(secret, None).id = secret.id
    BY <1>3, <2>1 DEF Secrets!ChangeOf, Secrets!Request, Secrets!Change, Secrets!Row
  <2> QED
    BY <1>2, <1>4, <2>2, SecretsBegun
<1>5. CASE Secrets!Goto(r, Secrets!Idle)
  <2>1. Secrets!Idle.at = "idle"
    BY DEF Secrets!Idle
  <2> QED
    BY <1>2, <1>5, <2>1, SecretsBegun
<1> QED
  BY <1>1, <1>4, <1>5

\* A step that begins no request and adds none to those that change or insert.
LEMMA SecretsKept ==
    ASSUME SecretsInv, UNCHANGED requests, Secrets!TypeOK',
           secret' # None => secret' = secret \/ (secret # None /\ secret'.id = secret.id),
           \A s \in Slot : /\ Changing(s)' => Changing(s) /\ req'[s].id = req[s].id
                           /\ Inserting(s)' => Inserting(s) /\ req'[s] = req[s],
           \A s \in Slot : Noted(s)',
           Secrets!CurrentRecorded'
    PROVE  SecretsInv'
<1>1. requests' \in Nat
  BY DEF SecretsInv
<1>2. IdsGiven'
  BY DEF SecretsInv, IdsGiven
<1>3. \A s \in Slot : IdUnseen(s)'
  BY DEF SecretsInv, IdUnseen
<1> QED
  BY <1>1, <1>2, <1>3 DEF SecretsInv

LEMMA SecretsIdle ==
    ASSUME SecretsInv, NEW r \in Slot, Secrets!Goto(r, Secrets!Idle)
    PROVE  /\ req' \in [Slot -> {Secrets!Idle} \cup Secrets!Request]
           /\ \A s \in Slot : /\ req'[s] = IF s = r THEN Secrets!Idle ELSE req[s]
                              /\ Changing(s)' => s # r /\ Changing(s) /\ req'[s] = req[s]
                              /\ Inserting(s)' => s # r /\ Inserting(s) /\ req'[s] = req[s]
                              /\ req'[s].at = "update" => s # r /\ req'[s] = req[s]
<1>1. /\ req' \in [Slot -> {Secrets!Idle} \cup Secrets!Request]
      /\ \A s \in Slot : req'[s] = IF s = r THEN Secrets!Idle ELSE req[s]
  BY SecretsSlots DEF Secrets!Goto
<1> QED
  BY <1>1 DEF Changing, Inserting, Secrets!Idle

LEMMA insertSecretInv ==
    ASSUME SecretsInv, NEW r \in Slot, Secrets!insertSecret(r) PROVE SecretsInv'
<1>1. /\ Inserting(r) /\ Secrets!Goto(r, Secrets!Idle)
      /\ UNCHANGED <<history, lost, requests>>
  BY DEF Secrets!insertSecret, Inserting
<1>2. /\ req' \in [Slot -> {Secrets!Idle} \cup Secrets!Request]
      /\ \A s \in Slot : /\ Changing(s)' => s # r /\ Changing(s) /\ req'[s] = req[s]
                         /\ Inserting(s)' => s # r /\ Inserting(s) /\ req'[s] = req[s]
                         /\ req'[s].at = "update" => s # r /\ req'[s] = req[s]
  BY <1>1, SecretsIdle
<1>3. CASE UNCHANGED secret
  <2>1. Secrets!TypeOK'
    BY <1>1, <1>2, <1>3 DEF SecretsInv, Secrets!TypeOK
  <2>2. \A s \in Slot : Noted(s)'
    BY <1>1, <1>2, <1>3 DEF SecretsInv, Noted, Secrets!NewVersion
  <2>3. Secrets!CurrentRecorded'
    BY <1>1, <1>3 DEF SecretsInv, Secrets!CurrentRecorded
  <2> QED
    BY <1>1, <1>2, <1>3, <2>1, <2>2, <2>3, SecretsKept
<1>4. CASE /\ secret = None
           /\ secret' = [id |-> req[r].value, value |-> req[r].value, version |-> 1,
                         rotate |-> req[r].rotate, due |-> FALSE]
  <2>1. req[r].value \in Nat /\ req[r].rotate \in BOOLEAN /\ req[r].value <= requests
    BY <1>1, SecretsSlots DEF SecretsInv, IdsGiven
  <2>2. secret' \in Secrets!Row /\ secret'.id = req[r].value /\ secret'.version = 1
    BY <1>4, <2>1 DEF Secrets!Row
  <2>3. Secrets!TypeOK'
    BY <1>1, <1>2, <2>2 DEF SecretsInv, Secrets!TypeOK
  <2>4. \A s \in Slot : Changing(s)' => req'[s].id # secret'.id
    BY <1>1, <1>2, <2>2 DEF SecretsInv, IdUnseen
  <2>5. \A s \in Slot : Noted(s)'
    BY <2>4 DEF Noted, Changing
  <2>6. IdsGiven'
    BY <1>1, <1>2, <2>1, <2>2 DEF SecretsInv, IdsGiven
  <2>7. ASSUME NEW s \in Slot, Inserting(s)' PROVE IdUnseen(s)'
    <3>1. s # r /\ Inserting(s) /\ req'[s] = req[s]
      BY <1>2, <2>7
    <3>2. req[s].value # req[r].value
      BY <1>1, <3>1 DEF SecretsInv, IdUnseen
    <3> QED
      BY <1>2, <2>2, <3>1, <3>2 DEF SecretsInv, IdUnseen
  <2>8. Secrets!CurrentRecorded' /\ requests' \in Nat
    BY <1>1, <2>2 DEF Secrets!CurrentRecorded, SecretsInv
  <2> QED
    BY <2>3, <2>5, <2>6, <2>7, <2>8 DEF SecretsInv, IdUnseen
<1> QED
  BY <1>3, <1>4 DEF Secrets!insertSecret

LEMMA recordVersionInv ==
    ASSUME SecretsInv, NEW r \in Slot, Secrets!recordVersion(r) PROVE SecretsInv'
<1>1. /\ req[r].at = "record" /\ Changing(r)
      /\ req' = [req EXCEPT ![r].at = "update"]
      /\ UNCHANGED <<secret, requests>>
      /\ \/ /\ secret # None /\ secret.id = req[r].id
            /\ history' = history \cup {Secrets!NewVersion(req[r])} /\ UNCHANGED lost
         \/ lost' = lost \cup {req[r].value} /\ UNCHANGED history
  BY DEF Secrets!recordVersion, Changing
<1>2. /\ req \in [Slot -> {Secrets!Idle} \cup Secrets!Request]
      /\ req[r] \in Secrets!Change /\ req[r].value \in Nat /\ req[r].version \in Nat
  BY <1>1, SecretsSlots
<1>3. [req[r] EXCEPT !.at = "update"] \in Secrets!Change
  BY <1>2 DEF Secrets!Change
<1>4. /\ req' \in [Slot -> {Secrets!Idle} \cup Secrets!Request]
      /\ \A s \in Slot : req'[s] = IF s = r THEN [req[r] EXCEPT !.at = "update"] ELSE req[s]
  BY <1>1, <1>2, <1>3 DEF Secrets!Request
<1>5. /\ req'[r].at = "update" /\ req'[r].id = req[r].id /\ req'[r].value = req[r].value
      /\ req'[r].version = req[r].version
  BY <1>2, <1>4 DEF Secrets!Change
<1>6. history \subseteq history' /\ lost \subseteq lost'
  BY <1>1
<1>7. Secrets!TypeOK'
  <2>1. Secrets!NewVersion(req[r]) \in Secrets!Version
    BY <1>2 DEF Secrets!NewVersion, Secrets!Version
  <2>2. history' \subseteq Secrets!Version /\ lost' \subseteq Nat
    BY <1>1, <1>2, <2>1 DEF SecretsInv, Secrets!TypeOK
  <2> QED
    BY <1>1, <1>4, <2>2 DEF SecretsInv, Secrets!TypeOK
<1>8. \A s \in Slot : /\ Changing(s)' => Changing(s) /\ req'[s].id = req[s].id
                      /\ Inserting(s)' => Inserting(s) /\ req'[s] = req[s]
  BY <1>1, <1>4, <1>5 DEF Changing, Inserting
<1>9. \A s \in Slot : Noted(s)'
  <2>1. Secrets!NewVersion(req'[r]) = Secrets!NewVersion(req[r])
    BY <1>5 DEF Secrets!NewVersion
  <2>2. Secrets!NewVersion(req'[r]) \in history' \/ req'[r].value \in lost'
    BY <1>1, <1>5, <2>1
  <2>3. Noted(r)'
    BY <2>2 DEF Noted, Secrets!NewVersion
  <2>4. ASSUME NEW s \in Slot, s # r PROVE Noted(s)'
    BY <1>1, <1>4, <1>6, <2>4 DEF SecretsInv, Noted, Secrets!NewVersion
  <2> QED
    BY <2>3, <2>4
<1>10. Secrets!CurrentRecorded'
  BY <1>1, <1>6 DEF SecretsInv, Secrets!CurrentRecorded
<1> QED
  BY <1>1, <1>7, <1>8, <1>9, <1>10, SecretsKept

LEMMA updateSecretInv ==
    ASSUME SecretsInv, NEW r \in Slot, Secrets!updateSecret(r) PROVE SecretsInv'
<1>1. /\ req[r].at = "update" /\ Changing(r) /\ Secrets!Goto(r, Secrets!Idle)
      /\ UNCHANGED <<history, lost, requests>>
  BY DEF Secrets!updateSecret, Changing
<1>2. /\ req' \in [Slot -> {Secrets!Idle} \cup Secrets!Request]
      /\ \A s \in Slot : /\ Changing(s)' => s # r /\ Changing(s) /\ req'[s] = req[s]
                         /\ Inserting(s)' => s # r /\ Inserting(s) /\ req'[s] = req[s]
                         /\ req'[s].at = "update" => s # r /\ req'[s] = req[s]
  BY <1>1, SecretsIdle
<1>3. CASE UNCHANGED secret
  <2>1. Secrets!TypeOK'
    BY <1>1, <1>2, <1>3 DEF SecretsInv, Secrets!TypeOK
  <2>2. \A s \in Slot : Noted(s)'
    BY <1>1, <1>2, <1>3 DEF SecretsInv, Noted, Secrets!NewVersion
  <2>3. Secrets!CurrentRecorded'
    BY <1>1, <1>3 DEF SecretsInv, Secrets!CurrentRecorded
  <2> QED
    BY <1>1, <1>2, <1>3, <2>1, <2>2, <2>3, SecretsKept
<1>4. CASE /\ secret # None /\ secret.id = req[r].id
           /\ secret' = [secret EXCEPT
                !.value = req[r].value, !.version = req[r].version, !.due = FALSE,
                !.rotate = IF req[r].rotate = None THEN @ ELSE req[r].rotate]
  <2>1. /\ secret \in Secrets!Row /\ req[r] \in Secrets!Change
    BY <1>1, <1>4, SecretsSlots
  <2>2. /\ secret' \in Secrets!Row /\ secret'.id = secret.id
        /\ secret'.value = req[r].value /\ secret'.version = req[r].version
    BY <1>4, <2>1 DEF Secrets!Row, Secrets!Change
  <2>3. Secrets!TypeOK'
    BY <1>1, <1>2, <2>2 DEF SecretsInv, Secrets!TypeOK
  <2>4. Secrets!NewVersion(req[r]) \in history \/ req[r].value \in lost
    BY <1>1, <1>4 DEF SecretsInv, Noted
  <2>5. Secrets!CurrentRecorded'
    BY <1>1, <2>2, <2>4 DEF Secrets!CurrentRecorded, Secrets!NewVersion
  <2>6. \A s \in Slot : Noted(s)'
    BY <1>1, <1>2, <1>4, <2>2 DEF SecretsInv, Noted, Secrets!NewVersion
  <2> QED
    BY <1>1, <1>2, <1>4, <2>2, <2>3, <2>5, <2>6, SecretsKept
<1> QED
  BY <1>3, <1>4 DEF Secrets!updateSecret

LEMMA deleteSecretInv ==
    ASSUME SecretsInv, NEW r \in Slot, Secrets!deleteSecret(r) PROVE SecretsInv'
<1>1. /\ requests' = requests + 1 /\ UNCHANGED <<req, lost>>
      /\ (secret' = None /\ history' = {}) \/ UNCHANGED <<secret, history>>
  BY DEF Secrets!deleteSecret, Secrets!Begin
<1>2. requests \in Nat /\ requests' \in Nat
  BY <1>1 DEF SecretsInv
<1>3. Secrets!TypeOK'
  BY <1>1 DEF SecretsInv, Secrets!TypeOK
<1>4. \A s \in Slot : (Changing(s) => req[s].id \in Nat) /\ (Inserting(s) =>
      req[s].value \in Nat)
  BY SecretsSlots
<1>5. secret # None => secret.id \in Nat
  BY SecretsSlots DEF Secrets!Row
<1>6. IdsGiven'
  BY <1>1, <1>2, <1>4, <1>5 DEF SecretsInv, IdsGiven, Changing, Inserting
<1>7. \A s \in Slot : IdUnseen(s)' /\ Noted(s)'
  BY <1>1 DEF SecretsInv, IdUnseen, Noted, Changing, Inserting, Secrets!NewVersion
<1> QED
  BY <1>1, <1>2, <1>3, <1>6, <1>7 DEF SecretsInv, Secrets!CurrentRecorded

LEMMA BecomesDueInv == ASSUME SecretsInv, Secrets!BecomesDue PROVE SecretsInv'
<1>1. /\ secret # None /\ secret' = [secret EXCEPT !.due = TRUE]
      /\ UNCHANGED <<history, req, lost, requests>>
  BY DEF Secrets!BecomesDue
<1>2. secret \in Secrets!Row
  BY <1>1 DEF SecretsInv, Secrets!TypeOK
<1>3. /\ secret' \in Secrets!Row /\ secret'.id = secret.id
      /\ secret'.value = secret.value /\ secret'.version = secret.version
  BY <1>1, <1>2 DEF Secrets!Row
<1>4. Secrets!TypeOK'
  BY <1>1, <1>3 DEF SecretsInv, Secrets!TypeOK
<1>5. \A s \in Slot : Noted(s)'
  BY <1>1, <1>3 DEF SecretsInv, Noted, Secrets!NewVersion
<1>6. Secrets!CurrentRecorded'
  BY <1>1, <1>3 DEF SecretsInv, Secrets!CurrentRecorded
<1> QED
  BY <1>1, <1>3, <1>4, <1>5, <1>6, SecretsKept DEF Changing, Inserting

LEMMA SecretsStepInv ==
    ASSUME SecretsInv, [Secrets!Next]_Secrets!vars PROVE SecretsInv'
<1>1. CASE UNCHANGED Secrets!vars
  <2>1. UNCHANGED <<secret, history, req, lost, requests>>
    BY <1>1 DEF Secrets!vars
  <2>2. Secrets!TypeOK' /\ \A s \in Slot : Noted(s)'
    BY <2>1 DEF SecretsInv, Secrets!TypeOK, Noted, Secrets!NewVersion
  <2>3. Secrets!CurrentRecorded'
    BY <2>1 DEF SecretsInv, Secrets!CurrentRecorded
  <2> QED
    BY <2>1, <2>2, <2>3, SecretsKept DEF Changing, Inserting
<1>2. CASE Secrets!Next
  BY <1>2, postSecretInv, insertSecretInv, rotateInv, recordVersionInv, updateSecretInv,
     deleteSecretInv, BecomesDueInv DEF Secrets!Next
<1> QED
  BY <1>1, <1>2

-----------------------------------------------------------------------------
(***************************************************************************)
(* The audit log.  Of every row that is listed the log tells, or a request *)
(* is about to tell, that it was made and that it was given what it holds, *)
(* and nothing tells of its deletion by its owner; of every row that was   *)
(* made and is listed no more it tells the deletion: unless an entry was   *)
(* given up, or the row went with its app.  The id of a row is that of the *)
(* request that made it, so nothing tells of a row that is still to come.  *)
(***************************************************************************)
Tells(e) == e \in trail \/ \E r \in Slot : req[r] = e
Deletion(u, id) == [user |-> u, action |-> "delete", id |-> id, on |-> FALSE]
InList(row) == table = "api_keys" => row.on

MakingTold(row) ==
    \E e \in Audit!Entry :
        Tells(e) /\ e.user = row.owner /\ e.id = row.id /\ e.action = "create"
ContentTold(row) ==
    \E e \in Audit!Entry :
        /\ Tells(e) /\ e.user = row.owner /\ e.id = row.id
        /\ e.action # "delete" /\ e.on = row.on

RowIds ==
    /\ \A row \in rows : row.id <= requests
    /\ \A row, other \in rows : row.id = other.id => row = other
    /\ \A e \in Audit!Entry : Tells(e) => e.id <= requests

RowsTold ==
    \A row \in rows : InList(row) =>
        /\ ~Tells(Deletion(row.owner, row.id))
        /\ row.id \notin excused => MakingTold(row) /\ ContentTold(row)

GoneTold ==
    \A e \in Audit!Entry :
        Tells(e) /\ e.action = "create" /\ e.id \notin excused =>
            \/ \E row \in rows : row.owner = e.user /\ row.id = e.id /\ InList(row)
            \/ Tells(Deletion(e.user, e.id))

AuditInv ==
    /\ Audit!TypeOK
    /\ requests \in Nat
    /\ RowIds
    /\ RowsTold
    /\ GoneTold

LEMMA NoneIsNoEntry == None \notin Audit!Entry
  BY ServicesAssumption DEF Audit!Entry

LEMMA AuditInitInv == Audit!Init => AuditInv
<1> SUFFICES ASSUME Audit!Init PROVE AuditInv
  OBVIOUS
<1>1. /\ table \in AuditTable /\ rows = {} /\ trail = {} /\ req = [r \in Slot |-> None]
      /\ excused = {} /\ requests = 0 /\ failures = 0 /\ restarts = 0
  BY DEF Audit!Init
<1>2. {MaxFailures, MaxRestarts} \subseteq Nat /\ Requests.audit \in Nat
  BY ServicesAssumption
<1>3. Audit!TypeOK
  BY <1>1, <1>2 DEF Audit!TypeOK
<1>4. \A e \in Audit!Entry : ~Tells(e)
  BY <1>1, NoneIsNoEntry DEF Tells
<1> QED
  BY <1>1, <1>3, <1>4 DEF AuditInv, RowIds, RowsTold, GoneTold

LEMMA AuditTypes ==
    ASSUME AuditInv
    PROVE  /\ requests \in Nat /\ rows \subseteq Audit!Row
           /\ \A row \in rows : row.id \in Nat /\ row.owner \in User /\ row.on \in BOOLEAN
           /\ req \in [Slot -> Audit!Entry \cup {None}]
  BY DEF AuditInv, Audit!TypeOK, Audit!Row

LEMMA DeletionIsEntry ==
    ASSUME NEW u \in User, NEW id \in Nat
    PROVE  /\ Deletion(u, id) \in Audit!Entry
           /\ Deletion(u, id).user = u /\ Deletion(u, id).id = id
           /\ Deletion(u, id).action = "delete" /\ Deletion(u, id).on = FALSE
  BY DEF Deletion, Audit!Entry

\* The statement failed: a number was used up.
LEMMA AuditSame ==
    ASSUME AuditInv, Audit!TypeOK', requests' \in {requests, requests + 1},
           UNCHANGED <<table, rows, trail, req, excused>>
    PROVE  AuditInv'
<1>1. requests \in Nat /\ requests' \in Nat /\ requests <= requests'
  BY AuditTypes
<1>2. \A e \in Audit!Entry : e.id \in Nat /\ (Tells(e)' <=> Tells(e))
  BY DEF Tells, Audit!Entry
<1>3. RowIds'
  BY <1>1, <1>2, AuditTypes DEF AuditInv, RowIds
<1>4. \A row : /\ InList(row)' <=> InList(row)
               /\ MakingTold(row)' <=> MakingTold(row)
               /\ ContentTold(row)' <=> ContentTold(row)
  BY DEF InList, MakingTold, ContentTold, Tells
<1>5. RowsTold'
  <2>1. \A row \in rows : Tells(Deletion(row.owner, row.id))' <=> Tells(Deletion(row.owner,
        row.id))
    BY DEF Tells, Deletion
  <2> QED
    BY <1>4, <2>1 DEF AuditInv, RowsTold
<1>6. GoneTold'
  BY <1>2, <1>4 DEF AuditInv, GoneTold, Tells, Deletion
<1> QED
  BY <1>1, <1>3, <1>5, <1>6 DEF AuditInv

\* The statement succeeded and the entry is to come.  Of the rows after it, a
\* listed one was listed before and is not what was deleted, or is the one
\* that was made, or that was given a new content; a row that was listed is
\* listed still, or was deleted.
LEMMA AuditDone ==
    ASSUME AuditInv, Audit!TypeOK', NEW r \in Slot, NEW e \in Audit!Entry,
           requests' = requests + 1, e.id <= requests + 1,
           e.action = "delete" => e.on = FALSE,
           e.action = "create" =>
               /\ e.id = requests + 1
               /\ \E row \in rows' : row.owner = e.user /\ row.id = e.id /\ InList(row),
           \A row \in rows' : row.id <= requests + 1,
           \A row, other \in rows' : row.id = other.id => row = other,
           \A row \in rows' : InList(row) =>
               \/ row \in rows /\ ~(e.action = "delete" /\ row.owner = e.user /\ row.id = e.id)
               \/ /\ row.owner = e.user /\ row.id = e.id /\ row.on = e.on
                  /\ \/ e.action = "create"
                     \/ /\ e.action = "update"
                        /\ \E old \in rows : old.owner = e.user /\ old.id = e.id /\ InList(old),
           \A old \in rows : InList(old) =>
               \/ \E row \in rows' : row.owner = old.owner /\ row.id = old.id /\ InList(row)
               \/ e.action = "delete" /\ old.owner = e.user /\ old.id = e.id,
           req[r] = None, req' = [req EXCEPT ![r] = e],
           UNCHANGED <<table, trail, excused>>
    PROVE  AuditInv'
<1>1. requests \in Nat /\ requests' \in Nat /\ e.id \in Nat /\ e.user \in User
  BY AuditTypes DEF Audit!Entry
<1>2. \A row \in rows' : row.id \in Nat /\ row.owner \in User /\ row.on \in BOOLEAN
  BY DEF Audit!TypeOK, Audit!Row
<1>3. ASSUME NEW x \in Audit!Entry PROVE Tells(x)' <=> (Tells(x) \/ x = e)
  <2>1. \A s \in Slot : req'[s] = IF s = r THEN e ELSE req[s]
    BY AuditTypes
  <2> QED
    BY <2>1, NoneIsNoEntry DEF Tells
<1>4. \A row : InList(row)' <=> InList(row)
  BY DEF InList
<1>5. \A x \in Audit!Entry : x.id \in Nat
  BY DEF Audit!Entry
<1>6. RowIds'
  BY <1>1, <1>3, <1>5 DEF AuditInv, RowIds
<1>7. RowsTold'
  <2> SUFFICES ASSUME NEW row \in rows', InList(row)
               PROVE  /\ ~Tells(Deletion(row.owner, row.id))'
                      /\ row.id \notin excused => MakingTold(row)' /\ ContentTold(row)'
    BY <1>4 DEF RowsTold, MakingTold, ContentTold, Tells, Deletion
  <2>1. /\ Deletion(row.owner, row.id) \in Audit!Entry
        /\ Deletion(row.owner, row.id).user = row.owner /\ Deletion(row.owner,
           row.id).id = row.id
        /\ Deletion(row.owner, row.id).action = "delete"
    <3>1. row.owner \in User /\ row.id \in Nat
      BY <1>2
    <3> QED
      BY <3>1, DeletionIsEntry DEF Deletion
  <2>2. /\ MakingTold(row)' <=> \E x \in Audit!Entry :
               /\ Tells(x) \/ x = e
               /\ x.user = row.owner /\ x.id = row.id /\ x.action = "create"
        /\ ContentTold(row)' <=> \E x \in Audit!Entry :
               /\ Tells(x) \/ x = e
               /\ x.user = row.owner /\ x.id = row.id
               /\ x.action # "delete" /\ x.on = row.on
    BY <1>3 DEF MakingTold, ContentTold
  <2>3. CASE row \in rows /\ ~(e.action = "delete" /\ row.owner = e.user /\ row.id = e.id)
    <3>1. /\ ~Tells(Deletion(row.owner, row.id))
          /\ row.id \notin excused => MakingTold(row) /\ ContentTold(row)
      BY <2>3 DEF AuditInv, RowsTold
    <3>2. Deletion(row.owner, row.id) # e
      BY <2>1, <2>3
    <3>3. ~Tells(Deletion(row.owner, row.id))'
      BY <1>3, <2>1, <3>1, <3>2
    <3> QED
      BY <2>2, <3>1, <3>3 DEF MakingTold, ContentTold
  <2>4. CASE /\ row.owner = e.user /\ row.id = e.id /\ row.on = e.on
             /\ e.action = "create"
    <3>1. ~Tells(Deletion(row.owner, row.id))
      BY <1>1, <2>1, <2>4 DEF AuditInv, RowIds
    <3> QED
      BY <1>3, <2>1, <2>2, <2>4, <3>1
  <2>5. CASE /\ row.owner = e.user /\ row.id = e.id /\ row.on = e.on
             /\ e.action = "update"
             /\ \E old \in rows : old.owner = e.user /\ old.id = e.id /\ InList(old)
    <3>1. PICK old \in rows : old.owner = e.user /\ old.id = e.id /\ InList(old)
      BY <2>5
    <3>2. /\ ~Tells(Deletion(row.owner, row.id))
          /\ row.id \notin excused => MakingTold(old)
      BY <2>5, <3>1 DEF AuditInv, RowsTold
    <3>3. row.id \notin excused => MakingTold(row)
      BY <2>5, <3>1, <3>2 DEF MakingTold
    <3> QED
      BY <1>3, <2>1, <2>2, <2>5, <3>2, <3>3 DEF MakingTold
  <2> QED
    BY <2>3, <2>4, <2>5
<1>8. GoneTold'
  <2> SUFFICES ASSUME NEW x \in Audit!Entry, Tells(x)', x.action = "create", x.id \notin excused
               PROVE  \/ \E row \in rows' : row.owner = x.user /\ row.id = x.id /\ InList(row)
                      \/ Tells(Deletion(x.user, x.id))'
    BY <1>4 DEF GoneTold, Tells, Deletion
  <2>1. /\ x.user \in User /\ x.id \in Nat
        /\ Deletion(x.user, x.id) \in Audit!Entry
    BY DeletionIsEntry DEF Audit!Entry
  <2>2. CASE x = e
    BY <2>2
  <2>3. CASE Tells(x)
    <3>1. CASE Tells(Deletion(x.user, x.id))
      BY <1>3, <2>1, <3>1
    <3>2. CASE \E row \in rows : row.owner = x.user /\ row.id = x.id /\ InList(row)
      <4>1. PICK old \in rows : old.owner = x.user /\ old.id = x.id /\ InList(old)
        BY <3>2
      <4>2. CASE e.action = "delete" /\ old.owner = e.user /\ old.id = e.id
        <5>1. e.user = x.user /\ e.id = x.id /\ e.action = "delete" /\ e.on = FALSE
          BY <4>1, <4>2
        <5>2. e = Deletion(x.user, x.id)
          BY <2>1, <5>1 DEF Deletion, Audit!Entry
        <5> QED
          BY <1>3, <2>1, <5>2
      <4> QED
        BY <4>1, <4>2
    <3> QED
      BY <2>3, <3>1, <3>2 DEF AuditInv, GoneTold
  <2> QED
    BY <1>3, <2>2, <2>3
<1> QED
  BY <1>1, <1>6, <1>7, <1>8 DEF AuditInv

\* A statement and, if it succeeds, the entry that is to come.
ChangeStep(r, after, e) ==
    /\ requests < Requests.audit /\ requests' = requests + 1
    /\ UNCHANGED <<table, trail, excused, restarts>>
    /\ req[r] = None
    /\ \/ /\ rows' = after /\ UNCHANGED failures
          /\ req' = [req EXCEPT ![r] = e]
       \/ UNCHANGED <<rows, req>> /\ failures < MaxFailures /\ failures' = failures + 1

LEMMA AuditChange ==
    ASSUME AuditInv, NEW r \in Slot, NEW after \in SUBSET Audit!Row, NEW e \in Audit!Entry,
           ChangeStep(r, after, e)
    PROVE  /\ Audit!TypeOK'
           /\ requests' = requests + 1
           /\ UNCHANGED <<table, trail, excused>>
           /\ \/ UNCHANGED <<rows, req>>
              \/ rows' = after /\ req[r] = None /\ req' = [req EXCEPT ![r] = e]
<1>1. MaxFailures \in Nat /\ Requests.audit \in Nat
  BY ServicesAssumption
<1>2. req' \in [Slot -> Audit!Entry \cup {None}]
  BY AuditTypes DEF ChangeStep
<1>3. requests' \in 0..Requests.audit /\ failures' \in 0..MaxFailures
  BY <1>1 DEF AuditInv, Audit!TypeOK, ChangeStep
<1>4. Audit!TypeOK'
  BY <1>2, <1>3 DEF AuditInv, Audit!TypeOK, ChangeStep
<1> QED
  BY <1>4 DEF ChangeStep

LEMMA InsertAuditInv ==
    ASSUME AuditInv, NEW r \in Slot, NEW t, NEW u \in User, NEW on \in BOOLEAN,
           t = "api_keys" => on, Audit!Insert(r, t, u, on)
    PROVE  AuditInv'
<1> DEFINE row == [id |-> requests + 1, owner |-> u, on |-> on]
           after == rows \cup {row}
           e == [user |-> u, action |-> "create", id |-> requests + 1, on |-> on]
<1>1. requests \in Nat /\ requests + 1 \in Nat
  BY AuditTypes
<1>2. row \in Audit!Row /\ after \in SUBSET Audit!Row /\ e \in Audit!Entry
  BY <1>1, AuditTypes DEF Audit!Row, Audit!Entry
<1>3. ChangeStep(r, after, e) /\ table = t
  BY DEF Audit!Insert, Audit!NewId, Audit!Change, Audit!Ok, Audit!Error, ChangeStep
<1>4. /\ Audit!TypeOK'
      /\ requests' = requests + 1 /\ table = t
      /\ UNCHANGED <<table, trail, excused>>
      /\ \/ UNCHANGED <<rows, req>>
         \/ rows' = after /\ req[r] = None /\ req' = [req EXCEPT ![r] = e]
  <2> HIDE DEF after, e
  <2> QED
    BY <1>2, <1>3, AuditChange
<1>5. CASE UNCHANGED <<rows, req>>
  BY <1>4, <1>5, AuditSame
<1>6. CASE rows' = after /\ req[r] = None /\ req' = [req EXCEPT ![r] = e]
  <2>1. row \in rows' /\ row.owner = e.user /\ row.id = e.id /\ row.on = e.on /\ InList(row)
    BY <1>4, <1>6 DEF InList
  <2>2. \A other \in rows : other.id \in Nat /\ other.id <= requests
    BY AuditTypes DEF AuditInv, RowIds
  <2>3. \A one \in rows' : one \in rows \/ one = row
    BY <1>6
  <2>4. e.action = "create" /\ e.id = requests + 1 /\ row.id = requests + 1
    OBVIOUS
  <2> HIDE DEF row, e, after
  <2>5. \A one \in rows' : one.id <= requests + 1
    BY <1>1, <2>2, <2>3, <2>4
  <2>6. \A one, other \in rows' : one.id = other.id => one = other
    BY <1>1, <2>2, <2>3, <2>4 DEF AuditInv, RowIds
  <2>7. \A old \in rows : old \in rows'
    BY <1>6 DEF after
  <2>8. e.id <= requests + 1 /\ e.action # "delete"
    BY <1>1, <2>4
  <2> QED
    BY <1>2, <1>4, <1>6, <2>1, <2>3, <2>4, <2>5, <2>6, <2>7, <2>8, AuditDone
<1> QED
  BY <1>4, <1>5, <1>6

\* Mine is the row of the id, if the user owns it.
LEMMA MineIsOne ==
    ASSUME AuditInv, NEW u \in User, NEW id \in Nat
    PROVE  /\ Audit!Mine(u, id) \subseteq rows
           /\ \A row \in rows : row \in Audit!Mine(u, id) <=> row.id = id /\ row.owner = u
           /\ \A row \in rows : \A mine \in Audit!Mine(u, id) : row.id = id => row = mine
  BY DEF Audit!Mine, AuditInv, RowIds

\* A row that is on or off now, and otherwise as it was.
LEMMA RowSwitched ==
    ASSUME AuditInv, NEW old \in rows, NEW on \in BOOLEAN
    PROVE  LET row == [old EXCEPT !.on = on] IN
           row \in Audit!Row /\ row.id = old.id /\ row.owner = old.owner /\ row.on = on
<1>1. old \in Audit!Row
  BY AuditTypes
<1> QED
  BY <1>1 DEF Audit!Row

LEMMA SwitchAuditInv ==
    ASSUME AuditInv, NEW r \in Slot, NEW t, NEW u \in User, NEW on \in BOOLEAN,
           NEW id \in 1..requests, NEW action \in {"update", "delete"},
           action = "update" => t # "api_keys" /\ Audit!Mine(u, id) # {},
           action = "delete" => t = "api_keys" /\ on = FALSE,
           Audit!Change(r, t,
               (rows \ Audit!Mine(u,
                 id)) \cup {[row EXCEPT !.on = on] : row \in Audit!Mine(u, id)},
               u, action, id, on)
    PROVE  AuditInv'
<1> DEFINE after == (rows \ Audit!Mine(u, id))
                        \cup {[row EXCEPT !.on = on] : row \in Audit!Mine(u, id)}
           e == [user |-> u, action |-> action, id |-> id, on |-> on]
<1>1. requests \in Nat /\ requests + 1 \in Nat /\ id \in Nat /\ id <= requests
  BY AuditTypes
<1>2. \A row \in after :
        \/ row \in rows /\ row \notin Audit!Mine(u, id)
        \/ \E old \in Audit!Mine(u, id) : row = [old EXCEPT !.on = on]
  OBVIOUS
<1>3. \A old \in rows : \/ old \in after
                        \/ old \in Audit!Mine(u, id) /\ [old EXCEPT !.on = on] \in after
  OBVIOUS
<1>4. e \in Audit!Entry /\ e.user = u /\ e.id = id /\ e.action = action /\ e.on = on
  BY <1>1 DEF Audit!Entry
<1>5. ChangeStep(r, after, e) /\ table = t
  BY DEF Audit!Change, Audit!Ok, Audit!Error, ChangeStep
<1> HIDE DEF after
\* The rows after it, and what they were before.
<1>6. ASSUME NEW row \in after
      PROVE  /\ row \in Audit!Row
             /\ \/ row \in rows /\ ~(row.id = id /\ row.owner = u)
                \/ \E old \in rows : /\ old.id = id /\ old.owner = u
                                     /\ row.id = id /\ row.owner = u /\ row.on = on
                                     /\ row = [old EXCEPT !.on = on]
  <2>1. CASE row \in rows /\ row \notin Audit!Mine(u, id)
    BY <1>1, <2>1, MineIsOne, AuditTypes
  <2>2. CASE \E old \in Audit!Mine(u, id) : row = [old EXCEPT !.on = on]
    <3>1. PICK old \in Audit!Mine(u, id) : row = [old EXCEPT !.on = on]
      BY <2>2
    <3>2. old \in rows /\ old.id = id /\ old.owner = u
      BY <1>1, MineIsOne
    <3> QED
      BY <3>1, <3>2, RowSwitched
  <2> QED
    BY <1>2, <2>1, <2>2
<1>7. ASSUME NEW old \in rows
      PROVE  \E row \in after :
                 /\ row.id = old.id /\ row.owner = old.owner
                 /\ \/ row = old
                    \/ row.on = on /\ old.id = id /\ old.owner = u
  <2>1. CASE old \in after
    BY <2>1
  <2>2. CASE old \in Audit!Mine(u, id) /\ [old EXCEPT !.on = on] \in after
    <3> DEFINE row == [old EXCEPT !.on = on]
    <3>1. old.id = id /\ old.owner = u
      BY <1>1, <2>2, MineIsOne
    <3>2. row.id = old.id /\ row.owner = old.owner /\ row.on = on /\ row \in after
      BY <2>2, RowSwitched
    <3> HIDE DEF row
    <3> QED
      BY <3>1, <3>2
  <2> QED
    BY <1>3, <2>1, <2>2
<1>8. /\ Audit!TypeOK'
      /\ requests' = requests + 1 /\ table = t
      /\ UNCHANGED <<table, trail, excused>>
      /\ \/ UNCHANGED <<rows, req>>
         \/ rows' = after /\ req[r] = None /\ req' = [req EXCEPT ![r] = e]
  <2>1. after \in SUBSET Audit!Row
    BY <1>6
  <2> HIDE DEF e
  <2> QED
    BY <1>4, <1>5, <2>1, AuditChange
<1>9. CASE UNCHANGED <<rows, req>>
  BY <1>8, <1>9, AuditSame
<1>10. CASE rows' = after /\ req[r] = None /\ req' = [req EXCEPT ![r] = e]
  <2> HIDE DEF e
  <2>1. \A old \in rows : old.id \in Nat /\ old.id <= requests
    BY AuditTypes DEF AuditInv, RowIds
  <2>2. \A row \in rows' : row.id <= requests + 1
    BY <1>1, <1>6, <1>10, <2>1
  <2>3. \A row, other \in rows' : row.id = other.id => row = other
    <3> SUFFICES ASSUME NEW row \in after, NEW other \in after, row.id = other.id
                 PROVE  row = other
      BY <1>10
    <3>1. \A a, b \in rows : a.id = b.id => a = b
      BY DEF AuditInv, RowIds
    <3> QED
      BY <1>6, <3>1
  <2>4. ASSUME NEW row \in rows', InList(row)
        PROVE  \/ row \in rows /\ ~(e.action = "delete" /\ row.owner = e.user /\ row.id = e.id)
               \/ /\ row.owner = e.user /\ row.id = e.id /\ row.on = e.on
                  /\ e.action = "update"
                  /\ \E old \in rows : old.owner = e.user /\ old.id = e.id /\ InList(old)
    BY <1>4, <1>6, <1>8, <1>10, <2>4 DEF InList
  <2>5. ASSUME NEW old \in rows, InList(old)
        PROVE  \/ \E row \in rows' : row.owner = old.owner /\ row.id = old.id /\ InList(row)
               \/ e.action = "delete" /\ old.owner = e.user /\ old.id = e.id
    BY <1>4, <1>7, <1>8, <1>10, <2>5 DEF InList
  <2>6. /\ e.id <= requests + 1 /\ e.action # "create"
        /\ e.action = "delete" => e.on = FALSE
    BY <1>1, <1>4
  <2> QED
    BY <1>4, <1>8, <1>10, <2>2, <2>3, <2>4, <2>5, <2>6, AuditDone
<1> QED
  BY <1>8, <1>9, <1>10

LEMMA DeleteAuditInv ==
    ASSUME AuditInv, NEW r \in Slot, NEW t, NEW u \in User, NEW id \in 1..requests,
           Audit!Delete(r, t, u, id)
    PROVE  AuditInv'
<1> DEFINE after == rows \ Audit!Mine(u, id)
           e == [user |-> u, action |-> "delete", id |-> id, on |-> FALSE]
<1>1. requests \in Nat /\ requests + 1 \in Nat /\ id \in Nat /\ id <= requests
  BY AuditTypes
<1>2. e \in Audit!Entry /\ e.user = u /\ e.id = id /\ e.action = "delete" /\ e.on = FALSE
  BY <1>1 DEF Audit!Entry
<1>3. ChangeStep(r, after, e) /\ table = t
  BY DEF Audit!Delete, Audit!Change, Audit!Ok, Audit!Error, ChangeStep
<1>4. /\ after \in SUBSET Audit!Row
      /\ \A row \in rows : row \in after <=> ~(row.id = id /\ row.owner = u)
      /\ \A row \in after : row \in rows
  BY <1>1, MineIsOne, AuditTypes
<1> HIDE DEF after
<1>5. /\ Audit!TypeOK'
      /\ requests' = requests + 1 /\ table = t
      /\ UNCHANGED <<table, trail, excused>>
      /\ \/ UNCHANGED <<rows, req>>
         \/ rows' = after /\ req[r] = None /\ req' = [req EXCEPT ![r] = e]
  <2> HIDE DEF e
  <2> QED
    BY <1>2, <1>3, <1>4, AuditChange
<1>6. CASE UNCHANGED <<rows, req>>
  BY <1>5, <1>6, AuditSame
<1>7. CASE rows' = after /\ req[r] = None /\ req' = [req EXCEPT ![r] = e]
  <2> HIDE DEF e
  <2>1. \A old \in rows : old.id \in Nat /\ old.id <= requests
    BY AuditTypes DEF AuditInv, RowIds
  <2>2. \A row \in rows' : row.id <= requests + 1
    BY <1>1, <1>4, <1>7, <2>1
  <2>3. \A row, other \in rows' : row.id = other.id => row = other
    BY <1>4, <1>7 DEF AuditInv, RowIds
  <2>4. ASSUME NEW row \in rows'
        PROVE  row \in rows /\ ~(e.action = "delete" /\ row.owner = e.user /\ row.id = e.id)
    BY <1>2, <1>4, <1>7
  <2>5. ASSUME NEW old \in rows, InList(old)
        PROVE  \/ \E row \in rows' : row.owner = old.owner /\ row.id = old.id /\ InList(row)
               \/ e.action = "delete" /\ old.owner = e.user /\ old.id = e.id
    BY <1>2, <1>4, <1>7, <2>5
  <2>6. e.id <= requests + 1 /\ e.action # "create"
    BY <1>1, <1>2
  <2> QED
    BY <1>2, <1>5, <1>7, <2>2, <2>3, <2>4, <2>5, <2>6, AuditDone
<1> QED
  BY <1>5, <1>6, <1>7

\* An entry was written or given up: what is told is told still, or excused.
LEMMA AuditWritten ==
    ASSUME AuditInv, Audit!TypeOK', UNCHANGED <<table, rows, requests>>,
           excused \subseteq excused',
           \A e \in Audit!Entry : Tells(e)' => Tells(e),
           \A e \in Audit!Entry : Tells(e) => Tells(e)' \/ e.id \in excused'
    PROVE  AuditInv'
<1>1. \A row : InList(row)' <=> InList(row)
  BY DEF InList
<1>2. requests' \in Nat /\ RowIds'
  BY DEF AuditInv, RowIds
<1>3. RowsTold'
  <2> SUFFICES ASSUME NEW row \in rows, InList(row)
               PROVE  /\ ~Tells(Deletion(row.owner, row.id))'
                      /\ row.id \notin excused' => MakingTold(row)' /\ ContentTold(row)'
    BY <1>1 DEF RowsTold, MakingTold, ContentTold, Tells, Deletion
  <2>1. Deletion(row.owner, row.id) \in Audit!Entry
    BY AuditTypes, DeletionIsEntry
  <2>2. /\ ~Tells(Deletion(row.owner, row.id))
        /\ row.id \notin excused => MakingTold(row) /\ ContentTold(row)
    BY DEF AuditInv, RowsTold
  <2>3. ~Tells(Deletion(row.owner, row.id))'
    BY <2>1, <2>2
  <2> QED
    BY <2>2, <2>3 DEF MakingTold, ContentTold
<1>4. GoneTold'
  <2> SUFFICES ASSUME NEW x \in Audit!Entry, Tells(x)', x.action = "create",
    x.id \notin excused'
               PROVE  \/ \E row \in rows : row.owner = x.user /\ row.id = x.id /\ InList(row)
                      \/ Tells(Deletion(x.user, x.id))'
    BY <1>1 DEF GoneTold, Tells, Deletion
  <2>1. x.user \in User /\ x.id \in Nat
    BY DEF Audit!Entry
  <2>2. /\ Deletion(x.user, x.id) \in Audit!Entry
        /\ Deletion(x.user, x.id).id = x.id
    BY <2>1, DeletionIsEntry DEF Deletion
  <2> QED
    BY <2>2 DEF AuditInv, GoneTold
<1> QED
  BY <1>2, <1>3, <1>4 DEF AuditInv

LEMMA logAuditInv ==
    ASSUME AuditInv, NEW r \in Slot, Audit!logAudit(r)
    PROVE  AuditInv'
<1>1. /\ req[r] # None /\ req' = [req EXCEPT ![r] = None]
      /\ UNCHANGED <<table, rows, requests, restarts>>
      /\ \/ trail' = trail \cup {req[r]} /\ UNCHANGED <<excused, failures>>
         \/ /\ UNCHANGED trail /\ excused' = excused \cup {req[r].id}
            /\ failures < MaxFailures /\ failures' = failures + 1
  BY DEF Audit!logAudit, Audit!Ok, Audit!Error
<1>2. req[r] \in Audit!Entry /\ req[r].id \in Nat
  BY <1>1, AuditTypes DEF Audit!Entry
<1>3. /\ req' \in [Slot -> Audit!Entry \cup {None}]
      /\ \A s \in Slot : req'[s] = IF s = r THEN None ELSE req[s]
  BY <1>1, AuditTypes
<1>4. MaxFailures \in Nat
  BY ServicesAssumption
<1>5. trail \subseteq Audit!Entry /\ excused \subseteq Nat /\ failures \in 0..MaxFailures
  BY DEF AuditInv, Audit!TypeOK
<1>6. trail' \subseteq Audit!Entry /\ excused' \subseteq Nat /\ failures' \in 0..MaxFailures
  <2>1. trail' \subseteq Audit!Entry
    BY <1>1, <1>2, <1>5
  <2>2. excused' \subseteq Nat
    BY <1>1, <1>2, <1>5
  <2>3. failures' \in 0..MaxFailures
    BY <1>1, <1>4, <1>5
  <2> QED
    BY <2>1, <2>2, <2>3
<1>7. Audit!TypeOK'
  BY <1>1, <1>3, <1>6 DEF AuditInv, Audit!TypeOK
<1>8. ASSUME NEW e \in Audit!Entry
      PROVE  (Tells(e)' => Tells(e)) /\ (Tells(e) => Tells(e)' \/ e.id \in excused')
  <2>1. e # None
    BY NoneIsNoEntry
  <2> QED
    BY <1>1, <1>3, <2>1 DEF Tells
<1> QED
  BY <1>1, <1>7, <1>8, AuditWritten

LEMMA RestartAuditInv == AuditInv /\ Audit!Restart => AuditInv'
<1> SUFFICES ASSUME AuditInv, Audit!Restart PROVE AuditInv'
  OBVIOUS
<1>1. /\ restarts < MaxRestarts /\ restarts' = restarts + 1
      /\ excused' = excused \cup {req[r].id : r \in {s \in Slot : req[s] # None}}
      /\ req' = [r \in Slot |-> None]
      /\ UNCHANGED <<table, rows, trail, requests, failures>>
  BY DEF Audit!Restart
<1>2. MaxRestarts \in Nat
  BY ServicesAssumption
<1>3. \A s \in Slot : req[s] # None => req[s] \in Audit!Entry /\ req[s].id \in Nat
  BY AuditTypes DEF Audit!Entry
<1>4. excused' \subseteq Nat /\ restarts' \in 0..MaxRestarts
  <2>1. excused \subseteq Nat /\ restarts \in 0..MaxRestarts
    BY DEF AuditInv, Audit!TypeOK
  <2>2. excused' \subseteq Nat
    BY <1>1, <1>3, <2>1
  <2>3. restarts' \in 0..MaxRestarts
    BY <1>1, <1>2, <2>1
  <2> QED
    BY <2>2, <2>3
<1>5. Audit!TypeOK'
  BY <1>1, <1>4 DEF AuditInv, Audit!TypeOK
<1>6. ASSUME NEW e \in Audit!Entry
      PROVE  (Tells(e)' => Tells(e)) /\ (Tells(e) => Tells(e)' \/ e.id \in excused')
  <2>1. e # None
    BY NoneIsNoEntry
  <2> QED
    BY <1>1, <2>1 DEF Tells
<1> QED
  BY <1>1, <1>5, <1>6, AuditWritten

\* The jobs of an app that is deleted go, and are excused.
LEMMA AppDeletedAuditInv ==
    ASSUME AuditInv, NEW gone \in SUBSET rows, Audit!deleteApp(gone)
    PROVE  AuditInv'
<1>1. /\ rows' = rows \ gone
      /\ excused' = excused \cup {row.id : row \in gone}
      /\ UNCHANGED <<table, trail, req, requests, failures, restarts>>
  BY DEF Audit!deleteApp
<1>2. rows' \subseteq rows /\ excused \subseteq excused'
  BY <1>1
<1>3. Audit!TypeOK'
  <2>1. excused' \subseteq Nat
    BY <1>1, AuditTypes DEF AuditInv, Audit!TypeOK
  <2> QED
    BY <1>1, <1>2, <2>1 DEF AuditInv, Audit!TypeOK
<1>4. \A e : Tells(e)' <=> Tells(e)
  BY <1>1 DEF Tells
<1>5. RowIds'
  BY <1>1, <1>2, <1>4 DEF AuditInv, RowIds
<1>6. \A row : /\ InList(row)' <=> InList(row)
               /\ MakingTold(row)' <=> MakingTold(row)
               /\ ContentTold(row)' <=> ContentTold(row)
               /\ Tells(Deletion(row.owner, row.id))' <=> Tells(Deletion(row.owner, row.id))
  BY <1>1 DEF InList, MakingTold, ContentTold, Tells, Deletion
<1>7. RowsTold'
  <2> SUFFICES ASSUME NEW row \in rows', InList(row)
               PROVE  /\ ~Tells(Deletion(row.owner, row.id))
                      /\ row.id \notin excused' => MakingTold(row) /\ ContentTold(row)
    BY <1>6 DEF RowsTold
  <2> QED
    BY <1>2 DEF AuditInv, RowsTold
<1>8. GoneTold'
  <2> SUFFICES ASSUME NEW e \in Audit!Entry, Tells(e), e.action = "create", e.id \notin excused'
               PROVE  \/ \E row \in rows' : row.owner = e.user /\ row.id = e.id /\ InList(row)
                      \/ Tells(Deletion(e.user, e.id))
    BY <1>1, <1>4 DEF GoneTold, InList, Tells, Deletion
  <2>1. \/ \E row \in rows : row.owner = e.user /\ row.id = e.id /\ InList(row)
        \/ Tells(Deletion(e.user, e.id))
    BY <1>2 DEF AuditInv, GoneTold
  <2>2. ASSUME NEW row \in rows, row.id = e.id PROVE row \in rows'
    BY <1>1, <2>2
  <2> QED
    BY <2>1, <2>2
<1> QED
  BY <1>1, <1>3, <1>5, <1>7, <1>8 DEF AuditInv

LEMMA AuditStepInv == AuditInv /\ [Audit!Next]_Audit!vars => AuditInv'
<1> SUFFICES ASSUME AuditInv, [Audit!Next]_Audit!vars PROVE AuditInv'
  OBVIOUS
<1>1. CASE UNCHANGED Audit!vars
  <2>1. UNCHANGED <<table, rows, trail, req, excused, requests, failures, restarts>>
    BY <1>1 DEF Audit!vars
  <2>2. Audit!TypeOK'
    BY <2>1 DEF AuditInv, Audit!TypeOK
  <2> QED
    BY <2>1, <2>2, AuditSame
<1>2. ASSUME NEW r \in Slot, NEW u \in User, NEW on \in BOOLEAN,
             \/ Audit!createWebhook(r, u) \/ Audit!createApiKey(r, u)
             \/ Audit!createBackupJob(r, u) \/ Audit!createChannel(r, u)
             \/ Audit!createAlertConfig(r, u, on)
      PROVE  AuditInv'
  BY <1>2, InsertAuditInv
  DEF Audit!createWebhook, Audit!createApiKey, Audit!createBackupJob, Audit!createChannel,
      Audit!createAlertConfig
<1>3. ASSUME NEW r \in Slot, NEW u \in User, NEW id \in 1..requests,
             \/ Audit!deleteWebhook(r, u, id) \/ Audit!deleteBackupJob(r, u, id)
             \/ Audit!deleteAlertConfig(r, u, id) \/ Audit!deleteChannel(r, u, id)
      PROVE  AuditInv'
  BY <1>3, DeleteAuditInv
  DEF Audit!deleteWebhook, Audit!deleteBackupJob, Audit!deleteAlertConfig, Audit!deleteChannel
<1>4. ASSUME NEW r \in Slot, NEW u \in User, NEW id \in 1..requests,
             Audit!revokeApiKey(r, u, id)
      PROVE  AuditInv'
  BY <1>4, SwitchAuditInv DEF Audit!revokeApiKey
<1>5. ASSUME NEW r \in Slot, NEW u \in User, NEW id \in 1..requests, NEW on \in BOOLEAN,
             \/ Audit!patchBackupJob(r, u, id, on) \/ Audit!patchAlertConfig(r, u, id, on)
             \/ Audit!patchChannel(r, u, id, on)
      PROVE  AuditInv'
  <2>1. PICK t \in {"backup_jobs", "alert_configs", "notification_channels"} :
            Audit!Update(r, t, u, id, on)
    BY <1>5 DEF Audit!patchBackupJob, Audit!patchAlertConfig, Audit!patchChannel
  <2>2. t # "api_keys" /\ Audit!Mine(u, id) # {}
    BY <2>1 DEF Audit!Update
  <2> QED
    BY <2>1, <2>2, SwitchAuditInv DEF Audit!Update
<1> QED
  BY <1>1, <1>2, <1>3, <1>4, <1>5, AppDeletedAuditInv, logAuditInv, RestartAuditInv DEF Audit!Next

LEMMA AuditTrue == AuditInv => Audit!TrailTells
<1> SUFFICES ASSUME AuditInv, NEW u \in User
             PROVE  /\ \A row \in Audit!Listed(u) :
                         /\ Deletion(u, row.id) \notin Audit!Told(u)
                         /\ row.id \notin excused =>
                             /\ \E e \in Audit!Told(u) : e.id = row.id /\ e.action = "create"
                             /\ \E e \in Audit!Told(u) : e.id = row.id /\ e.action # "delete"
                                                         /\ e.on = row.on
                    /\ \A e \in Audit!Shown(u) :
                         (\A row \in Audit!Listed(u) : row.id # e.id) /\ e.action = "create"
                         /\ e.id \notin excused => Deletion(u, e.id) \in Audit!Told(u)
  BY DEF Audit!TrailTells, Deletion
<1>1. trail \subseteq Audit!Entry
  BY DEF AuditInv, Audit!TypeOK
<1>2. \A e : e \in Audit!Told(u) <=>
              \/ e \in trail /\ e.user = u
              \/ \E s \in Slot : req[s] # None /\ req[s].user = u /\ req[s] = e
  BY DEF Audit!Told, Audit!Shown
<1>3. \A e \in Audit!Entry : e \in Audit!Told(u) <=> Tells(e) /\ e.user = u
  BY <1>2, NoneIsNoEntry DEF Tells
<1>4. ASSUME NEW row \in Audit!Listed(u)
      PROVE  /\ Deletion(u, row.id) \notin Audit!Told(u)
             /\ row.id \notin excused =>
                  /\ \E e \in Audit!Told(u) : e.id = row.id /\ e.action = "create"
                  /\ \E e \in Audit!Told(u) : e.id = row.id /\ e.action # "delete" /\ e.on = row.on
  <2>1. row \in rows /\ row.owner = u /\ InList(row)
    BY DEF Audit!Listed, InList
  <2>2. /\ ~Tells(Deletion(u, row.id))
        /\ row.id \notin excused => MakingTold(row) /\ ContentTold(row)
    BY <2>1 DEF AuditInv, RowsTold
  <2>3. Deletion(u, row.id) \in Audit!Entry
    BY <2>1, AuditTypes, DeletionIsEntry
  <2>4. Deletion(u, row.id) \notin Audit!Told(u)
    BY <1>3, <2>2, <2>3
  <2> QED
    BY <1>3, <2>1, <2>2, <2>4 DEF MakingTold, ContentTold
<1>5. ASSUME NEW e \in Audit!Shown(u), \A row \in Audit!Listed(u) : row.id # e.id,
             e.action = "create", e.id \notin excused
      PROVE  Deletion(u, e.id) \in Audit!Told(u)
  <2>1. e \in trail /\ e.user = u /\ e \in Audit!Entry /\ Tells(e)
    BY <1>1 DEF Audit!Shown, Tells
  <2>2. \/ \E row \in rows : row.owner = u /\ row.id = e.id /\ InList(row)
        \/ Tells(Deletion(u, e.id))
    BY <1>5, <2>1 DEF AuditInv, GoneTold
  <2>3. ~\E row \in rows : row.owner = u /\ row.id = e.id /\ InList(row)
    BY <1>5 DEF Audit!Listed, InList
  <2>4. Deletion(u, e.id) \in Audit!Entry /\ Deletion(u, e.id).user = u
    BY <2>1, DeletionIsEntry DEF Audit!Entry
  <2> QED
    BY <1>3, <2>2, <2>3, <2>4
<1> QED
  BY <1>4, <1>5

-----------------------------------------------------------------------------
(***************************************************************************)
(* The incidents.  A handler adds one event to the timeline, or two one    *)
(* after the other, and changes the incident as the event says.            *)
(***************************************************************************)
DutyInv == Duty!TypeOK /\ Duty!TimelinesTell

LEMMA DutyCounts == \A S : Duty!Cardinality(S) = Cardinality(S)
  BY DEF Duty!Cardinality, Cardinality

LEMMA SameIncident ==
    ASSUME NEW a \in Duty!Incident, NEW b \in Duty!Incident,
           a.status = b.status, a.owner = b.owner, a.timeline = b.timeline,
           a.escalation_level = b.escalation_level,
           a.acknowledged_at = b.acknowledged_at, a.resolved_at = b.resolved_at
    PROVE  a = b
  BY DEF Duty!Incident

\* What the timeline tells after one more event.
LEMMA OneMore ==
    ASSUME NEW a \in Duty!Incident, NEW b \in Duty!Incident, NEW event \in Duty!Event,
           b.timeline = Append(a.timeline, event)
    PROVE  /\ Len(a.timeline) \in Nat /\ Len(b.timeline) = Len(a.timeline) + 1
           /\ DOMAIN b.timeline = 1..(Len(a.timeline) + 1)
           /\ \A k \in 1..Len(a.timeline) : b.timeline[k] = a.timeline[k]
           /\ b.timeline[Len(a.timeline) + 1] = event
           /\ \A kinds, n : n \in 1..(Len(a.timeline) + 1) =>
                /\ Duty!Before(b, kinds, n) = Duty!Before(a, kinds, n)
                /\ Duty!Latest(b, kinds, n) = Duty!Latest(a, kinds, n)
                /\ Duty!Latest(a, kinds, n) \subseteq 1..Len(a.timeline)
           /\ \A kinds :
                LET end == Len(a.timeline) + 1 IN
                IF event.kind \in kinds
                THEN /\ Duty!Before(b, kinds, end + 1) = Duty!Before(a, kinds, end) \cup {end}
                     /\ Duty!Latest(b, kinds, end + 1) = {end}
                ELSE /\ Duty!Before(b, kinds, end + 1) = Duty!Before(a, kinds, end)
                     /\ Duty!Latest(b, kinds, end + 1) = Duty!Latest(a, kinds, end)
<1> DEFINE len == Len(a.timeline)
<1>1. a.timeline \in Seq(Duty!Event) /\ b.timeline \in Seq(Duty!Event)
  BY DEF Duty!Incident
<1>2. /\ len \in Nat /\ Len(b.timeline) = len + 1 /\ DOMAIN b.timeline = 1..(len + 1)
      /\ \A k \in 1..len : b.timeline[k] = a.timeline[k]
      /\ b.timeline[len + 1] = event
  BY <1>1
<1> HIDE DEF len
<1>3. ASSUME NEW kinds, NEW n \in 1..(len + 1)
      PROVE  /\ Duty!Before(b, kinds, n) = Duty!Before(a, kinds, n)
             /\ Duty!Latest(b, kinds, n) = Duty!Latest(a, kinds, n)
             /\ Duty!Latest(a, kinds, n) \subseteq 1..len
  <2>1. \A k \in 1..(n - 1) : k \in 1..len /\ b.timeline[k] = a.timeline[k]
    BY <1>2
  <2>2. Duty!Before(b, kinds, n) = Duty!Before(a, kinds, n) /\ Duty!Before(a, kinds,
        n) \subseteq 1..len
    BY <2>1 DEF Duty!Before
  <2> QED
    BY <2>2 DEF Duty!Latest
<1>4. ASSUME NEW kinds, event.kind \in kinds
      PROVE  /\ Duty!Before(b, kinds, len + 2) = Duty!Before(a, kinds, len + 1) \cup {len + 1}
             /\ Duty!Latest(b, kinds, len + 2) = {len + 1}
  <2>1. (len + 2) - 1 = len + 1 /\ (len + 1) - 1 = len /\ 1..(len + 1) = (1..len) \cup {len + 1}
    BY <1>2
  <2>2. Duty!Before(b, kinds, len + 2) = Duty!Before(a, kinds, len + 1) \cup {len + 1}
    BY <1>2, <1>4, <2>1 DEF Duty!Before
  <2>3. Duty!Before(a, kinds, len + 1) \subseteq 1..len
    BY <2>1 DEF Duty!Before
  <2> QED
    BY <1>2, <2>2, <2>3 DEF Duty!Latest
<1>5. ASSUME NEW kinds, event.kind \notin kinds
      PROVE  /\ Duty!Before(b, kinds, len + 2) = Duty!Before(a, kinds, len + 1)
             /\ Duty!Latest(b, kinds, len + 2) = Duty!Latest(a, kinds, len + 1)
  <2>1. (len + 2) - 1 = len + 1 /\ (len + 1) - 1 = len /\ 1..(len + 1) = (1..len) \cup {len + 1}
    BY <1>2
  <2>2. Duty!Before(b, kinds, len + 2) = Duty!Before(a, kinds, len + 1)
    BY <1>2, <1>5, <2>1 DEF Duty!Before
  <2> QED
    BY <2>2 DEF Duty!Latest
<1>6. (len + 1) + 1 = len + 2
  BY <1>2
<1> QED
  BY <1>2, <1>3, <1>4, <1>5, <1>6 DEF len

\* An event told of an incident changes it as it says, and while the incident
\* is resolved it is a status or an assignment.
Follows(a, b, event) ==
    /\ b.timeline = Append(a.timeline, event)
    /\ b.status = IF event.kind = "status" THEN event.status ELSE a.status
    /\ b.owner = IF event.kind \in {"assigned", "escalated"} THEN event.owner ELSE a.owner
    /\ b.escalation_level =
         IF event.kind = "escalated" THEN a.escalation_level + 1 ELSE a.escalation_level
    /\ a.status = "resolved" => event.kind \in {"status", "assigned"}

LEMMA ToldOnce ==
    ASSUME NEW a \in Duty!Incident, NEW b \in Duty!Incident, NEW event \in Duty!Event,
           Follows(a, b, event), Duty!Told(a)
    PROVE  Duty!Told(b)
<1> DEFINE end == Len(a.timeline) + 1
           owning == {"assigned", "escalated"}
<1>1. b.timeline = Append(a.timeline, event)
  BY DEF Follows
<1>2. /\ Len(a.timeline) \in Nat /\ Len(b.timeline) = end
      /\ DOMAIN b.timeline = 1..end
      /\ \A k \in 1..Len(a.timeline) : b.timeline[k] = a.timeline[k]
      /\ b.timeline[end] = event
      /\ \A kinds, n : n \in 1..end =>
           /\ Duty!Before(b, kinds, n) = Duty!Before(a, kinds, n)
           /\ Duty!Latest(b, kinds, n) = Duty!Latest(a, kinds, n)
           /\ Duty!Latest(a, kinds, n) \subseteq 1..Len(a.timeline)
      /\ \A kinds :
           IF event.kind \in kinds
           THEN /\ Duty!Before(b, kinds, end + 1) = Duty!Before(a, kinds, end) \cup {end}
                /\ Duty!Latest(b, kinds, end + 1) = {end}
           ELSE /\ Duty!Before(b, kinds, end + 1) = Duty!Before(a, kinds, end)
                /\ Duty!Latest(b, kinds, end + 1) = Duty!Latest(a, kinds, end)
  BY <1>1, OneMore
<1>t. end \in 1..end /\ end \in Nat /\ DOMAIN a.timeline = 1..Len(a.timeline)
  BY <1>2 DEF Duty!Incident
<1>3. /\ Duty!Before(a, {"status"}, end) = {} => a.status = "open"
      /\ \A k \in Duty!Latest(a, {"status"}, end) : a.status = a.timeline[k].status
      /\ Duty!Before(a, owning, end) = {} => a.owner = None
      /\ \A k \in Duty!Latest(a, owning, end) : a.owner = a.timeline[k].owner
      /\ a.escalation_level = Cardinality(Duty!Before(a, {"escalated"}, end))
      /\ \A n \in DOMAIN a.timeline :
           (\E k \in Duty!Latest(a, {"status"}, n) : a.timeline[k].status = "resolved") =>
               a.timeline[n].kind \in {"status", "assigned"}
  BY DutyCounts DEF Duty!Told
<1>4. /\ Duty!Before(b, {"status"}, end + 1) = {} => b.status = "open"
      /\ \A k \in Duty!Latest(b, {"status"}, end + 1) : b.status = b.timeline[k].status
  <2>1. CASE event.kind = "status"
    BY <1>2, <2>1 DEF Follows
  <2>2. CASE event.kind # "status"
    <3>1. /\ Duty!Before(b, {"status"}, end + 1) = Duty!Before(a, {"status"}, end)
          /\ Duty!Latest(b, {"status"}, end + 1) = Duty!Latest(a, {"status"}, end)
          /\ \A k \in Duty!Latest(a, {"status"}, end) : b.timeline[k] = a.timeline[k]
      BY <1>2, <1>t, <2>2
    <3> QED
      BY <1>3, <2>2, <3>1 DEF Follows
  <2> QED
    BY <2>1, <2>2
<1>5. /\ Duty!Before(b, owning, end + 1) = {} => b.owner = None
      /\ \A k \in Duty!Latest(b, owning, end + 1) : b.owner = b.timeline[k].owner
  <2>1. CASE event.kind \in owning
    BY <1>2, <2>1 DEF Follows
  <2>2. CASE event.kind \notin owning
    <3>1. /\ Duty!Before(b, owning, end + 1) = Duty!Before(a, owning, end)
          /\ Duty!Latest(b, owning, end + 1) = Duty!Latest(a, owning, end)
          /\ \A k \in Duty!Latest(a, owning, end) : b.timeline[k] = a.timeline[k]
      BY <1>2, <1>t, <2>2
    <3> QED
      BY <1>3, <2>2, <3>1 DEF Follows
  <2> QED
    BY <2>1, <2>2
<1>6. b.escalation_level = Cardinality(Duty!Before(b, {"escalated"}, end + 1))
  <2>1. CASE event.kind = "escalated"
    <3>1. Duty!Before(b, {"escalated"}, end + 1) = Duty!Before(a, {"escalated"}, end) \cup {end}
      BY <1>2, <2>1
    <3>2. Duty!Before(a, {"escalated"}, end) \subseteq 1..Len(a.timeline)
      BY <1>2 DEF Duty!Before
    <3>3. IsFiniteSet(Duty!Before(a, {"escalated"}, end)) /\ end \notin Duty!Before(a,
          {"escalated"}, end)
      <4>1. IsFiniteSet(1..Len(a.timeline))
        BY <1>2, FS_Interval
      <4>2. end \notin 1..Len(a.timeline)
        BY <1>2
      <4>3. IsFiniteSet(Duty!Before(a, {"escalated"}, end))
        BY <3>2, <4>1, FS_Subset
      <4> QED
        BY <3>2, <4>2, <4>3
    <3>4. Cardinality(Duty!Before(a, {"escalated"}, end) \cup {end})
            = Cardinality(Duty!Before(a, {"escalated"}, end)) + 1
      BY <3>3, FS_AddElement
    <3> QED
      BY <1>3, <2>1, <3>1, <3>4 DEF Follows
  <2>2. CASE event.kind # "escalated"
    BY <1>2, <1>3, <2>2 DEF Follows
  <2> QED
    BY <2>1, <2>2
<1>7. ASSUME NEW n \in DOMAIN b.timeline, NEW k \in Duty!Latest(b, {"status"}, n),
             b.timeline[k].status = "resolved"
      PROVE  b.timeline[n].kind \in {"status", "assigned"}
  <2>1. k \in Duty!Latest(a, {"status"}, n) /\ a.timeline[k].status = "resolved"
    BY <1>2, <1>7
  <2>2. CASE n \in 1..Len(a.timeline)
    BY <1>2, <1>3, <1>t, <2>1, <2>2
  <2>3. CASE n = end
    BY <1>2, <1>3, <2>1, <2>3 DEF Follows
  <2> QED
    BY <1>2, <2>2, <2>3
<1> HIDE DEF end
<1> QED
  BY <1>2, <1>4, <1>5, <1>6, <1>7, DutyCounts DEF Duty!Told

\* What a handler writes.
LEMMA DutyStored ==
    ASSUME DutyInv, NEW id \in 1..MaxIncidents, NEW incident \in Duty!Incident,
           Duty!Told(incident), Duty!_store(id, incident)
    PROVE  DutyInv'
<1>1. /\ UNCHANGED rota
      /\ \/ /\ store' = Duty!Put(store, id, incident) /\ UNCHANGED unread
            /\ created' = created \cup {id}
         \/ /\ store' = Duty!Put(<<>>, id, incident)
            /\ unread' = unread \cup DOMAIN store /\ created' = created \cup {id}
         \/ UNCHANGED <<store, created, unread>>
  BY DEF Duty!_store, Duty!Unsaved
<1>2. /\ rota \in Rotas /\ DOMAIN store \subseteq 1..MaxIncidents
      /\ \A i \in DOMAIN store : store[i] \in Duty!Incident /\ Duty!Told(store[i])
      /\ created \subseteq DOMAIN store \cup unread
  BY DEF DutyInv, Duty!TypeOK, Duty!TimelinesTell
<1>3. CASE /\ store' = Duty!Put(store, id, incident) /\ UNCHANGED unread
           /\ created' = created \cup {id}
  <2>1. /\ DOMAIN store' = DOMAIN store \cup {id}
        /\ \A i \in DOMAIN store' : store'[i] = IF i = id THEN incident ELSE store[i]
    BY <1>3 DEF Duty!Put
  <2> QED
    BY <1>1, <1>2, <1>3, <2>1 DEF DutyInv, Duty!TypeOK, Duty!TimelinesTell
<1>4. CASE /\ store' = Duty!Put(<<>>, id, incident)
           /\ unread' = unread \cup DOMAIN store /\ created' = created \cup {id}
  <2>1. DOMAIN store' = {id} /\ store'[id] = incident
    BY <1>4 DEF Duty!Put
  <2> QED
    BY <1>1, <1>2, <1>4, <2>1 DEF DutyInv, Duty!TypeOK, Duty!TimelinesTell
<1>5. CASE UNCHANGED <<store, created, unread>>
  BY <1>1, <1>2, <1>5 DEF DutyInv, Duty!TypeOK, Duty!TimelinesTell
<1> QED
  BY <1>1, <1>3, <1>4, <1>5

\* The owners of a rota may own.
LEMMA LevelsOwn ==
    ASSUME rota \in Rotas
    PROVE  /\ rota \in Seq(STRING)
           /\ \A n \in 1..Len(rota) : rota[n] \in Duty!Owner
           /\ rota # <<>> => Head(rota) \in Duty!Owner
<1>1. rota \in Seq(STRING)
  BY ServicesAssumption
<1>2. \A n \in 1..Len(rota) : rota[n] \in Duty!Range(rota)
  BY <1>1 DEF Duty!Range
<1>3. \A n \in 1..Len(rota) : rota[n] \in Duty!Owner
  BY <1>2 DEF Duty!Owner
<1> QED
  BY <1>1, <1>3

\* An incident in the file after an event that changes it as it says.
LEMMA DutyFollowed ==
    ASSUME DutyInv, NEW id \in DOMAIN store, NEW event \in Duty!Event,
           NEW b \in Duty!Incident, Follows(store[id], b, event), Duty!_store(id, b)
    PROVE  DutyInv'
<1>1. id \in 1..MaxIncidents /\ store[id] \in Duty!Incident /\ Duty!Told(store[id])
  BY DEF DutyInv, Duty!TypeOK, Duty!TimelinesTell
<1> QED
  BY <1>1, ToldOnce, DutyStored

\* A note, or another event that only adds to the timeline.
LEMMA PlainFollows ==
    ASSUME NEW a \in Duty!Incident, NEW what \in {"note", "highest", "deferred"},
           a.status # "resolved"
    PROVE  /\ Duty!Plain(what) \in Duty!Event
           /\ Duty!Noted(a, <<Duty!Plain(what)>>) \in Duty!Incident
           /\ Follows(a, Duty!Noted(a, <<Duty!Plain(what)>>), Duty!Plain(what))
<1>1. Duty!Plain(what) \in Duty!Event /\ Duty!Plain(what).kind = what
  BY DEF Duty!Plain, Duty!Event
<1> DEFINE event == Duty!Plain(what)
<1> HIDE DEF event
<1>2. event \in Duty!Event /\ event.kind = what
  BY <1>1 DEF event
<1>3. a.timeline \in Seq(Duty!Event)
  BY DEF Duty!Incident
<1>4. a.timeline \o <<event>> = Append(a.timeline,
      event) /\ a.timeline \o <<event>> \in Seq(Duty!Event)
  BY <1>2, <1>3
<1>5. Duty!Noted(a, <<event>>) = [a EXCEPT !.timeline = Append(a.timeline, event)]
  BY <1>4 DEF Duty!Noted
<1>6. /\ Duty!Noted(a, <<event>>) \in Duty!Incident
      /\ Follows(a, Duty!Noted(a, <<event>>), event)
  BY <1>2, <1>4, <1>5 DEF Duty!Incident, Follows
<1> QED
  BY <1>2, <1>6 DEF event

LEMMA add_noteInv ==
    ASSUME DutyInv, NEW id \in DOMAIN store, Duty!add_note(id) PROVE DutyInv'
<1>1. store[id] \in Duty!Incident /\ store[id].status # "resolved"
  BY DEF DutyInv, Duty!TypeOK, Duty!add_note, Duty!Ongoing
<1> QED
  BY <1>1, PlainFollows, DutyFollowed DEF Duty!add_note

\* Whoever is given the incident owns it.
LEMMA OwnedFollows ==
    ASSUME NEW a \in Duty!Incident, NEW what \in {"assigned", "escalated"},
           NEW person \in Duty!Owner, what = "escalated" => a.status # "resolved",
           NEW level, level = IF what = "escalated" THEN a.escalation_level + 1
                              ELSE a.escalation_level,
           NEW event, event = Duty!Owned(what, person),
           NEW b, b = [Duty!Noted(a, <<event>>) EXCEPT !.escalation_level = level,
             !.owner = person]
    PROVE  event \in Duty!Event /\ b \in Duty!Incident /\ Follows(a, b, event)
<1>1. event \in Duty!Event /\ event.kind = what /\ event.owner = person
  BY DEF Duty!Owned, Duty!Event
<1>2. a.timeline \in Seq(Duty!Event) /\ level \in Nat
  BY DEF Duty!Incident
<1>3. a.timeline \o <<event>> = Append(a.timeline,
      event) /\ a.timeline \o <<event>> \in Seq(Duty!Event)
  BY <1>1, <1>2
<1>4. b = [a EXCEPT !.timeline = Append(a.timeline, event), !.escalation_level = level,
      !.owner = person]
  BY <1>3 DEF Duty!Noted, Duty!Incident
<1>5. /\ b \in Duty!Incident
      /\ b.timeline = Append(a.timeline, event) /\ b.status = a.status
      /\ b.owner = person /\ b.escalation_level = level
  <2>1. Append(a.timeline, event) \in Seq(Duty!Event)
    BY <1>1, <1>2
  <2>2. /\ DOMAIN b = DOMAIN a
        /\ b.timeline = Append(a.timeline, event) /\ b.status = a.status
        /\ b.owner = person /\ b.escalation_level = level
    BY <1>4 DEF Duty!Incident
  <2> QED
    BY <1>2, <1>4, <2>1, <2>2 DEF Duty!Incident
<1>6. Follows(a, b, event)
  BY <1>1, <1>5 DEF Follows
<1> QED
  BY <1>1, <1>5, <1>6

LEMMA assignInv ==
    ASSUME DutyInv, NEW id \in DOMAIN store, NEW person \in Person, Duty!assign(id, person)
    PROVE  DutyInv'
<1> DEFINE event == Duty!Owned("assigned", person)
           b == [Duty!Noted(store[id], <<event>>) EXCEPT !.owner = person]
<1>1. store[id] \in Duty!Incident /\ person \in Duty!Owner
  BY DEF DutyInv, Duty!TypeOK, Duty!Owner
<1>2. b = [Duty!Noted(store[id], <<event>>)
             EXCEPT !.escalation_level = store[id].escalation_level, !.owner = person]
  BY <1>1 DEF Duty!Noted, Duty!Incident
<1>3. event \in Duty!Event /\ b \in Duty!Incident /\ Follows(store[id], b, event)
  <2> HIDE DEF b
  <2> QED
    BY <1>1, <1>2, OwnedFollows
<1>4. Duty!_store(id, b)
  BY DEF Duty!assign
<1> HIDE DEF b, event
<1> QED
  BY <1>3, <1>4, DutyFollowed

LEMMA escalateInv ==
    ASSUME DutyInv, NEW id \in DOMAIN store, NEW quiet, NEW force,
           Duty!escalate(id, quiet, force)
    PROVE  DutyInv'
<1> DEFINE next == store[id].escalation_level + 1
           event == Duty!Owned("escalated", rota[next + 1])
           b == [Duty!Noted(store[id], <<event>>)
                   EXCEPT !.escalation_level = next, !.owner = rota[next + 1]]
<1>1. /\ store[id] \in Duty!Incident /\ store[id].status # "resolved" /\ rota \in Rotas
      /\ store[id].escalation_level \in Nat
  BY DEF DutyInv, Duty!TypeOK, Duty!escalate, Duty!Ongoing, Duty!Incident
<1>2. ASSUME NEW what \in {"highest", "deferred"},
             Duty!_store(id, Duty!Noted(store[id], <<Duty!Plain(what)>>))
      PROVE  DutyInv'
  BY <1>1, <1>2, PlainFollows, DutyFollowed
<1>3. CASE next < Len(rota) /\ Duty!_store(id, b)
  <2>1. rota[next + 1] \in Duty!Owner
    BY <1>1, <1>3, LevelsOwn
  <2>2. event \in Duty!Event /\ b \in Duty!Incident /\ Follows(store[id], b, event)
    BY <1>1, <2>1, OwnedFollows
  <2> HIDE DEF b, event
  <2> QED
    BY <1>3, <2>2, DutyFollowed
<1> QED
  BY <1>2, <1>3 DEF Duty!escalate

\* A status, and the note that may come with it.
LEMMA set_statusInv ==
    ASSUME DutyInv, NEW id \in DOMAIN store, NEW new \in Duty!STATUSES, NEW note \in BOOLEAN,
           Duty!set_status(id, new, note)
    PROVE  DutyInv'
<1> DEFINE a == store[id]
           event == [kind |-> "status", status |-> new]
           b == [a EXCEPT !.timeline = Append(a.timeline, event), !.status = new,
                          !.acknowledged_at = @ \/ new = "acknowledged",
                          !.resolved_at = @ \/ new = "resolved"]
           c == Duty!Noted(b, <<Duty!Plain("note")>>)
           both == note /\ new # "resolved"
           events2 == <<event>> \o IF both THEN <<Duty!Plain("note")>> ELSE <<>>
<1>1. id \in 1..MaxIncidents /\ a \in Duty!Incident /\ Duty!Told(a)
  BY DEF DutyInv, Duty!TypeOK, Duty!TimelinesTell
<1>2. event \in Duty!Event /\ event.kind = "status" /\ event.status = new
      /\ Duty!Plain("note") \in Duty!Event
  BY DEF Duty!Event, Duty!STATUSES, Duty!Plain
<1>3. a.timeline \in Seq(Duty!Event) /\ Append(a.timeline, event) \in Seq(Duty!Event)
  BY <1>1, <1>2 DEF Duty!Incident
<1>4. b \in Duty!Incident /\ b.status = new /\ b.timeline = Append(a.timeline, event)
  BY <1>1, <1>2, <1>3 DEF Duty!Incident
<1>5. Follows(a, b, event)
  BY <1>1, <1>2, <1>4 DEF Follows, Duty!Incident
<1>6. Duty!Told(b)
  <2> HIDE DEF a, b, event
  <2> QED
    BY <1>1, <1>2, <1>4, <1>5, ToldOnce
<1>7. both => c \in Duty!Incident /\ Duty!Told(c)
  <2> HIDE DEF b
  <2> QED
    BY <1>4, <1>6, PlainFollows, ToldOnce
<1>8. Duty!_store(id, [Duty!Noted(a, events2) EXCEPT !.status = new,
                          !.acknowledged_at = @ \/ new = "acknowledged",
                          !.resolved_at = @ \/ new = "resolved"])
  BY DEF Duty!set_status
<1>9. CASE ~both
  <2>1. a.timeline \o events2 = Append(a.timeline, event)
    <3>1. events2 = <<event>>
      <4>1. events2 = <<event>> \o <<>>
        BY <1>9
      <4> HIDE DEF event, events2
      <4> QED
        BY <4>1
    <3>2. a.timeline \o <<event>> = Append(a.timeline, event)
      <4> HIDE DEF event, a
      <4> QED
        BY <1>2, <1>3, AppendIsConcat
    <3> HIDE DEF events2, event
    <3> QED
      BY <3>1, <3>2
  <2>2. Duty!_store(id, b)
    <3> HIDE DEF events2, event, both
    <3>1. [Duty!Noted(a, events2) EXCEPT !.status = new,
              !.acknowledged_at = @ \/ new = "acknowledged",
              !.resolved_at = @ \/ new = "resolved"] = b
      BY <1>1, <2>1 DEF Duty!Noted, Duty!Incident
    <3> QED
      BY <1>8, <3>1
  <2> HIDE DEF b
  <2> QED
    BY <1>1, <1>4, <1>6, <2>2, DutyStored
<1>10. CASE both
  <2>1. a.timeline \o events2 = Append(a.timeline, event) \o <<Duty!Plain("note")>>
    BY <1>2, <1>3, <1>10
  <2>2. Duty!_store(id, c)
    <3> HIDE DEF events2, event, both
    <3>1. [Duty!Noted(a, events2) EXCEPT !.status = new,
              !.acknowledged_at = @ \/ new = "acknowledged",
              !.resolved_at = @ \/ new = "resolved"] = c
      BY <1>1, <2>1 DEF Duty!Noted, Duty!Incident
    <3> QED
      BY <1>8, <3>1
  <2> HIDE DEF c
  <2> QED
    BY <1>1, <1>7, <1>10, <2>2, DutyStored
<1> QED
  BY <1>9, <1>10

LEMMA create_incidentInv == ASSUME DutyInv, Duty!create_incident PROVE DutyInv'
<1> DEFINE first == Duty!Plain("created")
           a == [status |-> "open", owner |-> None, escalation_level |-> 0,
                 acknowledged_at |-> FALSE, resolved_at |-> FALSE, timeline |-> <<first>>]
           event == Duty!Owned("assigned", Duty!_duty_owner)
           b == [Duty!Noted(a, <<event>>) EXCEPT !.escalation_level = 0,
             !.owner = Duty!_duty_owner]
           made_ == [status |-> "open", owner |-> Duty!_duty_owner, escalation_level |-> 0,
                     acknowledged_at |-> FALSE, resolved_at |-> FALSE,
                     timeline |-> <<first>> \o (IF rota = <<>> THEN <<>> ELSE <<event>>)]
<1>1. PICK id \in 1..MaxIncidents : Duty!_store(id, made_)
  BY DEF Duty!create_incident
<1>2. first \in Duty!Event /\ first.kind = "created"
  BY DEF Duty!Plain, Duty!Event
<1> HIDE DEF first
<1>3. a \in Duty!Incident /\ Len(a.timeline) = 1 /\ a.timeline[1] = first
  BY <1>2 DEF Duty!Incident, Duty!STATUSES
<1>4. Duty!Told(a)
  <2>1. \A kinds : first.kind \notin kinds => Duty!Before(a, kinds, 2) = {} /\ Duty!Latest(a,
        kinds, 2) = {}
    BY <1>3 DEF Duty!Before, Duty!Latest
  <2>2. \A kinds : Duty!Latest(a, kinds, 1) = {}
    BY DEF Duty!Before, Duty!Latest
  <2>3. Cardinality({}) = 0
    BY FS_EmptySet
  <2>4. DOMAIN a.timeline = {1}
    OBVIOUS
  <2> HIDE DEF a
  <2>5. /\ a.status = "open" /\ a.owner = None /\ a.escalation_level = 0
    BY DEF a
  <2> QED
    BY <1>2, <1>3, <2>1, <2>2, <2>3, <2>4, <2>5, DutyCounts DEF Duty!Told
<1>5. CASE rota = <<>>
  <2>1. made_ = a
    BY <1>5 DEF Duty!_duty_owner
  <2> HIDE DEF made_, a
  <2> QED
    BY <1>1, <1>3, <1>4, <2>1, DutyStored
<1>6. CASE rota # <<>>
  <2>1. Duty!_duty_owner \in Duty!Owner
    BY <1>6, LevelsOwn DEF Duty!_duty_owner, DutyInv, Duty!TypeOK
  <2>2. made_ = b
    <3>1. a.timeline \o <<event>> = <<first>> \o <<event>>
      OBVIOUS
    <3>2. event \in Duty!Event /\ a.timeline \o <<event>> \in Seq(Duty!Event)
      BY <1>2, <2>1 DEF Duty!Owned, Duty!Event
    <3>3. made_.timeline = a.timeline \o <<event>> /\ made_ \in Duty!Incident
      <4>1. made_.timeline = a.timeline \o <<event>>
        <5> HIDE DEF event
        <5> QED
          BY <1>6, <3>1
      <4> HIDE DEF event, a
      <4> QED
        BY <2>1, <3>2, <4>1 DEF Duty!Incident, Duty!STATUSES
    <3>4. /\ a.status = "open" /\ ~a.acknowledged_at /\ ~a.resolved_at
          /\ made_.status = "open" /\ ~made_.acknowledged_at /\ ~made_.resolved_at
          /\ made_.owner = Duty!_duty_owner /\ made_.escalation_level = 0
      OBVIOUS
    <3>5. /\ b \in Duty!Incident /\ b.status = a.status /\ b.acknowledged_at = a.acknowledged_at
          /\ b.resolved_at = a.resolved_at /\ b.owner = Duty!_duty_owner
          /\ b.escalation_level = 0 /\ b.timeline = a.timeline \o <<event>>
      <4> HIDE DEF a, event, made_
      <4> QED
        BY <1>3, <2>1, <3>2 DEF Duty!Noted, Duty!Incident
    <3>6. a.acknowledged_at \in BOOLEAN /\ a.resolved_at \in BOOLEAN
      OBVIOUS
    <3>7. /\ made_.status = b.status /\ made_.owner = b.owner /\ made_.timeline = b.timeline
          /\ made_.escalation_level = b.escalation_level
      <4> HIDE DEF a, b, event, made_
      <4> QED
        BY <3>3, <3>4, <3>5
    <3>8. made_.acknowledged_at = b.acknowledged_at /\ made_.resolved_at = b.resolved_at
      <4> HIDE DEF a, event, made_
      <4>1. made_.acknowledged_at \in BOOLEAN /\ b.acknowledged_at \in BOOLEAN
            /\ made_.resolved_at \in BOOLEAN /\ b.resolved_at \in BOOLEAN
        BY <3>3, <3>5 DEF Duty!Incident
      <4> HIDE DEF b
      <4> QED
        BY <3>4, <3>5, <3>6, <4>1
    <3> HIDE DEF a, b, event, made_
    <3> QED
      BY <3>3, <3>5, <3>7, <3>8, SameIncident
  <2>3. event \in Duty!Event /\ b \in Duty!Incident /\ Follows(a, b, event)
    <3>1. a.escalation_level = 0
      OBVIOUS
    <3> HIDE DEF a
    <3> QED
      BY <1>3, <2>1, <3>1, OwnedFollows
  <2> HIDE DEF made_, a, b, event
  <2> QED
    BY <1>1, <1>3, <1>4, <2>2, <2>3, ToldOnce, DutyStored
<1> QED
  BY <1>5, <1>6

LEMMA DutyInitInv == Duty!Init => DutyInv
<1> SUFFICES ASSUME Duty!Init PROVE DutyInv
  OBVIOUS
<1>1. rota \in Rotas /\ DOMAIN store = {} /\ created = {}
  BY DEF Duty!Init
<1> QED
  BY <1>1 DEF DutyInv, Duty!TypeOK, Duty!TimelinesTell

LEMMA DutyStepInv == ASSUME DutyInv, [Duty!Next]_Duty!vars PROVE DutyInv'
<1>1. CASE Duty!Restart
  <2>1. rota' \in Rotas /\ UNCHANGED <<store, created, unread>>
    BY <1>1 DEF Duty!Restart
  <2> QED
    BY <2>1 DEF DutyInv, Duty!TypeOK, Duty!TimelinesTell
<1>2. CASE UNCHANGED Duty!vars
  BY <1>2 DEF Duty!vars, DutyInv, Duty!TypeOK, Duty!TimelinesTell
<1> QED
  BY <1>1, <1>2, create_incidentInv, set_statusInv, add_noteInv, assignInv, escalateInv
     DEF Duty!Next

-----------------------------------------------------------------------------
(***************************************************************************)
(* The creatures.  What is noted of one since it is down is never later    *)
(* than now nor earlier than the last time it was seen running; those      *)
(* that were seen or named are in the file or were lost to a failed read.  *)
(***************************************************************************)
\* How a creature may feel at a time, last seen running at another.
Feels(creature, up, time) ==
    /\ creature.mood = "ghost" => up = None \/ time - up >= GHOST_MINUTES
    /\ creature.down_since # None /\ up # None => up <= creature.down_since
    /\ creature.down_since # None => creature.down_since <= time

Kept == DOMAIN store \cup unread

FleetInv ==
    /\ Fleet!TypeOK
    /\ \A w \in DOMAIN store : Feels(store[w], seenUp[w], now)
    /\ \A w \in DOMAIN store : w \in named => store[w].display_name = "given" \/ w \in unread
    /\ \A w \in Workload : seenUp[w] # None => seenUp[w] <= now /\ w \in Kept
    /\ named \subseteq Kept

LEMMA GhostMinutes == GHOST_MINUTES \in Nat
  BY ServicesAssumption

LEMMA FleetTrue == FleetInv => Fleet!CreaturesTrue
BY DEF FleetInv, Fleet!CreaturesTrue, Feels, Kept

LEMMA FleetInitInv == Fleet!Init => FleetInv
<1> SUFFICES ASSUME Fleet!Init PROVE FleetInv
  OBVIOUS
<1>1. /\ store = <<>> /\ reading = None /\ now = 0 /\ named = {} /\ unread = {}
      /\ seenUp = [w \in Workload |-> None]
  BY DEF Fleet!Init
<1>2. DOMAIN store = {}
  BY <1>1
<1>3. Fleet!TypeOK
  BY <1>1, <1>2 DEF Fleet!TypeOK
<1> QED
  BY <1>1, <1>2, <1>3 DEF FleetInv, Kept

\* How a creature feels after a reading, when the reading is noted.
LEMMA FleetFelt ==
    ASSUME FleetInv, NEW w \in Workload, NEW creature \in Fleet!Creature,
           NEW sensed \in Fleet!Signals, Feels(creature, seenUp[w], now),
           UNCHANGED now,
           seenUp' = IF sensed.running = TRUE THEN [seenUp EXCEPT ![w] = now] ELSE seenUp
    PROVE  /\ Fleet!Felt(creature, sensed) \in Fleet!Creature
           /\ Fleet!Felt(creature, sensed).display_name = creature.display_name
           /\ Feels(Fleet!Felt(creature, sensed), seenUp'[w], now)
<1> DEFINE down == Fleet!DownSince(creature, sensed)
           felt == Fleet!Felt(creature, sensed)
<1>1. now \in Nat /\ seenUp \in [Workload -> Nat \cup {None}]
      /\ (seenUp[w] # None => seenUp[w] \in Nat /\ seenUp[w] <= now)
  BY DEF FleetInv, Fleet!TypeOK
<1>2. creature.down_since \in Nat \cup {None}
  BY DEF Fleet!Creature
<1>3. down \in Nat \cup {None}
  BY <1>1, <1>2 DEF Fleet!DownSince
<1>4. Fleet!compute_mood(sensed, down) \in Fleet!Mood
  BY DEF Fleet!compute_mood, Fleet!Mood
<1>5. /\ felt \in Fleet!Creature /\ felt.display_name = creature.display_name
      /\ felt.down_since = down /\ felt.mood = Fleet!compute_mood(sensed, down)
  <2> HIDE DEF down
  <2> QED
    BY <1>3, <1>4 DEF Fleet!Felt, Fleet!Creature, down
<1>6. felt.mood = "ghost" => down # None /\ now - down >= GHOST_MINUTES
  BY <1>5 DEF Fleet!compute_mood
<1>7. CASE sensed.running = TRUE
  <2>1. down = None
    BY <1>7 DEF Fleet!DownSince
  <2> QED
    BY <1>5, <1>6, <2>1 DEF Feels
<1>8. CASE sensed.running # TRUE
  <2>1. seenUp' = seenUp
    BY <1>8
  <2>2. down = None \/ down = now \/ down = creature.down_since
    BY <1>8 DEF Fleet!DownSince
  <2>3. down # None => down <= now /\ (seenUp[w] # None => seenUp[w] <= down)
    BY <1>1, <1>2, <2>2 DEF Feels
  <2> HIDE DEF down
  <2>4. felt.mood = "ghost" /\ seenUp[w] # None => now - seenUp[w] >= GHOST_MINUTES
    BY <1>1, <1>3, <1>6, <2>3, GhostMinutes
  <2> QED
    BY <1>5, <2>1, <2>3, <2>4 DEF Feels
<1> QED
  BY <1>5, <1>7, <1>8

\* A creature that is written, and what was there of the others.
LEMMA FleetWritten ==
    ASSUME FleetInv, Fleet!TypeOK', NEW w \in Workload, NEW data, NEW creature,
           store' = Fleet!Put(data, w, creature), UNCHANGED <<now, named>>,
           \A v \in Workload : seenUp'[v] = seenUp[v] \/ v = w,
           \A v \in Workload : seenUp'[v] # None => seenUp'[v] <= now,
           \A v \in DOMAIN data : v \in DOMAIN store /\ data[v] = store[v],
           DOMAIN store \subseteq DOMAIN data \cup {w} \cup unread',
           unread \subseteq unread',
           Feels(creature, seenUp'[w], now),
           w \in named => creature.display_name = "given" \/ w \in unread'
    PROVE  FleetInv'
<1>1. /\ DOMAIN store' = DOMAIN data \cup {w}
      /\ \A v \in DOMAIN store' : store'[v] = IF v = w THEN creature ELSE data[v]
  BY DEF Fleet!Put
<1>2. Kept \subseteq Kept' /\ w \in Kept'
  BY <1>1 DEF Kept
<1>3. ASSUME NEW v \in DOMAIN store' PROVE Feels(store'[v], seenUp'[v], now)
  <2>1. CASE v = w
    BY <1>1, <2>1
  <2>2. CASE v # w
    <3>1. v \in DOMAIN store /\ store'[v] = store[v] /\ v \in Workload
      BY <1>1, <2>2 DEF FleetInv, Fleet!TypeOK
    <3>2. seenUp'[v] = seenUp[v]
      BY <2>2, <3>1
    <3> QED
      BY <3>1, <3>2 DEF FleetInv
  <2> QED
    BY <2>1, <2>2
<1>4. \A v \in DOMAIN store' :
        v \in named' => store'[v].display_name = "given" \/ v \in unread'
  BY <1>1 DEF FleetInv
<1>5. \A v \in Workload : seenUp'[v] # None => seenUp'[v] <= now' /\ v \in Kept'
  BY <1>2 DEF FleetInv
<1>6. named' \subseteq Kept'
  BY <1>2 DEF FleetInv
<1> QED
  BY <1>3, <1>4, <1>5, <1>6 DEF FleetInv

LEMMA refreshInv == ASSUME FleetInv, Fleet!refresh PROVE FleetInv'
<1> DEFINE w == reading.workload
           sensed == reading.signals
           born == Fleet!MayBeBorn(sensed)
<1>1. /\ reading \in [workload : Workload, signals : Fleet!Signals]
      /\ reading' = None /\ UNCHANGED <<now, named>>
  BY DEF Fleet!refresh, FleetInv, Fleet!TypeOK
<1>2. w \in Workload /\ sensed \in Fleet!Signals
  BY <1>1
<1>3. /\ DOMAIN store \subseteq Workload /\ \A v \in DOMAIN store : store[v] \in Fleet!Creature
      /\ now \in Nat /\ seenUp \in [Workload -> Nat \cup {None}]
  BY DEF FleetInv, Fleet!TypeOK
<1>4. Fleet!Newborn \in Fleet!Creature /\ Feels(Fleet!Newborn, None, now)
      /\ \A up : Feels(Fleet!Newborn, up, now)
  BY DEF Fleet!Newborn, Fleet!Creature, Fleet!Mood, Feels
<1>5. w \notin DOMAIN store /\ w \in named => w \in unread
  BY DEF FleetInv, Kept
<1> HIDE DEF w, sensed, born
\* A write of what was felt, beside the rest of what was read of the file.
<1>6. ASSUME NEW data, NEW creature \in Fleet!Creature,
             store' = Fleet!Put(data, w, Fleet!Felt(creature, sensed)),
             seenUp' = IF sensed.running = TRUE THEN [seenUp EXCEPT ![w] = now] ELSE seenUp,
             Feels(creature, seenUp[w], now),
             \A v \in DOMAIN data : v \in DOMAIN store /\ data[v] = store[v],
             DOMAIN store \subseteq DOMAIN data \cup {w} \cup unread',
             unread \subseteq unread',
             w \in named => creature.display_name = "given" \/ w \in unread'
      PROVE  FleetInv'
  <2> DEFINE felt == Fleet!Felt(creature, sensed)
  <2>1. /\ felt \in Fleet!Creature /\ felt.display_name = creature.display_name
        /\ Feels(felt, seenUp'[w], now)
    BY <1>1, <1>2, <1>6, FleetFelt
  <2>2. /\ seenUp' \in [Workload -> Nat \cup {None}]
        /\ \A v \in Workload : seenUp'[v] = seenUp[v] \/ (v = w /\ seenUp'[v] = now)
    BY <1>2, <1>3, <1>6
  <2>3. \A v \in Workload : seenUp'[v] # None => seenUp'[v] <= now
    BY <1>3, <2>2 DEF FleetInv
  <2> HIDE DEF felt
  <2>4. /\ DOMAIN store' = DOMAIN data \cup {w}
        /\ \A v \in DOMAIN store' : store'[v] = IF v = w THEN felt ELSE data[v]
    BY <1>6 DEF Fleet!Put, felt
  <2>5. Fleet!TypeOK'
    BY <1>1, <1>2, <1>3, <1>6, <2>1, <2>2, <2>4 DEF Fleet!TypeOK
  <2>6. store' = Fleet!Put(data, w, felt)
    BY <1>6 DEF felt
  <2> QED
    BY <1>1, <1>2, <1>6, <2>1, <2>2, <2>3, <2>5, <2>6, FleetWritten
\* A newborn that is written while its reading is lost.
<1>7. ASSUME w \notin DOMAIN store, store' = Fleet!Put(store, w, Fleet!Newborn),
             UNCHANGED <<seenUp, unread>>
      PROVE  FleetInv'
  <2>1. /\ DOMAIN store' = DOMAIN store \cup {w}
        /\ \A v \in DOMAIN store' : store'[v] = IF v = w THEN Fleet!Newborn ELSE store[v]
    BY <1>7 DEF Fleet!Put
  <2>2. Fleet!TypeOK'
    BY <1>1, <1>2, <1>3, <1>4, <1>7, <2>1 DEF Fleet!TypeOK
  <2>3. \A v \in Workload : seenUp'[v] # None => seenUp'[v] <= now
    BY <1>7 DEF FleetInv
  <2> QED
    BY <1>1, <1>2, <1>4, <1>5, <1>7, <2>2, <2>3, FleetWritten
<1>8. ASSUME UNCHANGED <<store, seenUp, unread>> PROVE FleetInv'
  BY <1>1, <1>8 DEF FleetInv, Fleet!TypeOK, Kept
<1>9. Fleet!Seen(w) <=>
        seenUp' = IF sensed.running = TRUE THEN [seenUp EXCEPT ![w] = now] ELSE seenUp
  BY DEF Fleet!Seen, w, sensed
<1>10. CASE /\ w \in DOMAIN store
            /\ \/ store' = Fleet!Put(store, w, Fleet!Felt(store[w], sensed)) /\ Fleet!Seen(w)
               \/ UNCHANGED <<store, seenUp>>
            /\ UNCHANGED unread
  <2>1. store[w] \in Fleet!Creature /\ Feels(store[w], seenUp[w], now)
        /\ (w \in named => store[w].display_name = "given" \/ w \in unread)
    BY <1>3, <1>10 DEF FleetInv
  <2>2. CASE store' = Fleet!Put(store, w, Fleet!Felt(store[w], sensed)) /\ Fleet!Seen(w)
    BY <1>6, <1>9, <1>10, <2>1, <2>2
  <2> QED
    BY <1>8, <1>10, <2>2
<1>11. CASE /\ w \notin DOMAIN store
            /\ \/ store' = Fleet!Put(store, w, Fleet!Felt(Fleet!Newborn,
                  sensed)) /\ Fleet!Seen(w)
               \/ store' \in {store, Fleet!Put(store, w, Fleet!Newborn)} /\ UNCHANGED seenUp
            /\ UNCHANGED unread
  <2>1. CASE store' = Fleet!Put(store, w, Fleet!Felt(Fleet!Newborn, sensed)) /\ Fleet!Seen(w)
    BY <1>4, <1>5, <1>6, <1>9, <1>11, <2>1
  <2>2. CASE store' \in {store, Fleet!Put(store, w, Fleet!Newborn)} /\ UNCHANGED seenUp
    BY <1>7, <1>8, <1>11, <2>2
  <2> QED
    BY <1>11, <2>1, <2>2
<1>12. CASE /\ Fleet!Seen(w)
            /\ \E again \in BOOLEAN :
                 LET found == IF again THEN DOMAIN store \cap {w} ELSE {}
                     creature == IF w \in found THEN store[w] ELSE Fleet!Newborn
                 IN /\ store' = Fleet!Put(<<>>, w, Fleet!Felt(creature, sensed))
                    /\ unread' = unread \cup (DOMAIN store \ found)
  <2>1. PICK again \in BOOLEAN :
          LET found == IF again THEN DOMAIN store \cap {w} ELSE {}
              creature == IF w \in found THEN store[w] ELSE Fleet!Newborn
          IN /\ store' = Fleet!Put(<<>>, w, Fleet!Felt(creature, sensed))
             /\ unread' = unread \cup (DOMAIN store \ found)
    BY <1>12
  <2>2. DOMAIN <<>> = {}
    OBVIOUS
  <2>3. CASE again /\ w \in DOMAIN store
    <3>1. /\ store' = Fleet!Put(<<>>, w, Fleet!Felt(store[w], sensed))
          /\ unread' = unread \cup (DOMAIN store \ {w})
      BY <2>1, <2>3
    <3>2. store[w] \in Fleet!Creature /\ Feels(store[w], seenUp[w], now)
          /\ (w \in named => store[w].display_name = "given" \/ w \in unread)
      BY <1>3, <2>3 DEF FleetInv
    <3> QED
      BY <1>6, <1>9, <1>12, <2>2, <3>1, <3>2
  <2>4. CASE ~(again /\ w \in DOMAIN store)
    <3>1. /\ store' = Fleet!Put(<<>>, w, Fleet!Felt(Fleet!Newborn, sensed))
          /\ unread' = unread \cup DOMAIN store
      BY <2>1, <2>4
    <3>2. w \in named => w \in unread'
      BY <1>5, <3>1
    <3> QED
      BY <1>4, <1>6, <1>9, <1>12, <2>2, <3>1, <3>2
  <2> QED
    BY <2>3, <2>4
<1> QED
  BY <1>8, <1>10, <1>11, <1>12 DEF Fleet!refresh, w, sensed, born

LEMMA renameInv == ASSUME FleetInv, NEW w \in Workload, Fleet!rename(w) PROVE FleetInv'
<1>1. /\ w \in DOMAIN store /\ UNCHANGED <<reading, now, seenUp, unread>>
      /\ \/ /\ store' = Fleet!Put(store, w, [store[w] EXCEPT !.display_name = "given"])
            /\ named' = named \cup {w}
         \/ UNCHANGED <<store, named>>
  BY DEF Fleet!rename
<1>2. CASE UNCHANGED <<store, named>>
  BY <1>1, <1>2 DEF FleetInv, Fleet!TypeOK, Kept
<1>3. CASE /\ store' = Fleet!Put(store, w, [store[w] EXCEPT !.display_name = "given"])
           /\ named' = named \cup {w}
  <2> DEFINE given == [store[w] EXCEPT !.display_name = "given"]
  <2>1. store[w] \in Fleet!Creature
    BY <1>1 DEF FleetInv, Fleet!TypeOK
  <2>2. /\ given \in Fleet!Creature /\ given.display_name = "given"
        /\ given.mood = store[w].mood /\ given.down_since = store[w].down_since
    BY <2>1 DEF Fleet!Creature
  <2> HIDE DEF given
  <2>3. /\ DOMAIN store' = DOMAIN store
        /\ \A v \in DOMAIN store' : store'[v] = IF v = w THEN given ELSE store[v]
    BY <1>1, <1>3 DEF Fleet!Put, given
  <2>4. Fleet!TypeOK'
    BY <1>1, <2>2, <2>3 DEF FleetInv, Fleet!TypeOK
  <2>5. Kept' = Kept
    BY <1>1, <2>3 DEF Kept
  <2>6. \A v \in DOMAIN store' : Feels(store'[v], seenUp'[v], now')
    BY <1>1, <2>2, <2>3 DEF FleetInv, Feels
  <2>7. \A v \in DOMAIN store' :
          v \in named' => store'[v].display_name = "given" \/ v \in unread'
    BY <1>1, <1>3, <2>2, <2>3 DEF FleetInv
  <2>8. named' \subseteq Kept'
    BY <1>1, <1>3, <2>5 DEF FleetInv, Kept
  <2> QED
    BY <1>1, <2>4, <2>5, <2>6, <2>7, <2>8 DEF FleetInv
<1> QED
  BY <1>1, <1>2, <1>3

LEMMA FleetStepInv == ASSUME FleetInv, [Fleet!Next]_Fleet!vars PROVE FleetInv'
<1>1. ASSUME NEW w \in Workload, Fleet!_docker_signals(w) PROVE FleetInv'
  BY <1>1 DEF Fleet!_docker_signals, FleetInv, Fleet!TypeOK, Kept
<1>2. CASE Fleet!Abandon
  BY <1>2 DEF Fleet!Abandon, FleetInv, Fleet!TypeOK, Kept
<1>3. CASE Fleet!Tick
  <2>1. /\ now \in Nat /\ now' = now + 1 /\ UNCHANGED <<store, reading, seenUp, named, unread>>
        /\ seenUp \in [Workload -> Nat \cup {None}] /\ DOMAIN store \subseteq Workload
    BY <1>3 DEF Fleet!Tick, FleetInv, Fleet!TypeOK
  <2>2. Fleet!TypeOK'
    BY <2>1 DEF FleetInv, Fleet!TypeOK
  <2>3. ASSUME NEW w \in DOMAIN store PROVE Feels(store[w], seenUp[w], now + 1)
    <3>1. /\ Feels(store[w], seenUp[w], now) /\ store[w].down_since \in Nat \cup {None}
          /\ seenUp[w] \in Nat \cup {None}
      BY <2>1 DEF FleetInv, Fleet!TypeOK, Fleet!Creature
    <3> QED
      BY <2>1, <3>1, GhostMinutes DEF Feels
  <2>4. \A w \in Workload : seenUp'[w] # None => seenUp'[w] <= now' /\ w \in Kept'
    BY <2>1 DEF FleetInv, Kept
  <2> QED
    BY <2>1, <2>2, <2>3, <2>4 DEF FleetInv, Kept
<1>4. CASE UNCHANGED Fleet!vars
  BY <1>4 DEF Fleet!vars, FleetInv, Fleet!TypeOK, Kept
<1> QED
  BY <1>1, <1>2, <1>3, <1>4, refreshInv, renameInv DEF Fleet!Next

-----------------------------------------------------------------------------
\* A secret's current value is the one its history names, the audit log tells of
\* the rows that are listed and of those that are gone, an incident is what its
\* timeline tells, and a creature is what was read of its workload (secrets.ts
\* and index.ts of the panel's server, incident_response.py, living_fleet.py).
THEOREM RecordsAlwaysAgree == ServicesSpec => []RecordsAgree
<1> DEFINE Inv == /\ focus = "secrets" => SecretsInv
                  /\ focus = "audit" => AuditInv
                  /\ focus = "incidents" => DutyInv
                  /\ focus = "fleet" => FleetInv
<1>1. ServicesInit => Inv
  BY SecretsStarts, AuditStarts, DutyStarts, FleetStarts,
     SecretsInitInv, AuditInitInv, DutyInitInv, FleetInitInv
<1>2. Inv /\ [ServicesNext]_<<focus, places>> => Inv'
  BY SecretsGoes, AuditGoes, DutyGoes, FleetGoes,
     SecretsStepInv, AuditStepInv, DutyStepInv, FleetStepInv
<1>3. Inv => RecordsAgree
  BY AuditTrue, FleetTrue DEF SecretsInv, DutyInv, RecordsAgree
<1> QED
  BY <1>1, <1>2, <1>3, PTL DEF ServicesSpec

LEMMA ViewsStarts == ServicesInit /\ focus = "views" => Views!Init
  BY DEF ServicesInit, SettingsInit, ListsInit, DeploysInit, SetupInit,
         AppsInit, SecretsInit, AuditInit, FlagsInit, SharedInit, TasksInit,
         WatchInit, TicketsInit, CommandsInit, AdviceInit, ViewsInit, DutyInit,
         FleetInit, GateInit

LEMMA ViewsGoes ==
    [ServicesNext]_<<focus, places>> =>
        UNCHANGED focus /\ (focus = "views" => [Views!Next]_Views!vars)
  BY DEF ServicesNext, SettingsStep, ListsStep, DeploysStep, SetupStep,
         AppsStep, SecretsStep, AuditStep, FlagsStep, SharedStep, TasksStep,
         WatchStep, TicketsStep, CommandsStep, AdviceStep, ViewsStep, DutyStep,
         FleetStep, GateStep, places, rest5, rest6, rest7, rest8, rest9,
         rest10, rest11, rest12, Views!vars, view, open, subject, asked,
         loads, writes, pressed, done, told, shown, busy, clears

-----------------------------------------------------------------------------
(***************************************************************************)
(* The screens.  What their table says of them: on every screen but that   *)
(* of the freeze, a button that a flag disables is among others that it    *)
(* disables too, or that are never disabled and wait for nothing; on the   *)
(* screens that ask again every button does, and on those with a filter    *)
(* none does.                                                              *)
(***************************************************************************)
Flagged(ops) == \E b \in ops : b.guard = "flag"
Reasks == {"reload", "await"}
Shows == {"patch", "replace", "leave", "none"}
Nexts == Reasks \cup Shows \cup {"later"}
Ends(v, S) == \A b \in v.ops : b.next \in S
Simple(ops) ==
    /\ \A b \in ops : b.next \in Nexts
    /\ Flagged(ops) =>
          \A b \in ops : b.guard = "flag" \/ (b.guard = "free" /\ b.next # "await")
Common(v) == Ends(v, Nexts) /\ (v = Views!DeployFreeze \/ Simple(v.ops))

LEMMA PlainButtons ==
    /\ Simple({})
    /\ \A g : \A n \in Nexts : Simple({Views!Button(g, n)})
    /\ \A n, m \in Nexts :
           /\ Simple({Views!Button("flag", n), Views!Button("flag", m)})
           /\ Simple({Views!Button("free", n), Views!Button("free", m)})
           /\ m # "await" => Simple({Views!Button("flag", n), Views!Button("free", m)})
<1>1. Simple({}) /\ \A g : \A n \in Nexts : Simple({Views!Button(g, n)})
  BY DEF Simple, Flagged, Views!Button
<1>2. \A n, m \in Nexts : Simple({Views!Button("flag", n), Views!Button("flag", m)})
  BY DEF Simple, Flagged, Views!Button
<1>3. \A n, m \in Nexts : Simple({Views!Button("free", n), Views!Button("free", m)})
  BY DEF Simple, Flagged, Views!Button
<1>4. \A n, m \in Nexts :
        m # "await" => Simple({Views!Button("flag", n), Views!Button("free", m)})
  BY DEF Simple, Flagged, Views!Button
<1> QED
  BY <1>1, <1>2, <1>3, <1>4

LEMMA ScreensCommon ==
    /\ \A when, onError, ops : Simple(ops) => Common(Views!Screen(when, onError, ops))
    /\ \A when, onError : Common(Views!Cancelling(Views!Screen(when, onError, {})))
<1>1. \A when, onError, ops : Views!Screen(when, onError, ops).ops = ops
  BY DEF Views!Screen
<1>2. \A when, onError : Views!Cancelling(Views!Screen(when, onError, {})).ops = {}
  BY DEF Views!Screen, Views!Cancelling
<1>3. ASSUME NEW when, NEW onError, NEW ops, Simple(ops)
      PROVE  Common(Views!Screen(when, onError, ops))
  <2> DEFINE v == Views!Screen(when, onError, ops)
  <2>1. v.ops = ops
    BY <1>1
  <2> HIDE DEF v
  <2>2. Common(v)
    BY <1>3, <2>1, Zenon DEF Common, Ends, Simple
  <2> QED
    BY <2>2 DEF v
<1>4. ASSUME NEW when, NEW onError
      PROVE  Common(Views!Cancelling(Views!Screen(when, onError, {})))
  BY <1>2, PlainButtons, Zenon DEF Common, Ends, Simple
<1> QED
  BY <1>3, <1>4

LEMMA ViewsCommon == \A v \in Views!Views : Common(v)
<1>1. /\ Common(Views!App) /\ Common(Views!ActivityFeed) /\ Common(Views!MainLayout)
      /\ Common(Views!ResourceDistribution) /\ Common(Views!ResourceMonitor)
      /\ Common(Views!SystemOverview)
  BY ScreensCommon DEF Views!App, Views!ActivityFeed, Views!MainLayout,
         Views!ResourceDistribution, Views!ResourceMonitor, Views!SystemOverview
<1>2. /\ Common(Views!AccessLogViewer) /\ Common(Views!BackupArtifacts)
      /\ Common(Views!BackupStatus) /\ Common(Views!GlobalSearch)
      /\ Common(Views!HealthCheckDashboard) /\ Common(Views!LiveLogs)
      /\ Common(Views!MetricsOverview) /\ Common(Views!RealtimeMetrics)
      /\ Common(Views!AuditLog) /\ Common(Views!Dashboard) /\ Common(Views!GitBlame)
      /\ Common(Views!Monitoring) /\ Common(Views!Reports)
      /\ Common(Views!ModpackSearch)
  BY ScreensCommon, PlainButtons DEF Views!AccessLogViewer, Views!BackupArtifacts,
         Views!BackupStatus,
         Views!GlobalSearch, Views!HealthCheckDashboard, Views!LiveLogs,
         Views!MetricsOverview, Views!RealtimeMetrics, Views!AuditLog,
         Views!Dashboard, Views!GitBlame, Views!Monitoring, Views!Reports, Views!ModpackSearch
<1>3. /\ Common(Views!AIConfigAdvisor) /\ Common(Views!AlertConfig)
      /\ Common(Views!AlertHistory) /\ Common(Views!BackupManager)
      /\ Common(Views!BillingDashboard) /\ Common(Views!BulkOperations)
      /\ Common(Views!ConfigEditor) /\ Common(Views!CronJobManager)
      /\ Common(Views!DatabaseManager) /\ Common(Views!GitDeployManager)
      /\ Common(Views!MaintenanceScheduler) /\ Common(Views!MetricsConfig)
      /\ Common(Views!ModpackBrowser) /\ Common(Views!TwoFactorSetup)
      /\ Common(Views!AppForm) /\ Common(Views!FeatureFlags) /\ Common(Views!KnowledgeBase)
      /\ Common(Views!Setup)
  BY ScreensCommon, PlainButtons DEF Nexts, Reasks, Shows, Views!AIConfigAdvisor,
         Views!AlertConfig, Views!AlertHistory,
         Views!BackupManager, Views!BillingDashboard, Views!BulkOperations,
         Views!ConfigEditor, Views!CronJobManager, Views!DatabaseManager,
         Views!GitDeployManager, Views!MaintenanceScheduler, Views!MetricsConfig,
         Views!ModpackBrowser, Views!TwoFactorSetup, Views!AppForm,
         Views!FeatureFlags, Views!KnowledgeBase, Views!Setup
<1>4. /\ Common(Views!ChangeApproval) /\ Common(Views!ConfigVersionControl)
      /\ Common(Views!ServerOperationsHub) /\ Common(Views!AppDetail)
      /\ Common(Views!Customers)
  <2>1. {"reload", "await", "later", "patch", "replace", "leave", "none"} = Nexts
    BY DEF Nexts, Reasks, Shows
  <2>2. Common(Views!ServerOperationsHub) /\ Common(Views!AppDetail)
    BY <2>1, ScreensCommon, PlainButtons DEF Views!ServerOperationsHub, Views!AppDetail
  <2>3. Common(Views!ChangeApproval) /\ Common(Views!ConfigVersionControl)
    BY <2>1, ScreensCommon, PlainButtons DEF Views!ChangeApproval, Views!ConfigVersionControl
  <2>4. Common(Views!Customers)
    <3>1. Simple({Views!Button("flag", "await"), Views!Button("free", "patch")})
      BY <2>1, PlainButtons
    <3>2. {Views!Button("flag", "await"), Views!Button("free", "patch")}
            = {Views!Button("free", "patch"), Views!Button("flag", "await")}
      OBVIOUS
    <3> QED
      BY <3>1, <3>2, ScreensCommon DEF Views!Customers
  <2> QED
    BY <2>2, <2>3, <2>4
<1>5. Common(Views!DeployFreeze)
  <2>1. Views!DeployFreeze.ops = {Views!Button("flag", "await"), Views!Button("input", "await")}
    BY ScreensCommon DEF Views!DeployFreeze, Views!Screen
  <2>2. \A g : Views!Button(g, "await").next = "await"
    BY DEF Views!Button
  <2> QED
    BY <2>1, <2>2 DEF Common, Ends, Nexts, Reasks
<1> QED
  BY <1>1, <1>2, <1>3, <1>4, <1>5 DEF Views!Views

\* What the buttons of a screen with one, two or none do after a success.
LEMMA ScreensEnds ==
    ASSUME NEW S
    PROVE  /\ \A when, onError : Ends(Views!Screen(when, onError, {}), S)
           /\ \A when, onError, g : \A n \in S :
                 Ends(Views!Screen(when, onError, {Views!Button(g, n)}), S)
           /\ \A when, onError, g, h : \A n, m \in S :
                 Ends(Views!Screen(when, onError, {Views!Button(g, n), Views!Button(h, m)}), S)
<1>1. \A when, onError, ops : Views!Screen(when, onError, ops).ops = ops
  BY DEF Views!Screen
<1>2. \A g, n : Views!Button(g, n).next = n
  BY DEF Views!Button
<1>3. ASSUME NEW when, NEW onError PROVE Ends(Views!Screen(when, onError, {}), S)
  <2> DEFINE v == Views!Screen(when, onError, {})
  <2>1. v.ops = {}
    BY <1>1
  <2> HIDE DEF v
  <2>2. Ends(v, S)
    BY <1>2, <2>1 DEF Ends
  <2> QED
    BY <2>2 DEF v
<1>4. ASSUME NEW when, NEW onError, NEW g, NEW n \in S
      PROVE  Ends(Views!Screen(when, onError, {Views!Button(g, n)}), S)
  <2> DEFINE v == Views!Screen(when, onError, {Views!Button(g, n)})
  <2>1. v.ops = {Views!Button(g, n)}
    BY <1>1
  <2> HIDE DEF v
  <2>2. Ends(v, S)
    BY <1>2, <2>1 DEF Ends
  <2> QED
    BY <2>2 DEF v
<1>5. ASSUME NEW when, NEW onError, NEW g, NEW h, NEW n \in S, NEW m \in S
      PROVE  Ends(Views!Screen(when, onError, {Views!Button(g, n), Views!Button(h, m)}), S)
  <2> DEFINE v == Views!Screen(when, onError, {Views!Button(g, n), Views!Button(h, m)})
  <2>1. v.ops = {Views!Button(g, n), Views!Button(h, m)}
    BY <1>1
  <2> HIDE DEF v
  <2>2. Ends(v, S)
    BY <1>2, <2>1 DEF Ends
  <2> QED
    BY <2>2 DEF v
<1> QED
  BY <1>3, <1>4, <1>5

LEMMA AskingEnds == \A v \in Views!Asking : Ends(v, Reasks)
<1>1. /\ Ends(Views!AlertConfig, Reasks) /\ Ends(Views!BackupManager, Reasks)
      /\ Ends(Views!BulkOperations, Reasks) /\ Ends(Views!CronJobManager, Reasks)
      /\ Ends(Views!DatabaseManager, Reasks) /\ Ends(Views!FeatureFlags, Reasks)
      /\ Ends(Views!GitDeployManager, Reasks) /\ Ends(Views!KnowledgeBase, Reasks)
      /\ Ends(Views!MaintenanceScheduler, Reasks)
  BY ScreensEnds DEF Reasks, Views!AlertConfig, Views!BackupManager, Views!BulkOperations,
         Views!CronJobManager, Views!DatabaseManager, Views!FeatureFlags,
         Views!GitDeployManager, Views!KnowledgeBase, Views!MaintenanceScheduler
<1>2. /\ Ends(Views!ChangeApproval, Reasks) /\ Ends(Views!ConfigVersionControl, Reasks)
      /\ Ends(Views!DeployFreeze, Reasks)
  BY ScreensEnds DEF Reasks, Views!ChangeApproval, Views!ConfigVersionControl,
         Views!DeployFreeze
<1> QED
  BY <1>1, <1>2 DEF Views!Asking

LEMMA FeedCancels ==
    Views!ActivityFeed.ops = {} /\ Views!ActivityFeed.cancels = TRUE
                                /\ Views!ActivityFeed.onError = "empty"
BY DEF Views!ActivityFeed, Views!Cancelling, Views!Screen

LEMMA FilteringEnds == \A v \in Views!Filtering : Ends(v, Shows)
<1>1. /\ Ends(Views!AIConfigAdvisor, Shows) /\ Ends(Views!AppForm, Shows)
      /\ Ends(Views!AuditLog, Shows) /\ Ends(Views!ConfigEditor, Shows)
      /\ Ends(Views!GlobalSearch, Shows) /\ Ends(Views!LiveLogs, Shows)
      /\ Ends(Views!Monitoring, Shows) /\ Ends(Views!RealtimeMetrics, Shows)
  BY ScreensEnds DEF Shows, Views!AIConfigAdvisor, Views!AppForm, Views!AuditLog,
         Views!ConfigEditor, Views!GlobalSearch, Views!LiveLogs, Views!Monitoring,
         Views!RealtimeMetrics
<1>2. Ends(Views!AppDetail, Shows) /\ Ends(Views!ServerOperationsHub, Shows)
  BY ScreensEnds DEF Shows, Views!AppDetail, Views!ServerOperationsHub
<1>3. Ends(Views!ActivityFeed, Shows)
  BY FeedCancels DEF Ends
<1> QED
  BY <1>1, <1>2, <1>3 DEF Views!Filtering


-----------------------------------------------------------------------------
(***************************************************************************)
(* The questions are numbered in the order they were asked.  Where every   *)
(* success asks again, whatever the screen was told of was told before the *)
(* latest question, whose answer therefore holds it; where none does, the  *)
(* latest question is about what the user last chose.  The activity feed   *)
(* shows that, or nothing, or has a question about it out that it will not *)
(* ignore.  A screen with a disabled button holds one request at most, and *)
(* a question that request waits for.                                      *)
(***************************************************************************)
Load == [id : 1..MaxLoads, about : 1..MaxSubjects, by : 0..MaxWrites, past : BOOLEAN,
         read : {None} \cup SUBSET (1..MaxWrites)]
Written == [id : 1..MaxWrites, button : view.ops, about : 1..MaxSubjects,
            saw : SUBSET (1..MaxWrites), at : {"sent", "done", "awaits", "later"}]
Shown == [from : 0..MaxLoads, about : 0..MaxSubjects, has : SUBSET (1..MaxWrites)]

Numbered == shown.from <= asked /\ \A l \in loads : l.id <= asked

OwnKept ==
    view \in Views!Asking =>
        /\ \A l \in loads :
              l.id = asked /\ l.read # None => told \subseteq l.read
        /\ shown.from = asked /\ asked > 0 => told \subseteq shown.has

SubjectKept ==
    view \in Views!Filtering =>
        /\ \A w \in writes : w.at # "later"
        /\ \A l \in loads : l.id = asked => l.about = subject
        /\ shown.from = asked /\ asked > 0 => shown.about = subject

FeedKept ==
    view = Views!ActivityFeed =>
        /\ open = TRUE /\ writes = {}
        /\ \A l \in loads : l.past = TRUE \/ l.about = subject
        /\ shown.about \in {0, subject} \/ \E l \in loads : l.past = FALSE

Guarded == view # Views!DeployFreeze /\ Flagged(view.ops)
Holding(w) == w.button.guard # "free" /\ w.at # "later"
HeldOnce ==
    /\ ~clears
    /\ \A w \in writes : Holding(w) =>
           busy # None /\ \A u \in writes : Holding(u) => u = w
    /\ \A l \in loads : l.by # 0 =>
           /\ \E w \in writes : Holding(w) /\ w.at = "awaits" /\ w.id = l.by
           /\ \A k \in loads : k.by # 0 => k = l

Performed == \A w \in writes : w.at # "sent" => w.id \in done

ViewsInv ==
    /\ Views!TypeOK
    /\ Performed
    /\ Numbered
    /\ OwnKept
    /\ SubjectKept
    /\ FeedKept
    /\ Guarded => HeldOnce

LEMMA ViewsTyped ==
    ASSUME ViewsInv
    PROVE  /\ loads \subseteq Load /\ writes \subseteq Written
           /\ Common(view) /\ view \in Views!Views
           /\ subject \in 1..MaxSubjects /\ asked \in 0..MaxLoads /\ pressed \in 0..MaxWrites
           /\ done \subseteq 1..MaxWrites /\ told \subseteq done
           /\ shown \in Shown
           /\ \A w \in writes : /\ w.button \in view.ops /\ w.id \in 1..MaxWrites
                                 /\ w.about \in 1..MaxSubjects /\ w.saw \subseteq 1..MaxWrites
           /\ MaxLoads \in Nat /\ MaxWrites \in Nat /\ MaxSubjects \in Nat /\ None \notin Nat
<1>1. /\ loads \subseteq Load /\ writes \subseteq Written
      /\ Common(view) /\ view \in Views!Views
      /\ subject \in 1..MaxSubjects /\ asked \in 0..MaxLoads /\ pressed \in 0..MaxWrites
      /\ done \subseteq 1..MaxWrites /\ told \subseteq done
      /\ shown \in Shown
  BY ViewsCommon DEF ViewsInv, Views!TypeOK, Load, Written, Shown
<1>2. \A w \in writes : /\ w.button \in view.ops /\ w.id \in 1..MaxWrites
                        /\ w.about \in 1..MaxSubjects /\ w.saw \subseteq 1..MaxWrites
  BY <1>1 DEF Written
<1>3. MaxLoads \in Nat /\ MaxWrites \in Nat /\ MaxSubjects \in Nat /\ None \notin Nat
  BY ServicesAssumption
<1> QED
  BY <1>1, <1>2, <1>3

\* A question is asked.
Posed(about, by) ==
    \E q \in Load : /\ loads' = loads \cup {q} /\ q.about = about /\ q.by = by
                     /\ q.past = FALSE /\ q.id = asked' /\ q.read = None

LEMMA ViewsAsked ==
    ASSUME ViewsInv, NEW about \in 1..MaxSubjects, NEW by \in 0..MaxWrites, Views!Ask(about, by)
    PROVE  /\ asked' \in 0..MaxLoads
           /\ asked' = asked + 1 /\ asked \in Nat
           /\ Posed(about, by)
<1> DEFINE q == [id |-> asked + 1, about |-> about, by |-> by, read |-> None, past |-> FALSE]
<1>1. loads' = loads \cup {q} /\ asked' = asked + 1 /\ asked < MaxLoads
  BY DEF Views!Ask, Views!Question
<1>2. asked + 1 \in 1..MaxLoads
  BY <1>1, ViewsTyped
<1>3. None \in {None} \cup SUBSET (1..MaxWrites)
  OBVIOUS
<1>4. q \in Load
  BY <1>2, <1>3 DEF Load
<1>5. /\ q.about = about /\ q.by = by /\ q.past = FALSE /\ q.read = None
      /\ q.id = asked + 1
  OBVIOUS
<1>6. asked \in Nat
  BY ViewsTyped
<1> HIDE DEF q
<1>7. Posed(about, by)
  BY <1>1, <1>4, <1>5 DEF Posed
<1> QED
  BY <1>1, <1>2, <1>6, <1>7

\* A new question is the latest, and what is shown is older.
LEMMA ViewsNew ==
    ASSUME ViewsInv
    PROVE  /\ asked \in Nat /\ shown.from \in Nat /\ \A l \in loads : l.id \in Nat
           /\ shown.from <= asked /\ \A l \in loads : l.id <= asked
           /\ shown.from # asked + 1 /\ \A l \in loads : l.id # asked + 1
<1>1. /\ asked \in Nat /\ shown.from \in Nat /\ \A l \in loads : l.id \in Nat
      /\ shown.from <= asked /\ \A l \in loads : l.id <= asked
  BY ViewsTyped DEF Load, Shown, ViewsInv, Numbered
<1> QED
  BY <1>1

\* Where a question more is the latest there is nothing yet to say of it.
LEMMA ViewsAskedKept ==
    ASSUME ViewsInv, NEW q \in Load, loads' = loads \cup {q},
           q.id = asked', q.read = None, asked' = asked + 1, UNCHANGED <<view, shown>>
    PROVE  Numbered' /\ OwnKept'
<1>1. /\ asked \in Nat /\ shown.from \in Nat /\ \A l \in loads : l.id \in Nat
      /\ shown.from <= asked /\ \A l \in loads : l.id <= asked
  BY ViewsNew
<1>2. shown'.from # asked' /\ shown'.from <= asked'
  BY <1>1
<1>3. \A l \in loads' : l.id <= asked' /\ (l.id = asked' => l = q)
  BY <1>1
<1>4. Numbered'
  BY <1>2, <1>3 DEF Numbered
<1>5. OwnKept'
  BY <1>2, <1>3 DEF OwnKept
<1> QED
  BY <1>4, <1>5

LEMMA ViewsRefreshInv == ASSUME ViewsInv, Views!Refresh PROVE ViewsInv'
<1>1. /\ Views!Ask(subject, 0)
      /\ UNCHANGED <<view, open, subject, writes, pressed, done, told, shown, busy, clears>>
  BY DEF Views!Refresh
<1>2. subject \in 1..MaxSubjects /\ 0 \in 0..MaxWrites /\ loads \subseteq Load
  BY ViewsTyped
<1>3. asked' \in 0..MaxLoads /\ asked' = asked + 1 /\ asked \in Nat
  BY <1>1, <1>2, ViewsAsked
<1>4. PICK q \in Load : /\ loads' = loads \cup {q} /\ q.about = subject /\ q.by = 0
                        /\ q.past = FALSE /\ q.id = asked' /\ q.read = None
  <2>1. Posed(subject, 0)
    BY <1>1, <1>2, ViewsAsked
  <2> QED
    BY <2>1 DEF Posed
<1>5. Views!TypeOK'
  BY <1>1, <1>2, <1>3, <1>4 DEF ViewsInv, Views!TypeOK, Load
<1>6. Performed'
  BY <1>1 DEF ViewsInv, Performed
<1>7. Numbered' /\ OwnKept'
  BY <1>1, <1>3, <1>4, ViewsAskedKept
<1>8. SubjectKept'
  BY <1>1, <1>3, <1>4, ViewsNew DEF ViewsInv, SubjectKept
<1>9. FeedKept'
  BY <1>1, <1>4 DEF ViewsInv, FeedKept
<1>10. Guarded' => HeldOnce'
  BY <1>1, <1>4 DEF ViewsInv, HeldOnce, Holding, Guarded
<1> QED
  BY <1>5, <1>6, <1>7, <1>8, <1>9, <1>10 DEF ViewsInv

LEMMA ViewsChangeInv == ASSUME ViewsInv, Views!Change PROVE ViewsInv'
<1> DEFINE q == [id |-> asked + 1, about |-> subject + 1, by |-> 0, read |-> None,
                 past |-> FALSE]
<1>1. /\ subject < MaxSubjects /\ asked < MaxLoads
      /\ subject' = subject + 1 /\ asked' = asked + 1
      /\ loads' = {[l EXCEPT !.past = TRUE] : l \in loads} \cup {q}
      /\ UNCHANGED <<view, open, writes, pressed, done, told, shown, busy, clears>>
  BY DEF Views!Change, Views!Question
<1>2. /\ subject' \in 1..MaxSubjects /\ asked' \in 1..MaxLoads
      /\ loads \subseteq Load /\ 0 \in 0..MaxWrites
  BY <1>1, ViewsTyped
<1>3. /\ q \in Load /\ q.about = subject' /\ q.by = 0 /\ q.past = FALSE
      /\ q.id = asked' /\ q.read = None
  BY <1>1, <1>2 DEF Load
<1> HIDE DEF q
<1>4. \A l \in loads : /\ [l EXCEPT !.past = TRUE] \in Load
                       /\ [l EXCEPT !.past = TRUE].past = TRUE
                       /\ [l EXCEPT !.past = TRUE].by = l.by
                       /\ [l EXCEPT !.past = TRUE].id = l.id
  BY <1>2 DEF Load
<1>5. Views!TypeOK'
  <2>1. loads' \subseteq Load
    BY <1>1, <1>3, <1>4
  <2> QED
    BY <1>1, <1>2, <2>1 DEF ViewsInv, Views!TypeOK, Load
<1>6. Performed'
  BY <1>1 DEF ViewsInv, Performed
<1>7. shown'.from # asked' /\ shown'.from <= asked'
  <2>1. asked' = asked + 1 /\ shown' = shown
    BY <1>1
  <2> QED
    BY <2>1, ViewsNew
<1>8. \A k \in loads' : k.id <= asked' /\ (k.id = asked' => k = q)
  <2>1. \A l \in loads : l.id <= asked' /\ l.id # asked'
    <3>1. asked' = asked + 1
      BY <1>1
    <3> QED
      BY <3>1, ViewsNew
  <2>2. \A k \in loads' : k = q \/ \E l \in loads : k.id = l.id
    BY <1>1, <1>4
  <2>3. q.id <= asked'
    BY <1>2, <1>3
  <2> QED
    BY <2>1, <2>2, <2>3
<1>9. Numbered'
  BY <1>7, <1>8 DEF Numbered
<1>10. OwnKept'
  BY <1>3, <1>7, <1>8 DEF OwnKept
<1>11. SubjectKept'
  BY <1>1, <1>3, <1>7, <1>8 DEF ViewsInv, SubjectKept
<1>12. FeedKept'
  <2>1. \A k \in loads' : k.past = TRUE \/ k.about = subject'
    BY <1>1, <1>3, <1>4
  <2>2. q \in loads' /\ q.past = FALSE
    BY <1>1, <1>3
  <2> QED
    BY <1>1, <2>1, <2>2 DEF ViewsInv, FeedKept
<1>13. Guarded' => HeldOnce'
  <2>1. \A k \in loads' : k.by # 0 =>
          \E l \in loads : l.by = k.by /\ k = [l EXCEPT !.past = TRUE]
    BY <1>1, <1>3, <1>4
  <2> SUFFICES ASSUME Guarded' PROVE HeldOnce'
    OBVIOUS
  <2>2. HeldOnce
    BY <1>1 DEF ViewsInv, Guarded
  <2>3. ~clears'
    BY <1>1, <2>2 DEF HeldOnce
  <2>4. \A w \in writes' : Holding(w)' =>
           busy' # None /\ \A u \in writes' : Holding(u)' => u = w
    BY <1>1, <2>2 DEF HeldOnce, Holding
  <2>5. \A k \in loads' : k.by # 0 =>
           \E w \in writes' : Holding(w)' /\ w.at = "awaits" /\ w.id = k.by
    BY <1>1, <2>1, <2>2 DEF HeldOnce, Holding
  <2>6. \A j \in loads' : j.by # 0 => \A k \in loads' : k.by # 0 => k = j
    BY <2>1, <2>2 DEF HeldOnce
  <2> QED
    BY <2>3, <2>4, <2>5, <2>6, Zenon DEF HeldOnce
<1> QED
  BY <1>5, <1>6, <1>9, <1>10, <1>11, <1>12, <1>13 DEF ViewsInv

LEMMA ViewsReadInv == ASSUME ViewsInv, NEW l \in loads, Views!Read(l) PROVE ViewsInv'
<1> DEFINE q == [l EXCEPT !.read = done]
<1>1. /\ loads' = (loads \ {l}) \cup {q}
      /\ UNCHANGED <<view, open, subject, asked, writes, pressed, done, told, shown, busy,
                     clears>>
  BY DEF Views!Read
<1>2. /\ l \in Load /\ done \subseteq 1..MaxWrites /\ loads \subseteq Load
      /\ told \subseteq done
  BY ViewsTyped
<1>3. /\ q \in Load /\ q.about = l.about /\ q.by = l.by /\ q.past = l.past
      /\ q.id = l.id /\ q.read = done
  BY <1>2 DEF Load
<1> HIDE DEF q
<1>4. Views!TypeOK'
  <2>1. loads' \subseteq Load
    BY <1>1, <1>2, <1>3
  <2> QED
    BY <1>1, <2>1 DEF ViewsInv, Views!TypeOK, Load
<1>5. Performed'
  BY <1>1 DEF ViewsInv, Performed
<1>6. Numbered'
  BY <1>1, <1>3 DEF ViewsInv, Numbered
<1>7. OwnKept'
  <2>1. told' \subseteq q.read
    BY <1>1, <1>2, <1>3
  <2> QED
    BY <1>1, <1>3, <2>1 DEF ViewsInv, OwnKept
<1>8. SubjectKept'
  BY <1>1, <1>3 DEF ViewsInv, SubjectKept
<1>9. FeedKept'
  BY <1>1, <1>3 DEF ViewsInv, FeedKept
<1>10. Guarded' => HeldOnce'
  BY <1>1, <1>3 DEF ViewsInv, HeldOnce, Holding, Guarded
<1> QED
  BY <1>4, <1>5, <1>6, <1>7, <1>8, <1>9, <1>10 DEF ViewsInv

\* A question l is answered or fails.
LEMMA ViewsSettled ==
    ASSUME ViewsInv, NEW l \in loads, loads' = loads \ {l},
           writes' = {w \in writes : w.id # l.by}, busy' = Views!Enabled(l),
           UNCHANGED <<view, done, clears>>
    PROVE  /\ loads' \subseteq Load /\ writes' \subseteq Written /\ busy' \in {None, 1, 2}
           /\ Performed'
           /\ Guarded' => HeldOnce'
           /\ l.by = 0 => writes' = writes
<1>1. loads \subseteq Load /\ writes \subseteq Written /\ \A w \in writes : w.id \in 1..MaxWrites
  BY ViewsTyped
<1>2. busy \in {None, 1, 2}
  BY DEF ViewsInv, Views!TypeOK
<1>3. l.by = 0 => writes' = writes
  BY <1>1
<1>4. Performed'
  BY DEF ViewsInv, Performed
<1>5. ASSUME Guarded' PROVE HeldOnce'
  <2>1. HeldOnce
    BY <1>5 DEF ViewsInv, Guarded
  <2>2. ~clears'
    BY <2>1 DEF HeldOnce
  <2>3. CASE l.by = 0
    <3>1. writes' = writes /\ busy' = busy
      BY <1>3, <2>3 DEF Views!Enabled
    <3> QED
      BY <2>1, <2>2, <3>1 DEF HeldOnce, Holding
  <2>4. CASE l.by # 0
    <3>1. \A k \in loads' : k.by = 0
      BY <2>1, <2>4 DEF HeldOnce
    <3>2. \A w \in writes' : ~Holding(w)'
      BY <2>1, <2>4 DEF HeldOnce, Holding
    <3> QED
      BY <2>2, <3>1, <3>2, Zenon DEF HeldOnce
  <2> QED
    BY <2>3, <2>4
<1> QED
  BY <1>1, <1>2, <1>3, <1>4, <1>5 DEF Views!Enabled, Written

LEMMA ViewsAnswerInv == ASSUME ViewsInv, NEW l \in loads, Views!Answer(l) PROVE ViewsInv'
<1>1. /\ l.read # None
      /\ loads' = loads \ {l} /\ writes' = {w \in writes : w.id # l.by}
      /\ busy' = Views!Enabled(l)
      /\ shown' = IF Views!Heard(l)
                  THEN [from |-> l.id, about |-> l.about, has |-> l.read] ELSE shown
      /\ UNCHANGED <<view, open, subject, asked, pressed, done, told, clears>>
  BY DEF Views!Answer
<1>2. /\ loads' \subseteq Load /\ writes' \subseteq Written /\ busy' \in {None, 1, 2}
      /\ Performed' /\ (Guarded' => HeldOnce')
  BY <1>1, ViewsSettled
<1>3. /\ l \in Load /\ l.read \in SUBSET (1..MaxWrites) /\ l.about \in 1..MaxSubjects
      /\ l.id \in 1..MaxLoads
  BY <1>1, ViewsTyped DEF Load
<1>4. MaxSubjects \in Nat /\ MaxLoads \in Nat
  BY ViewsTyped
<1>5. Views!TypeOK'
  <2>1. shown' \in Shown
    BY <1>1, <1>3, <1>4, ViewsTyped DEF Shown
  <2>2. writes' \subseteq [id : 1..MaxWrites, button : view.ops, about : 1..MaxSubjects,
                           saw : SUBSET (1..MaxWrites), at : {"sent", "done", "awaits",
                             "later"}]
    BY <1>2 DEF Written
  <2>3. view' \in Views!Views /\ open' \in BOOLEAN /\ subject' \in 1..MaxSubjects
        /\ asked' \in 0..MaxLoads /\ pressed' \in 0..MaxWrites
        /\ done' \subseteq 1..MaxWrites /\ told' \subseteq done' /\ clears' \in BOOLEAN
    BY <1>1 DEF ViewsInv, Views!TypeOK
  <2> QED
    BY <1>1, <1>2, <2>1, <2>2, <2>3 DEF Views!TypeOK, Load, Shown
<1>6. /\ Views!Heard(l) => /\ shown'.from = l.id /\ shown'.about = l.about
                           /\ shown'.has = l.read
      /\ ~Views!Heard(l) => shown' = shown
  BY <1>1
<1>7. Numbered'
  BY <1>1, <1>6 DEF ViewsInv, Numbered
<1>8. OwnKept'
  BY <1>1, <1>6 DEF ViewsInv, OwnKept
<1>9. SubjectKept'
  BY <1>1, <1>6 DEF ViewsInv, SubjectKept
<1>10. FeedKept'
  <2> SUFFICES ASSUME view = Views!ActivityFeed PROVE FeedKept'
    BY <1>1 DEF FeedKept
  <2>1. FeedKept /\ view.cancels = TRUE
    BY FeedCancels DEF ViewsInv
  <2>2. l.past = TRUE \/ Views!Heard(l)
    BY <2>1 DEF FeedKept, Views!Heard
  <2> QED
    BY <1>1, <1>6, <2>1, <2>2 DEF FeedKept, Views!Heard
<1> QED
  BY <1>2, <1>5, <1>7, <1>8, <1>9, <1>10 DEF ViewsInv

LEMMA ViewsFailInv == ASSUME ViewsInv, NEW l \in loads, Views!Fail(l) PROVE ViewsInv'
<1>1. /\ loads' = loads \ {l} /\ writes' = {w \in writes : w.id # l.by}
      /\ busy' = Views!Enabled(l)
      /\ open' = (open /\ ~(Views!Heard(l) /\ view.onError = "leave"))
      /\ shown' = IF Views!Heard(l) /\ view.onError = "empty" THEN Views!Empty ELSE shown
      /\ UNCHANGED <<view, subject, asked, pressed, done, told, clears>>
  BY DEF Views!Fail
<1>2. /\ loads' \subseteq Load /\ writes' \subseteq Written /\ busy' \in {None, 1, 2}
      /\ Performed' /\ (Guarded' => HeldOnce')
  BY <1>1, ViewsSettled
<1>3. /\ Views!Empty.from = 0 /\ Views!Empty.about = 0
      /\ shown' = shown \/ shown' = Views!Empty
  BY <1>1 DEF Views!Empty
<1>4. /\ MaxSubjects \in Nat /\ MaxLoads \in Nat /\ asked \in Nat /\ shown \in Shown
  BY ViewsTyped
<1>5. Views!TypeOK'
  <2>1. shown' \in Shown
    BY <1>1, <1>4 DEF Shown, Views!Empty
  <2>2. open' \in BOOLEAN
    BY <1>1
  <2>3. writes' \subseteq [id : 1..MaxWrites, button : view.ops, about : 1..MaxSubjects,
                           saw : SUBSET (1..MaxWrites), at : {"sent", "done", "awaits",
                             "later"}]
    BY <1>2 DEF Written
  <2>4. view' \in Views!Views /\ subject' \in 1..MaxSubjects
        /\ asked' \in 0..MaxLoads /\ pressed' \in 0..MaxWrites
        /\ done' \subseteq 1..MaxWrites /\ told' \subseteq done' /\ clears' \in BOOLEAN
    BY <1>1 DEF ViewsInv, Views!TypeOK
  <2> QED
    BY <1>1, <1>2, <2>1, <2>2, <2>3, <2>4 DEF Views!TypeOK, Load, Shown
<1>6. Numbered'
  BY <1>1, <1>3, <1>4 DEF ViewsInv, Numbered
<1>7. OwnKept'
  BY <1>1, <1>3 DEF ViewsInv, OwnKept
<1>8. SubjectKept'
  BY <1>1, <1>3 DEF ViewsInv, SubjectKept
<1>9. FeedKept'
  <2> SUFFICES ASSUME view = Views!ActivityFeed PROVE FeedKept'
    BY <1>1 DEF FeedKept
  <2>1. FeedKept /\ view.cancels = TRUE /\ view.onError = "empty"
    BY FeedCancels DEF ViewsInv
  <2>2. l.past = TRUE \/ Views!Heard(l)
    BY <2>1 DEF FeedKept, Views!Heard
  <2>3. open' = TRUE /\ writes' = {}
    BY <1>1, <2>1 DEF FeedKept
  <2>4. \A k \in loads' : k.past = TRUE \/ k.about = subject'
    BY <1>1, <2>1 DEF FeedKept
  <2>5. shown'.about \in {0, subject'} \/ \E k \in loads' : k.past = FALSE
    BY <1>1, <1>3, <2>1, <2>2 DEF FeedKept, Views!Heard
  <2> QED
    BY <2>3, <2>4, <2>5 DEF FeedKept
<1> QED
  BY <1>2, <1>5, <1>6, <1>7, <1>8, <1>9 DEF ViewsInv

\* What the buttons of a screen are.
LEMMA ViewsButtons ==
    ASSUME ViewsInv, NEW b \in view.ops
    PROVE  /\ b.next \in Nexts
           /\ Guarded => b.guard = "flag" \/ (b.guard = "free" /\ b.next # "await")
           /\ view \in Views!Asking => b.next \in Reasks
           /\ view \in Views!Filtering => b.next \in Shows
           /\ view # Views!ActivityFeed
<1>1. b.next \in Nexts
  BY ViewsTyped DEF Common, Ends
<1>2. Guarded => b.guard = "flag" \/ (b.guard = "free" /\ b.next # "await")
  BY ViewsTyped DEF Common, Simple, Guarded
<1>3. /\ view \in Views!Asking => b.next \in Reasks
      /\ view \in Views!Filtering => b.next \in Shows
  BY AskingEnds, FilteringEnds DEF Ends
<1>4. view # Views!ActivityFeed
  BY FeedCancels
<1> QED
  BY <1>1, <1>2, <1>3, <1>4

LEMMA ViewsPressInv ==
    ASSUME ViewsInv, NEW b \in view.ops, NEW row \in 1..2, Views!Press(b, row) PROVE ViewsInv'
<1> DEFINE u == [id |-> pressed + 1, button |-> b, about |-> subject, at |-> "sent", saw |-> {}]
<1>1. /\ pressed < MaxWrites /\ Views!Pressable(b, row)
      /\ pressed' = pressed + 1 /\ writes' = writes \cup {u}
      /\ busy' = IF b.guard = "free" THEN busy ELSE row
      /\ UNCHANGED <<view, open, subject, asked, loads, done, told, shown,
         clears>>
  BY DEF Views!Press
<1>2. /\ pressed' \in 1..MaxWrites /\ subject \in 1..MaxSubjects
      /\ writes \subseteq Written
  BY <1>1, ViewsTyped
<1>3. u \in Written /\ u.at = "sent" /\ u.button = b
  BY <1>1, <1>2 DEF Written
<1> HIDE DEF u
<1>4. busy' \in {None, 1, 2}
  BY <1>1 DEF ViewsInv, Views!TypeOK
<1>5. Views!TypeOK'
  <2>1. writes' \subseteq [id : 1..MaxWrites, button : view.ops, about : 1..MaxSubjects,
                           saw : SUBSET (1..MaxWrites), at : {"sent", "done", "awaits",
                             "later"}]
    BY <1>1, <1>2, <1>3 DEF Written
  <2> QED
    BY <1>1, <1>2, <1>4, <2>1 DEF ViewsInv, Views!TypeOK
<1>6. Performed'
  BY <1>1, <1>3 DEF ViewsInv, Performed
<1>7. Numbered' /\ OwnKept'
  BY <1>1 DEF ViewsInv, Numbered, OwnKept
<1>8. SubjectKept' /\ FeedKept'
  BY <1>1, <1>3, ViewsButtons DEF ViewsInv, SubjectKept, FeedKept
<1>9. ASSUME Guarded' PROVE HeldOnce'
  <2>1. HeldOnce /\ Guarded
    BY <1>1, <1>9 DEF ViewsInv, Guarded
  <2>2. ~clears'
    BY <1>1, <2>1 DEF HeldOnce
  <2>3. CASE b.guard = "free"
    <3>1. \A w : Holding(w)' <=> Holding(w)
      BY <1>1 DEF Holding
    <3>2. busy' = busy /\ ~Holding(u)
      BY <1>1, <1>3, <2>3 DEF Holding
    <3>3. \A w \in writes' : Holding(w)' =>
             busy' # None /\ \A v \in writes' : Holding(v)' => v = w
      BY <1>1, <2>1, <3>1, <3>2 DEF HeldOnce
    <3>4. \A k \in loads' : k.by # 0 =>
             /\ \E w \in writes' : Holding(w)' /\ w.at = "awaits" /\ w.id = k.by
             /\ \A j \in loads' : j.by # 0 => j = k
      BY <1>1, <2>1, <3>1 DEF HeldOnce
    <3> QED
      BY <2>2, <3>3, <3>4, Zenon DEF HeldOnce
  <2>4. CASE b.guard # "free"
    <3>1. b.guard = "flag"
      BY <2>1, <2>4, ViewsButtons
    <3>2. busy = None
      BY <1>1, <3>1 DEF Views!Pressable
    <3>3. \A w \in writes : ~Holding(w)
      BY <2>1, <3>2 DEF HeldOnce
    <3>4. \A k \in loads' : k.by = 0
      BY <1>1, <2>1, <3>3 DEF HeldOnce
    <3>5. None \notin Nat
      BY ServicesAssumption
    <3>6. busy' # None
      BY <1>1, <2>4, <3>5
    <3>7. \A w \in writes' : Holding(w)' => w = u
      BY <1>1, <3>3 DEF Holding
    <3> QED
      BY <2>2, <3>4, <3>6, <3>7 DEF HeldOnce
  <2> QED
    BY <2>3, <2>4
<1> QED
  BY <1>5, <1>6, <1>7, <1>8, <1>9 DEF ViewsInv

\* A request moves on.
LEMMA ViewsMoved ==
    ASSUME ViewsInv, NEW w \in writes, NEW to \in {"done", "awaits", "later"},
           NEW now1 \in SUBSET (1..MaxWrites)
    PROVE  \E u \in Written : /\ Views!Moved(w, to, now1) = (writes \ {w}) \cup {u}
                              /\ u.id = w.id /\ u.button = w.button /\ u.at = to
<1> DEFINE u == [w EXCEPT !.at = to, !.saw = now1]
<1>1. Views!Moved(w, to, now1) = (writes \ {w}) \cup {u}
  BY DEF Views!Moved
<1>2. w \in Written
  BY ViewsTyped
<1>3. u \in Written /\ u.id = w.id /\ u.button = w.button /\ u.at = to
  BY <1>2 DEF Written
<1> QED
  BY <1>1, <1>3

LEMMA ViewsPerformInv == ASSUME ViewsInv, NEW w \in writes, Views!Perform(w) PROVE ViewsInv'
<1>1. /\ w.at = "sent" /\ done' = done \cup {w.id} /\ writes' = Views!Moved(w, "done", done')
      /\ UNCHANGED <<view, open, subject, asked, loads, pressed, told, shown,
                     busy, clears>>
  BY DEF Views!Perform
<1>2. done' \in SUBSET (1..MaxWrites) /\ writes \subseteq Written /\ told \subseteq done'
  BY <1>1, ViewsTyped
<1>3. PICK u \in Written : /\ writes' = (writes \ {w}) \cup {u}
                           /\ u.id = w.id /\ u.button = w.button /\ u.at = "done"
  BY <1>1, <1>2, ViewsMoved
<1>5. Views!TypeOK'
  <2>1. writes' \subseteq [id : 1..MaxWrites, button : view.ops, about : 1..MaxSubjects,
                           saw : SUBSET (1..MaxWrites), at : {"sent", "done", "awaits",
                             "later"}]
    BY <1>2, <1>3 DEF Written
  <2> QED
    BY <1>1, <1>2, <2>1 DEF ViewsInv, Views!TypeOK
<1>6. Performed'
  BY <1>1, <1>3 DEF ViewsInv, Performed
<1>7. Numbered' /\ OwnKept'
  BY <1>1 DEF ViewsInv, Numbered, OwnKept
<1>8. SubjectKept' /\ FeedKept'
  BY <1>1, <1>3 DEF ViewsInv, SubjectKept, FeedKept
<1>9. ASSUME Guarded' PROVE HeldOnce'
  <2>1. HeldOnce /\ Guarded
    BY <1>1, <1>9 DEF ViewsInv, Guarded
  <2>2. ~clears'
    BY <1>1, <2>1 DEF HeldOnce
  <2>3. Holding(u) <=> Holding(w)
    BY <1>1, <1>3 DEF Holding
  <2>4. \A v \in writes' : Holding(v)' =>
           busy' # None /\ \A k \in writes' : Holding(k)' => k = v
    BY <1>1, <1>3, <2>1, <2>3 DEF HeldOnce, Holding
  <2>5. \A k \in loads' : k.by # 0 =>
           /\ \E v \in writes' : Holding(v)' /\ v.at = "awaits" /\ v.id = k.by
           /\ \A j \in loads' : j.by # 0 => j = k
    BY <1>1, <1>3, <2>1 DEF HeldOnce, Holding
  <2> QED
    BY <2>2, <2>4, <2>5, Zenon DEF HeldOnce
<1> QED
  BY <1>5, <1>6, <1>7, <1>8, <1>9 DEF ViewsInv

\* A button's request is over, and it is enabled again.
LEMMA ViewsReleased ==
    ASSUME ViewsInv, Guarded, NEW w \in writes, w.at \in {"sent", "done"},
           \A u \in writes' : Holding(u) => u \in writes /\ u # w,
           \A u \in writes : u # w => u \in writes',
           busy' = IF w.button.guard = "free" THEN busy ELSE None,
           \A k \in loads' : k.by # 0 => k \in loads,
           clears' = (clears \/ w.button.guard = "late"), UNCHANGED view
    PROVE  HeldOnce'
<1>1. HeldOnce
  BY DEF ViewsInv
<1>2. w.button.guard \in {"flag", "free"}
  BY ViewsTyped, ViewsButtons
<1>3. ~clears'
  BY <1>1, <1>2 DEF HeldOnce
<1>4. \A u : Holding(u)' <=> Holding(u)
  BY DEF Holding
<1>5. CASE w.button.guard = "free"
  <2>1. ~Holding(w)
    BY <1>5 DEF Holding
  <2>2. \A u \in writes' : Holding(u)' =>
           busy' # None /\ \A v \in writes' : Holding(v)' => v = u
    BY <1>1, <1>4, <1>5 DEF HeldOnce
  <2>3. \A k \in loads' : k.by # 0 =>
           /\ \E u \in writes' : Holding(u)' /\ u.at = "awaits" /\ u.id = k.by
           /\ \A j \in loads' : j.by # 0 => j = k
    BY <1>1, <1>4, <2>1 DEF HeldOnce
  <2> QED
    BY <1>3, <2>2, <2>3, Zenon DEF HeldOnce
<1>6. CASE w.button.guard # "free"
  <2>1. Holding(w)
    BY <1>6 DEF Holding
  <2>2. \A u \in writes' : ~Holding(u)'
    BY <1>1, <1>4, <2>1 DEF HeldOnce
  <2>3. \A k \in loads' : k.by = 0
    BY <1>1, <2>1 DEF HeldOnce
  <2> QED
    BY <1>3, <2>2, <2>3, Zenon DEF HeldOnce
<1> QED
  BY <1>5, <1>6

\* Requests that go, or wait a second, and one question more at most.
LEMMA ViewsLeft ==
    ASSUME ViewsInv, NEW w \in writes,
           NEW moved \in SUBSET {u \in Written : u.at = "later" /\ u.id \in done},
           writes' = (writes \ {w}) \cup moved,
           NEW more \in SUBSET Load, loads' = loads \cup more,
           UNCHANGED <<view, subject, pressed, done>>,
           asked' \in 0..MaxLoads, told' \subseteq done, shown' \in Shown,
           open' \in BOOLEAN, busy' \in {None, 1, 2}, clears' \in BOOLEAN
    PROVE  /\ Views!TypeOK' /\ Performed'
<1>1. writes' \subseteq Written
  BY ViewsTyped
<1>2. writes' \subseteq [id : 1..MaxWrites, button : view.ops, about : 1..MaxSubjects,
                         saw : SUBSET (1..MaxWrites), at : {"sent", "done", "awaits", "later"}]
  BY <1>1 DEF Written
<1>3. loads' \subseteq Load
  BY ViewsTyped
<1>4. Views!TypeOK'
  BY <1>2, <1>3 DEF ViewsInv, Views!TypeOK, Load, Shown
<1>5. Performed'
  BY DEF ViewsInv, Performed
<1> QED
  BY <1>4, <1>5

\* A button was pressed on no activity feed.
LEMMA ViewsNoFeed ==
    ASSUME ViewsInv, NEW w \in writes, UNCHANGED view
    PROVE  FeedKept'
BY ViewsTyped, ViewsButtons DEF FeedKept

LEMMA ViewsLaterInv == ASSUME ViewsInv, NEW w \in writes, Views!Later(w) PROVE ViewsInv'
<1>1. /\ w.at = "later" /\ Views!Ask(w.about, 0) /\ writes' = writes \ {w}
      /\ UNCHANGED <<view, open, subject, pressed, done, told, shown, busy, clears>>
  BY DEF Views!Later
<1>2. w.about \in 1..MaxSubjects /\ 0 \in 0..MaxWrites
  BY ViewsTyped
<1>3. asked' \in 0..MaxLoads /\ asked' = asked + 1 /\ asked \in Nat
  BY <1>1, <1>2, ViewsAsked
<1>4. PICK q \in Load : /\ loads' = loads \cup {q} /\ q.about = w.about /\ q.by = 0
                        /\ q.past = FALSE /\ q.id = asked' /\ q.read = None
  <2>1. Posed(w.about, 0)
    BY <1>1, <1>2, ViewsAsked
  <2> QED
    BY <2>1 DEF Posed
<1>5. Views!TypeOK' /\ Performed'
  <2>1. open \in BOOLEAN /\ clears \in BOOLEAN /\ busy \in {None, 1, 2}
    BY DEF ViewsInv, Views!TypeOK
  <2> DEFINE moved == {}
             more == {q}
  <2>2. /\ writes' = (writes \ {w}) \cup moved
        /\ moved \in SUBSET {u \in Written : u.at = "later" /\ u.id \in done}
        /\ loads' = loads \cup more /\ more \in SUBSET Load
    BY <1>1, <1>4
  <2> HIDE DEF moved, more
  <2> QED
    BY <1>1, <1>3, <2>1, <2>2, ViewsTyped, ViewsLeft
<1>6. Numbered' /\ OwnKept' /\ SubjectKept' /\ FeedKept'
  <2>1. Numbered' /\ OwnKept'
    BY <1>1, <1>3, <1>4, ViewsAskedKept
  <2>2. SubjectKept'
    BY <1>1 DEF ViewsInv, SubjectKept
  <2>3. FeedKept'
    BY <1>1, ViewsNoFeed
  <2> QED
    BY <2>1, <2>2, <2>3
<1>7. Guarded' => HeldOnce'
  <2>1. Guarded' => Guarded
    BY <1>1 DEF Guarded
  <2>2. \A u \in writes' : Holding(u) => u \in writes /\ u # w
    BY <1>1
  <2>3. \A u \in writes : u # w => u \in writes'
    BY <1>1
  <2>4. \A k \in loads' : k.by # 0 => k \in loads
    BY <1>4
  <2>5. ASSUME Guarded PROVE HeldOnce'
    <3>1. HeldOnce /\ ~Holding(w)
      BY <1>1, <2>5 DEF ViewsInv, Holding
    <3>2. \A u : Holding(u)' <=> Holding(u)
      BY DEF Holding
    <3>3. ~clears'
      BY <1>1, <3>1 DEF HeldOnce
    <3>4. \A u \in writes' : Holding(u)' =>
             busy' # None /\ \A v \in writes' : Holding(v)' => v = u
      BY <1>1, <3>1, <3>2 DEF HeldOnce
    <3>5. \A k \in loads' : k.by # 0 =>
             /\ \E u \in writes' : Holding(u)' /\ u.at = "awaits" /\ u.id = k.by
             /\ \A j \in loads' : j.by # 0 => j = k
      BY <1>1, <2>4, <3>1, <3>2 DEF HeldOnce
    <3> QED
      BY <3>3, <3>4, <3>5, Zenon DEF HeldOnce
  <2> QED
    BY <2>1, <2>5
<1> QED
  BY <1>5, <1>6, <1>7 DEF ViewsInv

LEMMA ViewsRefusedInv == ASSUME ViewsInv, NEW w \in writes, Views!Refused(w) PROVE ViewsInv'
<1>1. /\ w.at \in {"sent", "done"} /\ writes' = writes \ {w}
      /\ busy' = IF w.button.guard = "free" THEN busy ELSE None
      /\ clears' = (clears \/ w.button.guard = "late")
      /\ UNCHANGED <<view, open, subject, asked, loads, pressed, done, told, shown>>
  BY DEF Views!Refused
<1>2. Views!TypeOK' /\ Performed'
  <2>1. /\ open' \in BOOLEAN /\ clears' \in BOOLEAN
        /\ busy' \in {None, 1, 2} /\ asked' \in 0..MaxLoads
    BY <1>1 DEF ViewsInv, Views!TypeOK
  <2> DEFINE moved == {}
             more == {}
  <2>2. /\ writes' = (writes \ {w}) \cup moved
        /\ moved \in SUBSET {u \in Written : u.at = "later" /\ u.id \in done}
        /\ loads' = loads \cup more /\ more \in SUBSET Load
    BY <1>1
  <2> HIDE DEF moved, more
  <2> QED
    BY <1>1, <2>1, <2>2, ViewsTyped, ViewsLeft
<1>3. Numbered' /\ OwnKept' /\ SubjectKept' /\ FeedKept'
  <2>1. FeedKept'
    BY <1>1, ViewsNoFeed
  <2> QED
    BY <1>1, <2>1 DEF ViewsInv, Numbered, OwnKept, SubjectKept
<1>4. Guarded' => HeldOnce'
  <2>1. Guarded' => Guarded
    BY <1>1 DEF Guarded
  <2>2. ASSUME Guarded PROVE HeldOnce'
    BY <1>1, <2>2, ViewsReleased
  <2> QED
    BY <2>1, <2>2
<1> QED
  BY <1>2, <1>3, <1>4 DEF ViewsInv

LEMMA ViewsClearInv == ASSUME ViewsInv, Views!Clear PROVE ViewsInv'
<1>1. /\ clears /\ clears' = FALSE /\ busy' = None
      /\ UNCHANGED <<view, open, subject, asked, loads, writes, pressed, done, told, shown>>
  BY DEF Views!Clear
<1>2. Views!TypeOK'
  BY <1>1 DEF ViewsInv, Views!TypeOK
<1>3. Performed'
  BY <1>1 DEF ViewsInv, Performed
<1>4. Numbered' /\ OwnKept'
  BY <1>1 DEF ViewsInv, Numbered, OwnKept
<1>5. SubjectKept' /\ FeedKept'
  BY <1>1 DEF ViewsInv, SubjectKept, FeedKept
<1>6. ~Guarded'
  BY <1>1 DEF ViewsInv, HeldOnce, Guarded
<1> QED
  BY <1>2, <1>3, <1>4, <1>5, <1>6 DEF ViewsInv

LEMMA ViewsToldInv == ASSUME ViewsInv, NEW w \in writes, Views!Told(w) PROVE ViewsInv'
<1> DEFINE rest == writes \ {w}
<1>1. /\ w.at = "done"
      /\ told' = told \cup {w.id}
      /\ busy' = IF w.button.guard = "free" \/ w.button.next = "await" THEN busy ELSE None
      /\ clears' = (clears \/ w.button.guard = "late")
      /\ UNCHANGED <<view, subject, pressed, done>>
  BY DEF Views!Told
<1>2. /\ w.about \in 1..MaxSubjects /\ w.id \in 1..MaxWrites /\ w.saw \in SUBSET (1..MaxWrites)
      /\ w.button.next \in Nexts /\ MaxLoads \in Nat /\ MaxSubjects \in Nat /\ MaxWrites \in Nat
      /\ w \in Written /\ told \subseteq done /\ writes \subseteq Written
      /\ shown \in Shown
      /\ view \in Views!Asking => w.button.next \in Reasks
      /\ view \in Views!Filtering => w.button.next \in Shows
  BY ViewsTyped, ViewsButtons
<1>3. w.id \in done
  BY <1>1 DEF ViewsInv, Performed
<1>4. told' \subseteq done /\ busy' \in {None, 1, 2} /\ clears' \in BOOLEAN
  <2>1. told' \subseteq done
    BY <1>1, <1>2, <1>3
  <2>2. busy' \in {None, 1, 2}
    BY <1>1 DEF ViewsInv, Views!TypeOK
  <2>3. clears' \in BOOLEAN
    BY <1>1
  <2> QED
    BY <2>1, <2>2, <2>3
<1>5. open \in BOOLEAN /\ asked \in 0..MaxLoads
  BY DEF ViewsInv, Views!TypeOK
<1>6. ASSUME Guarded' PROVE Guarded /\ w.button.guard \in {"flag", "free"}
  <2>1. Guarded
    BY <1>1, <1>6 DEF Guarded
  <2> QED
    BY <2>1, ViewsTyped, ViewsButtons
<1>12. FeedKept'
  BY <1>1, ViewsNoFeed
<1> HIDE DEF rest
<1>7. /\ \A u \in rest : u \in writes /\ u # w
      /\ \A u \in writes : u # w => u \in rest
      /\ writes \ {w} = rest
  BY DEF rest
<1>8. CASE w.button.next = "reload"
  <2>1. Views!Ask(w.about, 0) /\ writes' = rest /\ UNCHANGED <<open, shown>>
    BY <1>7, <1>8 DEF Views!Told
  <2>2. 0 \in 0..MaxWrites
    BY <1>2
  <2>3. asked' \in 0..MaxLoads /\ asked' = asked + 1 /\ asked \in Nat
    BY <1>2, <2>1, <2>2, ViewsAsked
  <2>4. PICK q \in Load : /\ loads' = loads \cup {q} /\ q.about = w.about /\ q.by = 0
                          /\ q.past = FALSE /\ q.id = asked' /\ q.read = None
    <3>1. Posed(w.about, 0)
      BY <1>2, <2>1, <2>2, ViewsAsked
    <3> QED
      BY <3>1 DEF Posed
  <2>5. Views!TypeOK' /\ Performed'
    <3> DEFINE moved == {}
               more == {q}
    <3>1. /\ writes' = (writes \ {w}) \cup moved
          /\ moved \in SUBSET {u \in Written : u.at = "later" /\ u.id \in done}
          /\ loads' = loads \cup more /\ more \in SUBSET Load
      BY <1>7, <2>1, <2>4
    <3> HIDE DEF moved, more
    <3>2. open' \in BOOLEAN /\ shown' \in Shown
      BY <1>2, <1>5, <2>1
    <3> QED
      BY <1>1, <1>4, <2>3, <3>1, <3>2, ViewsLeft
  <2>6. Numbered' /\ OwnKept' /\ SubjectKept'
    <3>1. Numbered' /\ OwnKept'
      BY <1>1, <2>1, <2>3, <2>4, ViewsAskedKept
    <3>2. SubjectKept'
      BY <1>1, <1>2, <1>8 DEF SubjectKept, Shows
    <3> QED
      BY <3>1, <3>2
  <2>7. ASSUME Guarded' PROVE HeldOnce'
    <3>1. busy' = IF w.button.guard = "free" THEN busy ELSE None
      BY <1>1, <1>8
    <3>2. \A k \in loads' : k.by # 0 => k \in loads
      BY <2>4
    <3> QED
      BY <1>1, <1>6, <1>7, <2>1, <2>7, <3>1, <3>2, ViewsReleased
  <2> QED
    BY <1>12, <2>5, <2>6, <2>7 DEF ViewsInv
<1>9. CASE w.button.next = "await"
  <2>1. /\ Views!Ask(w.about, w.id) /\ writes' = Views!Moved(w, "awaits", w.saw)
        /\ UNCHANGED <<open, shown>>
    BY <1>9 DEF Views!Told
  <2>2. w.id \in 0..MaxWrites
    BY <1>2
  <2>3. asked' \in 0..MaxLoads /\ asked' = asked + 1 /\ asked \in Nat
    BY <1>2, <2>1, <2>2, ViewsAsked
  <2>4. PICK q \in Load : /\ loads' = loads \cup {q} /\ q.about = w.about /\ q.by = w.id
                          /\ q.past = FALSE /\ q.id = asked' /\ q.read = None
    <3>1. Posed(w.about, w.id)
      BY <1>2, <2>1, <2>2, ViewsAsked
    <3> QED
      BY <3>1 DEF Posed
  <2>5. PICK u \in Written : /\ writes' = rest \cup {u}
                             /\ u.id = w.id /\ u.button = w.button /\ u.at = "awaits"
    BY <1>2, <1>7, <2>1, ViewsMoved
  <2>6. Views!TypeOK'
    <3>1. loads' \subseteq Load
      BY <2>4, ViewsTyped
    <3>2. writes' \subseteq Written
      BY <1>2, <1>7, <2>5
    <3>3. writes' \subseteq [id : 1..MaxWrites, button : view.ops, about : 1..MaxSubjects,
                             saw : SUBSET (1..MaxWrites), at : {"sent", "done", "awaits",
                               "later"}]
      BY <3>2 DEF Written
    <3> QED
      BY <1>1, <1>4, <1>5, <2>1, <2>3, <3>1, <3>3 DEF ViewsInv, Views!TypeOK, Load
  <2>7. Performed'
    BY <1>1, <1>3, <1>7, <2>5 DEF ViewsInv, Performed
  <2>8. Numbered' /\ OwnKept'
    BY <1>1, <2>1, <2>3, <2>4, ViewsAskedKept
  <2>9. SubjectKept'
    BY <1>1, <1>2, <1>9 DEF SubjectKept, Shows
  <2>10. ASSUME Guarded' PROVE HeldOnce'
    <3>1. HeldOnce /\ Guarded
      BY <1>6, <2>10 DEF ViewsInv
    <3>2. w.button.guard = "flag"
      BY <1>9, <3>1, ViewsTyped, ViewsButtons
    <3>3. Holding(w) /\ \A v : Holding(v)' <=> Holding(v)
      BY <1>1, <3>2 DEF Holding
    <3>4. busy' # None
      BY <1>1, <1>9, <3>1, <3>3 DEF HeldOnce
    <3>5. \A v \in writes' : Holding(v)' => v = u
      BY <1>7, <2>5, <3>1, <3>3 DEF HeldOnce
    <3>6. \A k \in loads : k.by = 0
      BY <1>1, <3>1, <3>3 DEF HeldOnce
    <3>7. Holding(u)' /\ u \in writes'
      BY <2>5, <3>2 DEF Holding
    <3>8. \A k \in loads' : k.by # 0 => k = q
      BY <2>4, <3>6
    <3>9. ~clears'
      BY <1>1, <3>1, <3>2 DEF HeldOnce
    <3>10. \A k \in loads' : k.by # 0 =>
              /\ \E v \in writes' : Holding(v)' /\ v.at = "awaits" /\ v.id = k.by
              /\ \A j \in loads' : j.by # 0 => j = k
      BY <2>4, <2>5, <3>7, <3>8
    <3> QED
      BY <3>4, <3>5, <3>9, <3>10, Zenon DEF HeldOnce
  <2> QED
    BY <1>12, <2>6, <2>7, <2>8, <2>9, <2>10 DEF ViewsInv
<1>10. CASE w.button.next = "later"
  <2>1. writes' = Views!Moved(w, "later", w.saw) /\ UNCHANGED <<asked, loads, open, shown>>
    BY <1>10 DEF Views!Told
  <2>2. PICK u \in Written : /\ writes' = rest \cup {u}
                             /\ u.id = w.id /\ u.button = w.button /\ u.at = "later"
    BY <1>2, <1>7, <2>1, ViewsMoved
  <2>3. Views!TypeOK' /\ Performed'
    <3> DEFINE moved == {u}
               more == {}
    <3>1. /\ writes' = (writes \ {w}) \cup moved
          /\ moved \in SUBSET {v \in Written : v.at = "later" /\ v.id \in done}
          /\ loads' = loads \cup more /\ more \in SUBSET Load
      BY <1>3, <1>7, <2>1, <2>2
    <3> HIDE DEF moved, more
    <3>2. /\ open' \in BOOLEAN /\ asked' \in 0..MaxLoads
          /\ shown' \in Shown
      BY <1>2, <1>5, <2>1
    <3> QED
      BY <1>1, <1>4, <3>1, <3>2, ViewsLeft
  <2>4. Numbered' /\ OwnKept' /\ SubjectKept'
    <3>1. Numbered'
      BY <1>1, <2>1 DEF ViewsInv, Numbered
    <3>2. OwnKept'
      BY <1>1, <1>2, <1>10 DEF OwnKept, Reasks
    <3>3. SubjectKept'
      BY <1>1, <1>2, <1>10 DEF SubjectKept, Shows
    <3> QED
      BY <3>1, <3>2, <3>3
  <2>5. ASSUME Guarded' PROVE HeldOnce'
    <3>1. busy' = IF w.button.guard = "free" THEN busy ELSE None
      BY <1>1, <1>10
    <3>2. \A v \in writes' : Holding(v) => v \in writes /\ v # w
      BY <1>7, <2>2 DEF Holding
    <3>3. \A v \in writes : v # w => v \in writes'
      BY <1>7, <2>2
    <3>4. \A k \in loads' : k.by # 0 => k \in loads
      BY <2>1
    <3> QED
      BY <1>1, <1>6, <2>5, <3>1, <3>2, <3>3, <3>4, ViewsReleased
  <2> QED
    BY <1>12, <2>3, <2>4, <2>5 DEF ViewsInv
<1>11. CASE w.button.next \in {"patch", "replace", "leave", "none"}
  <2>1. writes' = rest /\ UNCHANGED <<asked, loads>>
    BY <1>7, <1>11 DEF Views!Told
  <2>2. open' \in BOOLEAN /\ (open' => open)
    BY <1>5, <1>11 DEF Views!Told
  <2>3. /\ shown' \in Shown
        /\ shown'.from = 0 \/ (shown'.from = shown.from /\ shown'.about = shown.about)
    <3>1. CASE w.button.next = "patch"
      <4>1. shown' = [shown EXCEPT !.has = @ \cup {w.id}]
        BY <3>1 DEF Views!Told
      <4> QED
        BY <1>2, <4>1 DEF Shown
    <3>2. CASE w.button.next = "replace"
      <4>1. shown' = [from |-> 0, about |-> w.about, has |-> w.saw]
        BY <3>2 DEF Views!Told
      <4> QED
        BY <1>2, <4>1 DEF Shown
    <3>3. CASE w.button.next \in {"leave", "none"}
      <4>1. shown' = shown
        BY <3>3 DEF Views!Told
      <4> QED
        BY <1>2, <4>1
    <3> QED
      BY <1>11, <3>1, <3>2, <3>3
  <2>4. Views!TypeOK' /\ Performed'
    <3> DEFINE moved == {}
               more == {}
    <3>1. /\ writes' = (writes \ {w}) \cup moved
          /\ moved \in SUBSET {u \in Written : u.at = "later" /\ u.id \in done}
          /\ loads' = loads \cup more /\ more \in SUBSET Load
      BY <1>7, <2>1
    <3> HIDE DEF moved, more
    <3> QED
      BY <1>1, <1>4, <1>5, <2>1, <2>2, <2>3, <3>1, ViewsLeft
  <2>5. Numbered' /\ OwnKept' /\ SubjectKept'
    <3>1. asked \in Nat /\ asked' = asked /\ loads' = loads /\ view' = view
      BY <1>1, <2>1, ViewsTyped
    <3>2. Numbered'
      BY <2>3, <3>1 DEF ViewsInv, Numbered
    <3>3. OwnKept'
      BY <1>1, <1>2, <1>11 DEF OwnKept, Reasks
    <3>4. SubjectKept'
      BY <1>1, <1>7, <2>1, <2>3, <3>1 DEF ViewsInv, SubjectKept
    <3> QED
      BY <3>2, <3>3, <3>4
  <2>6. ASSUME Guarded' PROVE HeldOnce'
    <3>1. busy' = IF w.button.guard = "free" THEN busy ELSE None
      BY <1>1, <1>11
    <3>2. \A k \in loads' : k.by # 0 => k \in loads
      BY <2>1
    <3> QED
      BY <1>1, <1>6, <1>7, <2>1, <2>6, <3>1, <3>2, ViewsReleased
  <2> QED
    BY <1>12, <2>4, <2>5, <2>6 DEF ViewsInv
<1> QED
  BY <1>2, <1>8, <1>9, <1>10, <1>11 DEF Nexts, Reasks, Shows

LEMMA ViewsStepInv == ViewsInv /\ [Views!Next]_(Views!vars) => ViewsInv'
<1> SUFFICES ASSUME ViewsInv, [Views!Next]_(Views!vars) PROVE ViewsInv'
  OBVIOUS
<1>1. ASSUME Views!Refresh PROVE ViewsInv'
  BY <1>1, ViewsRefreshInv
<1>2. ASSUME Views!Change PROVE ViewsInv'
  BY <1>2, ViewsChangeInv
<1>3. ASSUME NEW l \in loads, Views!Read(l) \/ Views!Answer(l) \/ Views!Fail(l) PROVE ViewsInv'
  BY <1>3, ViewsReadInv, ViewsAnswerInv, ViewsFailInv
<1>4. ASSUME NEW b \in view.ops, NEW row \in 1..2, Views!Press(b, row) PROVE ViewsInv'
  BY <1>4, ViewsPressInv
<1>5. ASSUME NEW w \in writes, \/ Views!Perform(w) \/ Views!Told(w)
                               \/ Views!Refused(w) \/ Views!Later(w)
      PROVE  ViewsInv'
  BY <1>5, ViewsPerformInv, ViewsToldInv, ViewsRefusedInv, ViewsLaterInv
<1>6. ASSUME Views!Clear PROVE ViewsInv'
  BY <1>6, ViewsClearInv
<1>7. ASSUME UNCHANGED Views!vars PROVE ViewsInv'
  <2>1. UNCHANGED <<view, open, subject, asked, loads, writes, pressed, done, told, shown,
                    busy, clears>>
    BY <1>7 DEF Views!vars
  <2>2. /\ Views!TypeOK' /\ Performed' /\ Numbered' /\ OwnKept'
        /\ SubjectKept' /\ FeedKept'
    <3>1. Views!TypeOK' /\ Performed'
      BY <2>1 DEF ViewsInv, Views!TypeOK, Performed
    <3>2. Numbered' /\ OwnKept'
      BY <2>1 DEF ViewsInv, Numbered, OwnKept
    <3>3. SubjectKept' /\ FeedKept'
      BY <2>1 DEF ViewsInv, SubjectKept, FeedKept
    <3> QED
      BY <3>1, <3>2, <3>3
  <2>3. ASSUME Guarded' PROVE HeldOnce'
    <3>1. HeldOnce
      BY <2>1, <2>3 DEF ViewsInv, Guarded
    <3>2. ~clears' /\ \A w : Holding(w)' <=> Holding(w)
      BY <2>1, <3>1 DEF HeldOnce, Holding
    <3>3. \A w \in writes' : Holding(w)' =>
             busy' # None /\ \A v \in writes' : Holding(v)' => v = w
      BY <2>1, <3>1, <3>2 DEF HeldOnce
    <3>4. \A k \in loads' : k.by # 0 =>
             /\ \E v \in writes' : Holding(v)' /\ v.at = "awaits" /\ v.id = k.by
             /\ \A j \in loads' : j.by # 0 => j = k
      BY <2>1, <3>1, <3>2 DEF HeldOnce
    <3> QED
      BY <3>2, <3>3, <3>4, Zenon DEF HeldOnce
  <2> QED
    BY <2>2, <2>3 DEF ViewsInv
<1> QED
  BY <1>1, <1>2, <1>3, <1>4, <1>5, <1>6, <1>7 DEF Views!Next

LEMMA ViewsCounts == \A S : Views!Cardinality(S) = Cardinality(S)
BY DEF Views!Cardinality, Cardinality

LEMMA ViewsInitInv == Views!Init => ViewsInv
<1> SUFFICES ASSUME Views!Init PROVE ViewsInv
  OBVIOUS
<1> DEFINE first == [id |-> 1, about |-> 1, by |-> 0, read |-> None, past |-> FALSE]
<1>1. /\ view \in Views!Views /\ open = TRUE /\ subject = 1
      /\ loads = IF "mount" \in view.when THEN {first} ELSE {}
      /\ asked = Cardinality(loads)
      /\ writes = {} /\ pressed = 0 /\ done = {} /\ told = {}
      /\ shown = Views!Empty /\ busy = None /\ clears = FALSE
  BY ViewsCounts DEF Views!Init
<1>2. /\ MaxLoads \in Nat /\ MaxLoads # 0 /\ MaxSubjects \in Nat /\ MaxSubjects # 0
      /\ MaxWrites \in Nat
  BY ServicesAssumption
<1>3. None \in {None} \cup SUBSET (1..MaxWrites)
  OBVIOUS
<1>4. first \in Load /\ first.about = 1 /\ first.by = 0 /\ first.id = 1 /\ first.read = None
  BY <1>2, <1>3 DEF Load
<1> HIDE DEF first
<1>5. asked \in 0..MaxLoads /\ \A l \in loads : l = first /\ asked = 1
  <2>1. \/ loads = {} /\ Cardinality(loads) = 0
        \/ loads = {first} /\ Cardinality(loads) = 1
    BY <1>1, FS_EmptySet, FS_Singleton
  <2> QED
    BY <1>1, <1>2, <2>1
<1>6. Views!TypeOK
  <2>1. loads \subseteq Load
    BY <1>1, <1>4
  <2>2. view \in Views!Views /\ open \in BOOLEAN /\ subject \in 1..MaxSubjects
    BY <1>1, <1>2
  <2>3. shown \in Shown
    BY <1>1, <1>2 DEF Shown, Views!Empty
  <2>4. /\ pressed \in 0..MaxWrites /\ done \subseteq 1..MaxWrites /\ told \subseteq done
        /\ writes = {}
    BY <1>1, <1>2
  <2>5. busy \in {None, 1, 2} /\ clears \in BOOLEAN
    BY <1>1
  <2> QED
    BY <1>5, <2>1, <2>2, <2>3, <2>4, <2>5 DEF Views!TypeOK, Load, Shown
<1>7. Performed
  BY <1>1 DEF Performed
<1>8. Numbered /\ OwnKept
  <2>1. shown.from = 0
    BY <1>1 DEF Views!Empty
  <2> QED
    BY <1>4, <1>5, <2>1 DEF Numbered, OwnKept
<1>9. SubjectKept /\ FeedKept
  <2>1. shown.from = 0 /\ shown.about = 0
    BY <1>1 DEF Views!Empty
  <2> QED
    BY <1>1, <1>4, <1>5, <2>1 DEF SubjectKept, FeedKept
<1>10. HeldOnce
  BY <1>1, <1>4 DEF HeldOnce
<1> QED
  BY <1>6, <1>7, <1>8, <1>9, <1>10 DEF ViewsInv

LEMMA ViewsTrue == ViewsInv => Views!ViewsCurrent
<1> SUFFICES ASSUME ViewsInv PROVE Views!ViewsCurrent
  OBVIOUS
<1>1. Views!ShowsOwnWrites
  BY DEF ViewsInv, OwnKept, Views!ShowsOwnWrites, Views!UpToDate
<1>2. Views!ShowsOwnSubject
  BY DEF ViewsInv, SubjectKept, FeedKept, Views!ShowsOwnSubject, Views!UpToDate
<1> DEFINE held == {w \in writes : w.button.guard = "flag" /\ w.at # "later"}
<1>3. ASSUME view # Views!DeployFreeze PROVE Cardinality(held) <= 1
  <2>1. CASE held = {}
    BY <2>1, FS_EmptySet
  <2>2. CASE held # {}
    <3>1. PICK w : w \in held
      BY <2>2
    <3>2. w.button \in view.ops /\ w.button.guard = "flag"
      BY <3>1, ViewsTyped
    <3>3. HeldOnce
      BY <1>3, <3>2 DEF ViewsInv, Guarded, Flagged
    <3>4. \A u \in held : u = w
      BY <3>1, <3>3 DEF HeldOnce, Holding
    <3>5. held = {w}
      BY <3>1, <3>4
    <3>6. Cardinality({w}) = 1
      BY FS_Singleton
    <3> HIDE DEF held
    <3> QED
      BY <3>5, <3>6
  <2> QED
    BY <2>1, <2>2
<1>4. Views!Exclusive
  BY <1>3, ViewsCounts DEF Views!Exclusive
<1> QED
  BY <1>1, <1>2, <1>4 DEF Views!ViewsCurrent

\* On the screens that ask again as soon as a request has succeeded, the answer
\* to the latest question holds every change the user was told of, and on those
\* with a filter that ask about the present one only, it is about that; the
\* activity feed is about it even when the answers come in another order; and of
\* the requests of buttons that a flag disables one is under way at most, on
\* every screen but the deployment freeze's (src/App.tsx, src/pages,
\* src/components).  What a screen shows before its latest answer, or after an
\* older one has overtaken it, the theorem does not say.
THEOREM ScreensCurrent == ServicesSpec => []ViewsCurrent
<1> DEFINE I == focus = "views" => ViewsInv
<1>1. ServicesInit => I
  BY ViewsStarts, ViewsInitInv
<1>2. I /\ [ServicesNext]_<<focus, places>> => I'
  BY ViewsGoes, ViewsStepInv
<1>3. I => ViewsCurrent
  BY ViewsTrue DEF ViewsCurrent
<1> QED
  BY <1>1, <1>2, <1>3, PTL DEF ServicesSpec

-----------------------------------------------------------------------------
LEMMA SharedStarts == ServicesInit /\ focus = "terminal" => Shared!Init
  BY DEF ServicesInit, SettingsInit, ListsInit, DeploysInit, SetupInit,
         AppsInit, SecretsInit, AuditInit, FlagsInit, SharedInit, TasksInit,
         WatchInit, TicketsInit, CommandsInit, AdviceInit, ViewsInit, DutyInit,
         FleetInit, GateInit

LEMMA SharedGoes ==
    [ServicesNext]_<<focus, places>> =>
        UNCHANGED focus /\ (focus = "terminal" => [Shared!Next]_Shared!vars)
  BY DEF ServicesNext, SettingsStep, ListsStep, DeploysStep, SetupStep,
         AppsStep, SecretsStep, AuditStep, FlagsStep, SharedStep, TasksStep,
         WatchStep, TicketsStep, CommandsStep, AdviceStep, ViewsStep, DutyStep,
         FleetStep, GateStep, places, rest5, rest6, rest7, rest8, rest9,
         rest10, rest11, rest12, rest13, Shared!vars, Shared!server,
         Shared!component, sockets, peer, session, state, room, terminalRooms,
         clients, output, inbox, wsRef, shows, commands, doubled

\* Two lists that have the same elements from their ends on, as far as both go.
EndsAlike(a, b) == \A i \in Nat : i < Len(a) /\ i < Len(b) => a[Len(a) - i] = b[Len(b) - i]

\* What a component shows once it has received what was sent to its socket s
\* ends like the room's lines.
WillAgree(s) ==
    \E V \in [0..Len(inbox[s]) -> Shared!View] :
        /\ V[0] = shows[peer[s]]
        /\ \A i \in 1..Len(inbox[s]) : V[i] = Shared!Seen(V[i - 1], inbox[s][i])
        /\ EndsAlike(V[Len(inbox[s])].lines, output[room[s]])
        /\ output[room[s]] # <<>> => V[Len(inbox[s])].lines # <<>>

Gone(s) == state[s] = "closed" /\ inbox[s] = <<>>

\* The sockets that were opened are those with a state, a component and a session.
Opened ==
    \A s \in Shared!Socket :
        /\ s \in 1..sockets <=> state[s] # "none"
        /\ s \in 1..sockets => peer[s] \in Slot /\ session[s] \in Session

\* A socket that is not connected yet has no messages, and no room is named by it.
Unnamed ==
    \A s \in Shared!Socket : state[s] \in {"none", "connecting"} =>
        /\ inbox[s] = <<>> /\ output[s] = <<>> /\ clients[s] = {}
        /\ \A n \in Session : terminalRooms[n] # s
        /\ \A t \in Shared!Socket : room[t] # s

\* The members of a room are those who are in it.
Members ==
    /\ Shared!OneRoom
    /\ \A s \in Shared!Socket : Shared!In(s) => room[s] \in Shared!Room
    /\ \A r \in Shared!Room : \A s \in clients[r] : Shared!In(s) /\ room[s] = r

\* Of the sockets of a component that is not excepted all but one are gone.
OneLeft ==
    \A s, t \in 1..sockets :
        s # t /\ peer[s] = peer[t] /\ peer[s] \notin doubled => Gone(s) \/ Gone(t)

Pending ==
    \A s \in Shared!Socket : state[s] = "open" /\ peer[s] \notin doubled => WillAgree(s)

SharedInv == Shared!TypeOK /\ Opened /\ Unnamed /\ Members /\ OneLeft /\ Pending

LEMMA TermCaps == /\ OutputCap \in Nat /\ ScreenCap \in Nat /\ MaxSockets \in Nat
                  /\ MaxCommands \in Nat /\ None \notin Nat
  BY ServicesAssumption

LEMMA AppendAlike ==
    ASSUME NEW S, NEW a \in Seq(S), NEW b \in Seq(S), NEW x \in S, EndsAlike(a, b)
    PROVE  EndsAlike(Append(a, x), Append(b, x))
<1> SUFFICES ASSUME NEW i \in Nat, i < Len(a) + 1, i < Len(b) + 1
             PROVE  Append(a, x)[Len(a) + 1 - i] = Append(b, x)[Len(b) + 1 - i]
  <2>1. Len(Append(a, x)) = Len(a) + 1 /\ Len(Append(b, x)) = Len(b) + 1
    OBVIOUS
  <2> QED
    BY <2>1 DEF EndsAlike
<1>1. CASE i = 0
  BY <1>1
<1>2. CASE i # 0
  <2>1. i - 1 \in Nat /\ i - 1 < Len(a) /\ i - 1 < Len(b)
    BY <1>2
  <2>2. a[Len(a) - (i - 1)] = b[Len(b) - (i - 1)]
    BY <2>1 DEF EndsAlike
  <2> QED
    BY <1>2, <2>1, <2>2
<1> QED
  BY <1>1, <1>2

\* What is kept of a list is the end of it.
LEMMA KeptEnds ==
    ASSUME NEW S, NEW a \in Seq(S), NEW m \in Nat
    PROVE  /\ Shared!Kept(a, m) \in Seq(S)
           /\ Len(Shared!Kept(a, m)) <= m /\ Len(Shared!Kept(a, m)) <= Len(a)
           /\ EndsAlike(Shared!Kept(a, m), a)
<1>1. CASE Len(a) <= m
  BY <1>1 DEF Shared!Kept, EndsAlike
<1>2. CASE ~(Len(a) <= m)
  <2> DEFINE f == Len(a) - m + 1
             k == SubSeq(a, f, Len(a))
  <2>1. Shared!Kept(a, m) = k
    BY <1>2 DEF Shared!Kept
  <2>2. f \in Int /\ Len(a) \in Int /\ f >= 1 /\ \A i \in f..Len(a) : a[i] \in S
    BY <1>2
  <2>3. /\ k \in Seq(S)
        /\ Len(k) = IF f <= Len(a) THEN Len(a) - f + 1 ELSE 0
        /\ \A i \in 1..(Len(a) - f + 1) : k[i] = a[f + i - 1]
    BY <2>2, SubSeqProperties
  <2>4. Len(k) = m
    BY <1>2, <2>3
  <2>5. ASSUME NEW i \in Nat, i < m
        PROVE  k[m - i] = a[Len(a) - i]
    <3>1. m - i \in 1..(Len(a) - f + 1) /\ f + (m - i) - 1 = Len(a) - i
      BY <2>5, <1>2
    <3> QED
      BY <2>3, <3>1
  <2> QED
    BY <2>1, <2>3, <2>4, <2>5, <1>2 DEF EndsAlike
<1> QED
  BY <1>1, <1>2

\* What is kept of two lists alike is alike.
LEMMA KeptAlike ==
    ASSUME NEW S, NEW a \in Seq(S), NEW b \in Seq(S), NEW m \in Nat, EndsAlike(a, b)
    PROVE  EndsAlike(Shared!Kept(a, m), b)
<1> DEFINE k == Shared!Kept(a, m)
<1>1. k \in Seq(S) /\ Len(k) <= Len(a) /\ EndsAlike(k, a)
  BY KeptEnds
<1> HIDE DEF k
<1>2. EndsAlike(k, b)
  BY <1>1 DEF EndsAlike
<1> QED
  BY <1>2 DEF k

LEMMA AlikeBack ==
    ASSUME NEW a, NEW b, EndsAlike(a, b)
    PROVE  EndsAlike(b, a)
  BY DEF EndsAlike

LEMMA AlikeIsSuffix ==
    ASSUME NEW S, NEW a \in Seq(S), NEW b \in Seq(S), EndsAlike(a, b), Len(a) <= Len(b)
    PROVE  Shared!IsSuffix(a, b)
<1> DEFINE p == Shared!Reverse(a)
           q == Shared!Reverse(b)
<1>1. /\ p \in Seq(S) /\ Len(p) = Len(a) /\ \A i \in 1..Len(a) : p[i] = a[Len(a) - i + 1]
      /\ q \in Seq(S) /\ Len(q) = Len(b) /\ \A i \in 1..Len(b) : q[i] = b[Len(b) - i + 1]
  BY DEF Shared!Reverse
<1> HIDE DEF p, q
<1>2. ASSUME NEW i \in 1..Len(a)
      PROVE  p[i] = q[i]
  <2>1. i - 1 \in Nat /\ i - 1 < Len(a) /\ i - 1 < Len(b)
    OBVIOUS
  <2>2. a[Len(a) - (i - 1)] = b[Len(b) - (i - 1)]
    BY <2>1 DEF EndsAlike
  <2>3. Len(a) - (i - 1) = Len(a) - i + 1 /\ Len(b) - (i - 1) = Len(b) - i + 1
    OBVIOUS
  <2> QED
    BY <1>1, <2>2, <2>3
<1>3. SubSeq(p, 1, Len(p)) = SubSeq(q, 1, Len(p))
  <2>1. /\ SubSeq(p, 1, Len(p)) \in Seq(S) /\ Len(SubSeq(p, 1, Len(p))) = Len(p)
        /\ \A i \in 1..Len(p) : SubSeq(p, 1, Len(p))[i] = p[i]
    <3>1. \A i \in 1..Len(p) : p[i] \in S
      BY <1>1
    <3> QED
      BY <1>1, <3>1, SubSeqProperties
  <2>2. /\ SubSeq(q, 1, Len(p)) \in Seq(S) /\ Len(SubSeq(q, 1, Len(p))) = Len(p)
        /\ \A i \in 1..Len(p) : SubSeq(q, 1, Len(p))[i] = q[i]
    <3>1. \A i \in 1..Len(p) : q[i] \in S
      BY <1>1
    <3> QED
      BY <1>1, <3>1, SubSeqProperties
  <2> QED
    BY <1>1, <1>2, <2>1, <2>2
<1>4. Shared!IsPrefix(p, q)
  BY <1>1, <1>3 DEF Shared!IsPrefix
<1> QED
  BY <1>4 DEF Shared!IsSuffix, p, q

LEMMA SharedInitInv == Shared!Init => SharedInv
<1> SUFFICES ASSUME Shared!Init PROVE SharedInv
  OBVIOUS
<1> USE DEF Shared!Init, Shared!Socket, Shared!Room
<1>1. Shared!TypeOK
  BY TermCaps DEF Shared!TypeOK, Shared!View
<1>2. Opened
  BY DEF Opened
<1>3. Unnamed
  BY TermCaps DEF Unnamed
<1>4. Members
  BY DEF Members, Shared!OneRoom, Shared!In
<1>5. OneLeft
  BY DEF OneLeft
<1>6. Pending
  BY DEF Pending
<1> QED
  BY <1>1, <1>2, <1>3, <1>4, <1>5, <1>6 DEF SharedInv

\* What is on its way to a socket still arrives while its mail, its room's
\* lines, its component and what that shows stay as they are.
LEMMA WillStay ==
    ASSUME NEW s \in Shared!Socket, WillAgree(s),
           inbox'[s] = inbox[s], output'[room'[s]] = output[room[s]],
           shows'[peer'[s]] = shows[peer[s]]
    PROVE  WillAgree(s)'
  BY DEF WillAgree

LEMMA ConnectInv ==
    ASSUME SharedInv, NEW c \in Slot, NEW n \in Session, Shared!connect(c, n)
    PROVE  SharedInv'
<1> DEFINE new == sockets + 1
<1>1. /\ new \in Shared!Socket /\ sockets' = new /\ sockets \in Nat /\ new \in Nat
      /\ 1..new = {new} \cup 1..sockets /\ new \notin 1..sockets
      /\ 1..sockets \subseteq Shared!Socket
  BY TermCaps DEF SharedInv, Shared!TypeOK, Shared!connect, Shared!Socket
<1>2. /\ peer' = [peer EXCEPT ![new] = c] /\ session' = [session EXCEPT ![new] = n]
      /\ state' = [state EXCEPT ![new] = "connecting"]
      /\ wsRef' = [wsRef EXCEPT ![c] = new]
      /\ UNCHANGED <<room, terminalRooms, clients, output, inbox, shows, commands>>
      /\ doubled \subseteq doubled' /\ doubled' \subseteq doubled \cup {c}
      /\ (\E s \in 1..sockets : peer[s] = c /\ ~Gone(s)) => c \in doubled'
  BY <1>1 DEF Shared!connect, Shared!Opened, Gone
<1>3. /\ Shared!TypeOK /\ Opened /\ Unnamed /\ Members /\ OneLeft /\ Pending
      /\ peer \in [Shared!Socket -> Slot \cup {None}]
      /\ session \in [Shared!Socket -> Session \cup {None}]
      /\ state \in [Shared!Socket -> {"none", "connecting", "open", "closing", "closed"}]
  BY DEF SharedInv, Shared!TypeOK
<1> HIDE DEF new
<1>4. \A s \in Shared!Socket \ {new} :
          state'[s] = state[s] /\ peer'[s] = peer[s] /\ session'[s] = session[s]
  BY <1>2, <1>3
<1>5. state'[new] = "connecting" /\ peer'[new] = c /\ session'[new] = n /\ state[new] = "none"
  BY <1>1, <1>2, <1>3 DEF Opened
<1>6. Shared!TypeOK'
  <2>1. sockets' \in 0..MaxSockets
    BY <1>1, TermCaps DEF Shared!Socket
  <2>2. /\ peer' \in [Shared!Socket -> Slot \cup {None}]
        /\ session' \in [Shared!Socket -> Session \cup {None}]
        /\ state' \in [Shared!Socket -> {"none", "connecting", "open", "closing", "closed"}]
    BY <1>2, <1>3
  <2>3. wsRef' \in [Slot -> Shared!Socket \cup {None}]
    BY <1>1, <1>2, <1>3 DEF Shared!TypeOK
  <2>4. doubled' \subseteq Slot
    BY <1>2, <1>3 DEF Shared!TypeOK
  <2> QED
    BY <1>2, <1>3, <2>1, <2>2, <2>3, <2>4 DEF Shared!TypeOK
<1>7. Opened'
  <2> SUFFICES ASSUME NEW s \in Shared!Socket
               PROVE  /\ s \in 1..sockets' <=> state'[s] # "none"
                      /\ s \in 1..sockets' => peer'[s] \in Slot /\ session'[s] \in Session
    BY DEF Opened, Shared!Socket
  <2>1. CASE s = new
    BY <1>1, <1>5, <2>1
  <2>2. CASE s # new
    BY <1>1, <1>3, <1>4, <2>2 DEF Opened
  <2> QED
    BY <2>1, <2>2
<1>8. Unnamed'
  BY <1>2, <1>3, <1>4, <1>5 DEF Unnamed, Shared!Socket
<1>9. Members'
  <2>1. \A s \in Shared!Socket : Shared!In(s)' <=> Shared!In(s)
    BY <1>4, <1>5 DEF Shared!In
  <2>2. \A s \in Shared!Socket : Shared!In(s) => s # new /\ session'[s] = session[s]
    BY <1>4, <1>5 DEF Shared!In
  <2>3. \A r \in Shared!Room : clients[r] \subseteq Shared!Socket
    BY <1>3 DEF Shared!TypeOK
  <2>4. Shared!OneRoom'
    BY <1>2, <1>3, <2>1, <2>2 DEF Members, Shared!OneRoom, Shared!Socket
  <2>5. \A s \in Shared!Socket : Shared!In(s)' => room'[s] \in Shared!Room
    BY <1>2, <1>3, <2>1 DEF Members
  <2>6. \A r \in Shared!Room : \A s \in clients'[r] : Shared!In(s)' /\ room'[s] = r
    BY <1>2, <1>3, <2>1, <2>3 DEF Members
  <2> QED
    BY <2>4, <2>5, <2>6 DEF Members, Shared!Socket, Shared!Room
<1>10. OneLeft'
  <2> SUFFICES ASSUME NEW s \in 1..sockets', NEW t \in 1..sockets',
                      s # t, peer'[s] = peer'[t], peer'[s] \notin doubled'
               PROVE  Gone(s)' \/ Gone(t)'
    BY DEF OneLeft
  <2>1. \A u \in 1..sockets : Gone(u) => Gone(u)'
    BY <1>1, <1>2, <1>4 DEF Gone
  <2>2. CASE s # new /\ t # new
    BY <1>1, <1>2, <1>3, <1>4, <2>1, <2>2 DEF OneLeft
  <2>3. CASE s = new \/ t = new
    BY <1>1, <1>2, <1>4, <1>5, <2>1, <2>3
  <2> QED
    BY <2>2, <2>3
<1>11. Pending'
  <2> SUFFICES ASSUME NEW s \in Shared!Socket, state'[s] = "open", peer'[s] \notin doubled'
               PROVE  WillAgree(s)'
    BY DEF Pending, Shared!Socket
  <2>1. s # new
    BY <1>5
  <2>2. WillAgree(s)
    BY <1>2, <1>3, <1>4, <2>1 DEF Pending
  <2> QED
    BY <1>2, <1>4, <2>1, <2>2, WillStay
<1> QED
  BY <1>6, <1>7, <1>8, <1>9, <1>10, <1>11 DEF SharedInv

LEMMA ConnectionInv ==
    ASSUME SharedInv, NEW s \in 1..sockets, Shared!Connection(s)
    PROVE  SharedInv'
<1> DEFINE r == IF terminalRooms[session[s]] = None THEN s ELSE terminalRooms[session[s]]
           past == [type |-> "history", lines |-> output[r]]
<1>1. /\ Shared!TypeOK /\ Opened /\ Unnamed /\ Members /\ OneLeft /\ Pending
      /\ s \in Shared!Socket /\ state[s] = "connecting"
      /\ session[s] \in Session /\ peer[s] \in Slot
  BY TermCaps DEF SharedInv, Shared!TypeOK, Shared!Socket, Shared!Connection, Opened
<1>2. r \in Shared!Room
  BY <1>1 DEF Shared!TypeOK, Shared!Room
<1>3. /\ state' = [state EXCEPT ![s] = "open"]
      /\ terminalRooms' = [terminalRooms EXCEPT ![session[s]] = r]
      /\ room' = [room EXCEPT ![s] = r]
      /\ clients' = [clients EXCEPT ![r] = clients[r] \cup {s}]
      /\ inbox' = [inbox EXCEPT ![s] = <<past>>]
      /\ UNCHANGED <<sockets, peer, session, output, wsRef, shows, doubled, commands>>
  BY DEF Shared!Connection, Shared!component
<1>4. /\ state \in [Shared!Socket -> {"none", "connecting", "open", "closing", "closed"}]
      /\ terminalRooms \in [Session -> Shared!Room \cup {None}]
      /\ room \in [Shared!Socket -> Shared!Room \cup {None}]
      /\ clients \in [Shared!Room -> SUBSET Shared!Socket]
      /\ output \in [Shared!Room -> Seq(Shared!Line)]
      /\ inbox \in [Shared!Socket -> Seq(Shared!Message)]
      /\ shows \in [Slot -> Shared!View]
  BY <1>1 DEF Shared!TypeOK
<1>5. r # s => terminalRooms[session[s]] = r
  OBVIOUS
<1>6. r = s => terminalRooms[session[s]] = None
  BY <1>1 DEF Unnamed
<1>7. past \in Shared!Message /\ output[r] \in Seq(Shared!Line)
  BY <1>2, <1>4 DEF Shared!Message
<1> HIDE DEF r, past
<1>8. /\ \A t \in Shared!Socket \ {s} : /\ state'[t] = state[t] /\ room'[t] = room[t]
                                        /\ inbox'[t] = inbox[t]
      /\ state'[s] = "open" /\ room'[s] = r /\ inbox'[s] = <<past>>
      /\ \A q \in Shared!Room \ {r} : clients'[q] = clients[q]
      /\ clients'[r] = clients[r] \cup {s}
      /\ \A n \in Session \ {session[s]} : terminalRooms'[n] = terminalRooms[n]
      /\ terminalRooms'[session[s]] = r
  BY <1>1, <1>2, <1>3, <1>4
<1>9. Shared!TypeOK'
  <2>1. state' \in [Shared!Socket -> {"none", "connecting", "open", "closing", "closed"}]
    BY <1>3, <1>4
  <2>2. room' \in [Shared!Socket -> Shared!Room \cup {None}]
    BY <1>2, <1>3, <1>4
  <2>3. terminalRooms' \in [Session -> Shared!Room \cup {None}]
    BY <1>2, <1>3, <1>4
  <2>4. clients' \in [Shared!Room -> SUBSET Shared!Socket]
    BY <1>1, <1>2, <1>3, <1>4
  <2>5. inbox' \in [Shared!Socket -> Seq(Shared!Message)]
    <3>1. <<past>> \in Seq(Shared!Message)
      BY <1>7
    <3> QED
      BY <1>3, <1>4, <3>1
  <2> QED
    BY <1>1, <1>3, <2>1, <2>2, <2>3, <2>4, <2>5 DEF Shared!TypeOK
<1>10. Opened'
  BY <1>1, <1>3, <1>8 DEF Opened, Shared!Socket
<1>11. Unnamed'
  <2> SUFFICES ASSUME NEW t \in Shared!Socket, state'[t] \in {"none", "connecting"}
               PROVE  /\ inbox'[t] = <<>> /\ output'[t] = <<>> /\ clients'[t] = {}
                      /\ \A n \in Session : terminalRooms'[n] # t
                      /\ \A u \in Shared!Socket : room'[u] # t
    BY DEF Unnamed, Shared!Socket
  <2>1. t # s /\ state[t] \in {"none", "connecting"}
    BY <1>8
  <2>2. /\ inbox[t] = <<>> /\ output[t] = <<>> /\ clients[t] = {}
        /\ \A n \in Session : terminalRooms[n] # t
        /\ \A u \in Shared!Socket : room[u] # t
    BY <1>1, <2>1 DEF Unnamed
  <2>3. t # r
    BY <1>1, <1>5, <2>1, <2>2
  <2> QED
    BY <1>3, <1>8, <2>1, <2>2, <2>3 DEF Shared!Room, Shared!Socket
<1>12. Members'
  <2>1. \A t \in Shared!Socket \ {s} : Shared!In(t)' <=> Shared!In(t)
    BY <1>8 DEF Shared!In
  <2>2. Shared!In(s)'
    BY <1>8 DEF Shared!In
  <2>3. ASSUME NEW t \in Shared!Socket, Shared!In(t)'
        PROVE  terminalRooms'[session'[t]] = room'[t] /\ t \in clients'[room'[t]]
               /\ room'[t] \in Shared!Room
    <3>1. CASE t = s
      BY <1>2, <1>3, <1>8, <3>1
    <3>2. CASE t # s
      <4>1. /\ Shared!In(t) /\ terminalRooms[session[t]] = room[t] /\ t \in clients[room[t]]
            /\ room[t] \in Shared!Room
        BY <1>1, <2>1, <2>3, <3>2 DEF Members, Shared!OneRoom
      <4>2. session[t] \in Session
        BY <1>1, <4>1 DEF Opened, Shared!In
      <4>3. session[t] = session[s] => room[t] = r
        BY <1>5, <1>6, <4>1, TermCaps DEF Shared!Room, Shared!Socket
      <4> QED
        BY <1>3, <1>8, <3>2, <4>1, <4>2, <4>3
    <3> QED
      BY <3>1, <3>2
  <2>4. ASSUME NEW q \in Shared!Room, NEW t \in clients'[q]
        PROVE  Shared!In(t)' /\ room'[t] = q
    <3>1. CASE t = s
      <4>1. s \notin clients[q]
        BY <1>1 DEF Members, Shared!In
      <4> QED
        BY <1>8, <2>2, <3>1, <4>1
    <3>2. CASE t # s
      <4>0. clients'[q] \subseteq clients[q] \cup {s}
        BY <1>8
      <4>1. t \in clients[q] /\ t \in Shared!Socket
        BY <1>4, <3>2, <4>0
      <4> QED
        BY <1>1, <1>8, <2>1, <3>2, <4>1 DEF Members
    <3> QED
      BY <3>1, <3>2
  <2>5. Shared!OneRoom'
    BY <2>3 DEF Shared!OneRoom, Shared!Socket
  <2>6. \A t \in Shared!Socket : Shared!In(t)' => room'[t] \in Shared!Room
    BY <2>3
  <2>7. \A q \in Shared!Room : \A t \in clients'[q] : Shared!In(t)' /\ room'[t] = q
    BY <2>4
  <2> QED
    BY <2>5, <2>6, <2>7 DEF Members, Shared!Socket, Shared!Room
<1>13. OneLeft'
  <2>1. ASSUME NEW t \in 1..sockets, Gone(t)
        PROVE  Gone(t)'
    <3>1. sockets \in 0..MaxSockets
      BY <1>1 DEF Shared!TypeOK
    <3>2. t \in Shared!Socket /\ t # s
      BY <1>1, <2>1, <3>1, TermCaps DEF Gone, Shared!Socket
    <3> QED
      BY <1>8, <2>1, <3>2 DEF Gone
  <2> QED
    BY <1>1, <1>3, <2>1 DEF OneLeft
<1>14. Pending'
  <2> SUFFICES ASSUME NEW t \in Shared!Socket, state'[t] = "open", peer'[t] \notin doubled'
               PROVE  WillAgree(t)'
    BY DEF Pending, Shared!Socket
  <2>1. CASE t # s
    <3>1. WillAgree(t)
      BY <1>1, <1>3, <1>8, <2>1 DEF Pending
    <3> QED
      BY <1>3, <1>8, <2>1, <3>1, WillStay
  <2>2. CASE t = s
    <3> DEFINE before == shows[peer[s]]
               W == [i \in 0..1 |-> IF i = 0 THEN before ELSE Shared!Seen(before, past)]
    <3>1. before \in Shared!View
      BY <1>1, <1>4
    <3>2. Shared!Seen(before, past) \in Shared!View /\ Shared!Seen(before,
          past).lines = output[r]
      BY <1>7, <3>1 DEF Shared!Seen, Shared!View, past
    <3>3. W \in [0..1 -> Shared!View]
      BY <3>1, <3>2
    <3>4. W[0] = before /\ W[1] = Shared!Seen(before, past)
      OBVIOUS
    <3> HIDE DEF W
    <3>5. /\ inbox'[s] = <<past>> /\ Len(<<past>>) = 1 /\ <<past>>[1] = past /\ 1..1 = {1}
          /\ output'[room'[s]] = output[r] /\ shows'[peer'[s]] = before
      BY <1>3, <1>8
    <3>6. EndsAlike(output[r], output[r])
      BY DEF EndsAlike
    <3>7. \A i \in 1..1 : W[i] = Shared!Seen(W[i - 1], <<past>>[i])
      BY <3>4, <3>5
    <3> QED
      BY <2>2, <3>2, <3>3, <3>4, <3>5, <3>6, <3>7 DEF WillAgree
  <2> QED
    BY <2>1, <2>2
<1> QED
  BY <1>9, <1>10, <1>11, <1>12, <1>13, <1>14 DEF SharedInv

\* While a socket's state is left or only closed, members and their rooms agree.
LEMMA MembersStay ==
    ASSUME SharedInv, UNCHANGED <<session, room, terminalRooms, clients>>,
           \A s \in Shared!Socket : Shared!In(s)' <=> Shared!In(s)
    PROVE  Members'
<1>1. Members /\ \A r \in Shared!Room : clients[r] \subseteq Shared!Socket
  BY DEF SharedInv, Shared!TypeOK
<1>2. Shared!OneRoom'
  BY <1>1 DEF Members, Shared!OneRoom, Shared!Socket
<1>3. \A s \in Shared!Socket : Shared!In(s)' => room'[s] \in Shared!Room
  BY <1>1 DEF Members
<1>4. \A r \in Shared!Room : \A s \in clients'[r] : Shared!In(s)' /\ room'[s] = r
  BY <1>1 DEF Members
<1> QED
  BY <1>2, <1>3, <1>4 DEF Members, Shared!Socket, Shared!Room

LEMMA ExecInv ==
    ASSUME SharedInv, NEW s \in 1..sockets, Shared!Exec(s)
    PROVE  SharedInv'
<1> DEFINE line == commands + 1
           news == [type |-> "terminal-output", line |-> line]
           r == room[s]
           longer == Append(output[r], line)
<1>1. /\ Shared!TypeOK /\ Opened /\ Unnamed /\ Members /\ OneLeft /\ Pending
      /\ s \in Shared!Socket /\ state[s] = "open" /\ sockets \in 0..MaxSockets
  BY TermCaps DEF SharedInv, Shared!TypeOK, Shared!Socket, Shared!Exec
<1>2. /\ line \in Shared!Line /\ news \in Shared!Message
  BY <1>1, TermCaps DEF Shared!TypeOK, Shared!Exec, Shared!Line, Shared!Message
<1>3. r \in Shared!Room
  BY <1>1 DEF Members, Shared!In
<1>4. /\ output \in [Shared!Room -> Seq(Shared!Line)]
      /\ inbox \in [Shared!Socket -> Seq(Shared!Message)]
      /\ shows \in [Slot -> Shared!View]
      /\ clients[r] \subseteq Shared!Socket
  BY <1>1, <1>3 DEF Shared!TypeOK
<1>5. longer \in Seq(Shared!Line) /\ Shared!Kept(longer, OutputCap) \in Seq(Shared!Line)
      /\ Len(Shared!Kept(longer, OutputCap)) <= OutputCap
  <2>1. longer \in Seq(Shared!Line)
    BY <1>2, <1>3, <1>4
  <2> QED
    BY <2>1, KeptEnds, TermCaps
<1>6. /\ commands' = line
      /\ output' = [output EXCEPT ![r] = Shared!Kept(longer, OutputCap)]
      /\ inbox' = [t \in Shared!Socket |-> IF t \in clients[r] /\ state[t] = "open"
                                           THEN Append(inbox[t], news) ELSE inbox[t]]
      /\ UNCHANGED <<sockets, peer, session, state, room, terminalRooms, clients>>
      /\ UNCHANGED <<wsRef, shows, doubled>>
  BY DEF Shared!Exec, Shared!Broadcast, Shared!component
<1> HIDE DEF line, r, longer
<1>7. Shared!TypeOK'
  <2>1. commands' \in 0..MaxCommands
    BY <1>2, <1>6, TermCaps DEF Shared!Line
  <2>2. output' \in [Shared!Room -> Seq(Shared!Line)]
    BY <1>4, <1>5, <1>6
  <2>3. \A q \in Shared!Room : Len(output'[q]) <= OutputCap
    BY <1>1, <1>3, <1>4, <1>5, <1>6 DEF Shared!TypeOK
  <2>4. inbox' \in [Shared!Socket -> Seq(Shared!Message)]
    <3>1. \A t \in Shared!Socket : Append(inbox[t], news) \in Seq(Shared!Message)
      BY <1>2, <1>4
    <3> QED
      BY <1>4, <1>6, <3>1
  <2> QED
    BY <1>1, <1>6, <2>1, <2>2, <2>3, <2>4 DEF Shared!TypeOK
<1>8. Opened'
  BY <1>1, <1>6 DEF Opened, Shared!Socket
<1>9. Unnamed'
  <2> SUFFICES ASSUME NEW t \in Shared!Socket, state'[t] \in {"none", "connecting"}
               PROVE  /\ inbox'[t] = <<>> /\ output'[t] = <<>> /\ clients'[t] = {}
                      /\ \A n \in Session : terminalRooms'[n] # t
                      /\ \A u \in Shared!Socket : room'[u] # t
    BY DEF Unnamed, Shared!Socket
  <2>1. /\ inbox[t] = <<>> /\ output[t] = <<>> /\ clients[t] = {}
        /\ \A n \in Session : terminalRooms[n] # t
        /\ \A u \in Shared!Socket : room[u] # t
    BY <1>1, <1>6 DEF Unnamed
  <2>2. t # r
    BY <1>1, <2>1 DEF r
  <2> QED
    BY <1>4, <1>6, <2>1, <2>2
<1>10. Members'
  BY <1>6, MembersStay DEF Shared!In
<1>11. OneLeft'
  <2>1. ASSUME NEW t \in 1..sockets, Gone(t)
        PROVE  Gone(t)'
    <3>1. t \in Shared!Socket /\ state[t] = "closed" /\ inbox[t] = <<>>
      BY <1>1, <2>1, TermCaps DEF Gone, Shared!Socket
    <3> QED
      BY <1>6, <3>1 DEF Gone
  <2> QED
    BY <1>1, <1>6, <2>1 DEF OneLeft
<1>12. Pending'
  <2> SUFFICES ASSUME NEW t \in Shared!Socket, state'[t] = "open", peer'[t] \notin doubled'
               PROVE  WillAgree(t)'
    BY DEF Pending, Shared!Socket
  <2>1. WillAgree(t) /\ state[t] = "open"
    BY <1>1, <1>6 DEF Pending
  <2>2. Shared!In(t) /\ room[t] \in Shared!Room /\ t \in clients[room[t]]
    BY <1>1, <2>1 DEF Members, Shared!OneRoom, Shared!In
  <2>3. CASE room[t] # r
    <3>1. t \notin clients[r]
      BY <1>1, <1>3, <2>3 DEF Members
    <3>2. inbox'[t] = inbox[t] /\ output'[room[t]] = output[room[t]]
      BY <1>4, <1>6, <2>2, <2>3, <3>1
    <3> QED
      BY <1>6, <2>1, <3>2, WillStay
  <2>4. CASE room[t] = r
    <3> DEFINE n == Len(inbox[t])
    <3>1. inbox'[t] = Append(inbox[t], news) /\ n \in Nat
      BY <1>4, <1>6, <2>1, <2>2, <2>4
    <3>2. PICK V \in [0..n -> Shared!View] :
              /\ V[0] = shows[peer[t]]
              /\ \A i \in 1..n : V[i] = Shared!Seen(V[i - 1], inbox[t][i])
              /\ EndsAlike(V[n].lines, output[r])
      BY <2>1, <2>4 DEF WillAgree
    <3> DEFINE top == V[n]
               next == Shared!Seen(top, news)
               W == [i \in 0..(n + 1) |-> IF i = n + 1 THEN next ELSE V[i]]
    <3>3. top \in Shared!View /\ top.lines \in Seq(Shared!Line)
      BY <3>1, <3>2 DEF Shared!View
    <3>4. Shared!Kept(top.lines, ScreenCap) \in Seq(Shared!Line)
      BY <3>3, KeptEnds, TermCaps
    <3>5. next.lines = Append(Shared!Kept(top.lines, ScreenCap), line)
      BY DEF Shared!Seen
    <3>6. next \in Shared!View
      <4>1. Append(Shared!Kept(top.lines, ScreenCap), line) \in Seq(Shared!Line)
        BY <1>2, <3>4
      <4> QED
        BY <3>3, <4>1 DEF Shared!Seen, Shared!View
    <3>7. next.lines # <<>>
      BY <1>2, <3>4, <3>5
    <3>8. EndsAlike(next.lines, output'[r])
      <4>1. output[r] \in Seq(Shared!Line)
        BY <1>3, <1>4
      <4>2. EndsAlike(top.lines, output[r])
        BY <3>2
      <4> HIDE DEF top
      <4> DEFINE k == Shared!Kept(top.lines, ScreenCap)
      <4>3. EndsAlike(k, output[r])
        BY <3>3, <4>1, <4>2, KeptAlike, TermCaps
      <4> HIDE DEF k, next
      <4>4. k \in Seq(Shared!Line) /\ next.lines = Append(k, line)
        BY <3>4, <3>5 DEF k
      <4>5. EndsAlike(Append(k, line), Append(output[r], line))
        BY <1>2, <4>1, <4>3, <4>4, AppendAlike
      <4>6. EndsAlike(next.lines, longer)
        BY <4>4, <4>5, Zenon DEF longer
      <4>7. next.lines \in Seq(Shared!Line)
        BY <3>6 DEF Shared!View
      <4>8. EndsAlike(longer, next.lines)
        BY <4>6, AlikeBack
      <4>9. EndsAlike(Shared!Kept(longer, OutputCap), next.lines)
        BY <1>5, <4>7, <4>8, KeptAlike, TermCaps
      <4>10. output'[r] = Shared!Kept(longer, OutputCap)
        BY <1>3, <1>4, <1>6
      <4> QED
        BY <4>9, <4>10, AlikeBack
    <3> HIDE DEF next, top
    <3>9. W \in [0..(n + 1) -> Shared!View]
      BY <3>1, <3>2, <3>6
    <3>10. W[0] = shows[peer[t]] /\ W[n + 1] = next
      BY <3>1, <3>2
    <3>11. ASSUME NEW i \in 1..(n + 1)
           PROVE  W[i] = Shared!Seen(W[i - 1], inbox'[t][i])
      <4>1. CASE i = n + 1
        <5>1. inbox'[t][i] = news /\ W[i - 1] = V[n]
          BY <1>2, <1>4, <3>1, <4>1
        <5> QED
          BY <3>10, <4>1, <5>1 DEF next, top
      <4>2. CASE i # n + 1
        <5>1. i \in 1..n /\ inbox'[t][i] = inbox[t][i] /\ W[i] = V[i] /\ W[i - 1] = V[i - 1]
          BY <1>2, <1>4, <3>1, <4>2
        <5> QED
          BY <3>2, <5>1
      <4> QED
        BY <4>1, <4>2
    <3>12. Len(inbox'[t]) = n + 1
      BY <1>2, <1>4, <3>1
    <3> HIDE DEF W, n
    <3> QED
      BY <1>6, <2>4, <3>7, <3>8, <3>9, <3>10, <3>11, <3>12 DEF WillAgree
  <2> QED
    BY <2>3, <2>4
<1> QED
  BY <1>7, <1>8, <1>9, <1>10, <1>11, <1>12 DEF SharedInv

LEMMA ClosingInv ==
    ASSUME SharedInv, NEW s \in 1..sockets, Shared!Closing(s) \/ Shared!Close(s)
    PROVE  SharedInv'
<1>1. /\ Shared!TypeOK /\ Opened /\ Unnamed /\ Members /\ OneLeft /\ Pending
      /\ s \in Shared!Socket /\ Shared!In(s) /\ sockets \in 0..MaxSockets
  BY TermCaps DEF SharedInv, Shared!TypeOK, Shared!Socket, Shared!Closing, Shared!Close,
                  Shared!In
<1>2. /\ state \in [Shared!Socket -> {"none", "connecting", "open", "closing", "closed"}]
      /\ inbox \in [Shared!Socket -> Seq(Shared!Message)]
      /\ terminalRooms \in [Session -> Shared!Room \cup {None}]
      /\ clients \in [Shared!Room -> SUBSET Shared!Socket]
  BY <1>1 DEF Shared!TypeOK
<1>3. room[s] \in Shared!Room /\ session[s] \in Session /\ terminalRooms[session[s]] = room[s]
  BY <1>1 DEF Members, Shared!OneRoom, Opened
<1>4. UNCHANGED <<sockets, peer, session, room, output, wsRef, shows, doubled, commands>>
  BY DEF Shared!Closing, Shared!Close, Shared!component
<1>5. /\ state' \in [Shared!Socket -> {"none", "connecting", "open", "closing", "closed"}]
      /\ \A t \in Shared!Socket \ {s} : state'[t] = state[t] /\ inbox'[t] = inbox[t]
      /\ state'[s] \in {"closing", "closed"}
      /\ inbox' \in [Shared!Socket -> Seq(Shared!Message)]
  <2>1. CASE Shared!Closing(s)
    <3>1. Append(inbox[s], [type |-> "close"]) \in Seq(Shared!Message)
      BY <1>1, <1>2 DEF Shared!Message
    <3> QED
      BY <1>1, <1>2, <2>1, <3>1 DEF Shared!Closing
  <2>2. CASE Shared!Close(s)
    BY <1>1, <1>2, <2>2 DEF Shared!Close
  <2> QED
    BY <2>1, <2>2
<1>6. /\ clients' \in [Shared!Room -> SUBSET Shared!Socket]
      /\ terminalRooms' \in [Session -> Shared!Room \cup {None}]
      /\ \A q \in Shared!Room : clients'[q] \subseteq clients[q]
      /\ \A n \in Session : terminalRooms'[n] \in {terminalRooms[n], None}
  <2>1. CASE Shared!Closing(s)
    BY <1>2, <2>1 DEF Shared!Closing
  <2>2. CASE Shared!Close(s)
    BY <1>2, <1>3, <2>2 DEF Shared!Close, Shared!Deleted
  <2> QED
    BY <2>1, <2>2
<1>7. Shared!TypeOK'
  BY <1>1, <1>4, <1>5, <1>6 DEF Shared!TypeOK
<1>8. Opened'
  BY <1>1, <1>4, <1>5 DEF Opened, Shared!Socket, Shared!In
<1>9. Unnamed'
  <2> SUFFICES ASSUME NEW t \in Shared!Socket, state'[t] \in {"none", "connecting"}
               PROVE  /\ inbox'[t] = <<>> /\ output'[t] = <<>> /\ clients'[t] = {}
                      /\ \A n \in Session : terminalRooms'[n] # t
                      /\ \A u \in Shared!Socket : room'[u] # t
    BY DEF Unnamed, Shared!Socket
  <2>1. t # s /\ state[t] \in {"none", "connecting"}
    BY <1>5
  <2>2. /\ inbox[t] = <<>> /\ output[t] = <<>> /\ clients[t] = {}
        /\ \A n \in Session : terminalRooms[n] # t
        /\ \A u \in Shared!Socket : room[u] # t
    BY <1>1, <2>1 DEF Unnamed
  <2>3. t # None
    BY TermCaps DEF Shared!Socket
  <2>4. t \in Shared!Room
    BY DEF Shared!Room
  <2> QED
    BY <1>4, <1>5, <1>6, <2>1, <2>2, <2>3, <2>4
<1>10. Members'
  <2>1. CASE Shared!Closing(s)
    <3>1. \A t \in Shared!Socket : Shared!In(t)' <=> Shared!In(t)
      BY <1>1, <1>2, <2>1 DEF Shared!Closing, Shared!In
    <3>2. UNCHANGED <<session, room, terminalRooms, clients>>
      BY <2>1 DEF Shared!Closing
    <3> QED
      BY <3>1, <3>2, MembersStay
  <2>2. CASE Shared!Close(s)
    <3> DEFINE left == clients[room[s]] \ {s}
    <3>1. /\ state'[s] = "closed"
          /\ clients' = [clients EXCEPT ![room[s]] = left]
          /\ left # {} => terminalRooms' = terminalRooms
          /\ \A n \in Session \ {session[s]} : terminalRooms'[n] = terminalRooms[n]
      BY <1>1, <1>2, <2>2 DEF Shared!Close, Shared!Deleted
    <3>2. \A t \in Shared!Socket : Shared!In(t)' <=> Shared!In(t) /\ t # s
      BY <1>5, <3>1 DEF Shared!In
    <3>3. ASSUME NEW t \in Shared!Socket, Shared!In(t), t # s
          PROVE  terminalRooms'[session[t]] = room[t] /\ t \in clients'[room[t]]
                 /\ room[t] \in Shared!Room
      <4>1. /\ terminalRooms[session[t]] = room[t] /\ t \in clients[room[t]]
            /\ room[t] \in Shared!Room
        BY <1>1, <3>3 DEF Members, Shared!OneRoom
      <4>2. session[t] \in Session
        BY <1>1, <3>3 DEF Opened, Shared!In
      <4>3. t \in clients'[room[t]]
        BY <1>2, <1>3, <3>1, <3>3, <4>1
      <4>4. session[t] = session[s] => left # {}
        BY <1>3, <3>3, <4>1
      <4>5. terminalRooms'[session[t]] = terminalRooms[session[t]]
        BY <3>1, <4>2, <4>4
      <4> QED
        BY <4>1, <4>3, <4>5
    <3>4. ASSUME NEW q \in Shared!Room, NEW t \in clients'[q]
          PROVE  Shared!In(t)' /\ room'[t] = q
      <4>1. t \in clients[q] /\ t \in Shared!Socket /\ Shared!In(t) /\ room[t] = q
        BY <1>1, <1>2, <1>6 DEF Members
      <4>2. t # s
        BY <1>2, <1>3, <3>1, <4>1
      <4> QED
        BY <1>4, <3>2, <4>1, <4>2
    <3>5. Shared!OneRoom'
      BY <1>4, <3>2, <3>3 DEF Shared!OneRoom, Shared!Socket
    <3>6. \A t \in Shared!Socket : Shared!In(t)' => room'[t] \in Shared!Room
      BY <1>4, <3>2, <3>3
    <3>7. \A q \in Shared!Room : \A t \in clients'[q] : Shared!In(t)' /\ room'[t] = q
      BY <3>4
    <3> QED
      BY <3>5, <3>6, <3>7 DEF Members, Shared!Socket, Shared!Room
  <2> QED
    BY <2>1, <2>2
<1>11. OneLeft'
  <2>1. ASSUME NEW t \in 1..sockets, Gone(t)
        PROVE  Gone(t)'
    <3>1. t \in Shared!Socket /\ state[t] = "closed" /\ inbox[t] = <<>> /\ t # s
      BY <1>1, <2>1, TermCaps DEF Gone, Shared!Socket, Shared!In
    <3> QED
      BY <1>5, <3>1 DEF Gone
  <2> QED
    BY <1>1, <1>4, <2>1 DEF OneLeft
<1>12. Pending'
  <2> SUFFICES ASSUME NEW t \in Shared!Socket, state'[t] = "open", peer'[t] \notin doubled'
               PROVE  WillAgree(t)'
    BY DEF Pending, Shared!Socket
  <2>1. t # s /\ WillAgree(t)
    BY <1>1, <1>4, <1>5 DEF Pending
  <2> QED
    BY <1>4, <1>5, <2>1, WillStay
<1> QED
  BY <1>7, <1>8, <1>9, <1>10, <1>11, <1>12 DEF SharedInv

LEMMA ReceiveInv ==
    ASSUME SharedInv, NEW s \in 1..sockets, Shared!Receive(s)
    PROVE  SharedInv'
<1> DEFINE c == peer[s]
           first == Head(inbox[s])
           after == Shared!Seen(shows[c], first)
<1>1. /\ Shared!TypeOK /\ Opened /\ Unnamed /\ Members /\ OneLeft /\ Pending
      /\ s \in Shared!Socket /\ inbox[s] # <<>> /\ sockets \in 0..MaxSockets
  BY TermCaps DEF SharedInv, Shared!TypeOK, Shared!Socket, Shared!Receive
<1>2. /\ inbox \in [Shared!Socket -> Seq(Shared!Message)]
      /\ shows \in [Slot -> Shared!View] /\ c \in Slot
  BY <1>1 DEF Shared!TypeOK, Opened
<1>3. first \in Shared!Message /\ Tail(inbox[s]) \in Seq(Shared!Message)
  BY <1>1, <1>2
<1>4. after \in Shared!View
  <2>1. shows[c] \in Shared!View /\ shows[c].lines \in Seq(Shared!Line)
        /\ shows[c].connected \in BOOLEAN
    BY <1>2 DEF Shared!View
  <2>2. Shared!Kept(shows[c].lines, ScreenCap) \in Seq(Shared!Line)
    BY <2>1, KeptEnds, TermCaps
  <2>3. /\ first.type = "history" => first.lines \in Seq(Shared!Line)
        /\ first.type = "terminal-output" => first.line \in Shared!Line
    BY <1>3 DEF Shared!Message
  <2>4. first.type = "terminal-output" =>
            Append(Shared!Kept(shows[c].lines, ScreenCap), first.line) \in Seq(Shared!Line)
    BY <2>2, <2>3
  <2> HIDE DEF first
  <2> QED
    BY <2>1, <2>3, <2>4 DEF Shared!Seen, Shared!View
<1>5. /\ inbox' = [inbox EXCEPT ![s] = Tail(inbox[s])]
      /\ shows' = [shows EXCEPT ![c] = after]
      /\ UNCHANGED <<sockets, peer, session, state, room, terminalRooms, clients, output>>
      /\ UNCHANGED <<wsRef, doubled, commands>>
  BY DEF Shared!Receive, Shared!server
<1> HIDE DEF after, first
<1>6. Shared!TypeOK'
  <2>1. inbox' \in [Shared!Socket -> Seq(Shared!Message)]
    BY <1>2, <1>3, <1>5
  <2>2. shows' \in [Slot -> Shared!View]
    BY <1>2, <1>4, <1>5
  <2> QED
    BY <1>1, <1>5, <2>1, <2>2 DEF Shared!TypeOK
<1>7. Opened'
  BY <1>1, <1>5 DEF Opened, Shared!Socket
<1>8. Unnamed'
  BY <1>1, <1>2, <1>5 DEF Unnamed, Shared!Socket
<1>9. Members'
  BY <1>5, MembersStay DEF Shared!In
<1>10. OneLeft'
  <2>1. ASSUME NEW t \in 1..sockets, Gone(t)
        PROVE  Gone(t)'
    <3>1. t \in Shared!Socket /\ state[t] = "closed" /\ inbox[t] = <<>> /\ t # s
      BY <1>1, <2>1, TermCaps DEF Gone, Shared!Socket
    <3> QED
      BY <1>2, <1>5, <3>1 DEF Gone
  <2> QED
    BY <1>1, <1>5, <2>1 DEF OneLeft
<1>11. Pending'
  <2> SUFFICES ASSUME NEW t \in Shared!Socket, state'[t] = "open", peer'[t] \notin doubled'
               PROVE  WillAgree(t)'
    BY DEF Pending, Shared!Socket
  <2>1. WillAgree(t) /\ state[t] = "open" /\ peer[t] \notin doubled /\ t \in 1..sockets
    BY <1>1, <1>5 DEF Pending, Opened
  <2>2. CASE t # s
    <3>1. ~Gone(s) /\ ~Gone(t)
      BY <1>1, <2>1 DEF Gone
    <3>2. peer[t] # c
      BY <1>1, <2>1, <2>2, <3>1 DEF OneLeft
    <3>3. peer[t] \in Slot
      BY <1>1, <2>1 DEF Opened
    <3>4. shows'[peer'[t]] = shows[peer[t]]
      BY <1>2, <1>5, <3>2, <3>3
    <3>5. inbox'[t] = inbox[t]
      BY <1>2, <1>5, <2>2
    <3> QED
      BY <1>5, <2>1, <3>4, <3>5, WillStay
  <2>3. CASE t = s
    <3> DEFINE n == Len(inbox[s]) - 1
    <3>1. /\ n \in Nat /\ Len(inbox'[s]) = n /\ Len(inbox[s]) = n + 1
          /\ first = inbox[s][1]
          /\ \A i \in 1..n : inbox'[s][i] = inbox[s][i + 1]
      BY <1>1, <1>2, <1>5 DEF first
    <3>2. PICK V \in [0..(n + 1) -> Shared!View] :
              /\ V[0] = shows[c]
              /\ \A i \in 1..(n + 1) : V[i] = Shared!Seen(V[i - 1], inbox[s][i])
              /\ EndsAlike(V[n + 1].lines, output[room[s]])
              /\ output[room[s]] # <<>> => V[n + 1].lines # <<>>
      BY <2>1, <2>3, <3>1 DEF WillAgree
    <3> DEFINE W == [i \in 0..n |-> V[i + 1]]
    <3> HIDE DEF n
    <3>3. W \in [0..n -> Shared!View] /\ W[n] = V[n + 1] /\ W[0] = V[1]
      BY <3>1, <3>2
    <3>4. V[1] = after
      <4>1. 1 \in 1..(n + 1) /\ 1 - 1 = 0
        BY <3>1
      <4>2. V[1] = Shared!Seen(V[1 - 1], inbox[s][1])
        BY <3>2, <4>1
      <4> QED
        BY <3>1, <3>2, <4>1, <4>2 DEF after
    <3>5. ASSUME NEW i \in 1..n
          PROVE  W[i] = Shared!Seen(W[i - 1], inbox'[s][i])
      <4>1. i + 1 \in 1..(n + 1) /\ (i + 1) - 1 = i /\ i \in 0..n /\ i - 1 \in 0..n
        BY <3>1
      <4>2. V[i + 1] = Shared!Seen(V[(i + 1) - 1], inbox[s][i + 1])
        BY <3>2, <4>1
      <4>3. W[i] = V[i + 1] /\ W[i - 1] = V[i]
        BY <4>1
      <4> QED
        BY <3>1, <4>1, <4>2, <4>3
    <3>6. shows'[peer'[s]] = after
      BY <1>2, <1>5
    <3> HIDE DEF W
    <3>7. W[0] = shows'[peer'[s]] /\ output'[room'[s]] = output[room[s]]
      BY <1>5, <3>3, <3>4, <3>6
    <3>8. \A i \in 1..n : W[i] = Shared!Seen(W[i - 1], inbox'[s][i])
      BY <3>5
    <3>9. WillAgree(s)'
      BY <3>1, <3>2, <3>3, <3>7, <3>8 DEF WillAgree
    <3> QED
      BY <2>3, <3>9
  <2> QED
    BY <2>2, <2>3
<1> QED
  BY <1>6, <1>7, <1>8, <1>9, <1>10, <1>11 DEF SharedInv

LEMMA SharedStepInv == SharedInv /\ [Shared!Next]_Shared!vars => SharedInv'
<1> SUFFICES ASSUME SharedInv, [Shared!Next]_Shared!vars PROVE SharedInv'
  OBVIOUS
<1>1. CASE UNCHANGED Shared!vars
  <2>1. UNCHANGED <<sockets, peer, session, state, room, terminalRooms, clients, output>>
        /\ UNCHANGED <<inbox, wsRef, shows, doubled, commands>>
    BY <1>1 DEF Shared!vars, Shared!server, Shared!component
  <2>2. Shared!TypeOK' /\ Opened' /\ Unnamed' /\ OneLeft'
    BY <2>1 DEF SharedInv, Shared!TypeOK, Opened, Unnamed, OneLeft, Gone
  <2>3. Members'
    BY <2>1, MembersStay DEF Shared!In
  <2>4. Pending'
    <3> SUFFICES ASSUME NEW t \in Shared!Socket, state'[t] = "open", peer'[t] \notin doubled'
                 PROVE  WillAgree(t)'
      BY DEF Pending, Shared!Socket
    <3>1. WillAgree(t)
      BY <2>1 DEF SharedInv, Pending
    <3> QED
      BY <2>1, <3>1, WillStay
  <2> QED
    BY <2>2, <2>3, <2>4 DEF SharedInv
<1>2. CASE Shared!Next
  BY <1>2, ConnectInv, ConnectionInv, ExecInv, ClosingInv, ReceiveInv
     DEF Shared!Next, Shared!Opened
<1> QED
  BY <1>1, <1>2

LEMMA SharedEnds == SharedInv => Shared!TypeOK /\ Shared!ScreensAgree
<1> SUFFICES ASSUME SharedInv PROVE Shared!ScreensAgree
  BY DEF SharedInv
<1> SUFFICES ASSUME NEW s \in Shared!Socket, state[s] = "open", inbox[s] = <<>>,
                    peer[s] \notin doubled
             PROVE  LET lines == shows[peer[s]].lines
                    IN \E other \in Shared!Room :
                         /\ terminalRooms[session[s]] = other
                         /\ Shared!IsSuffix(lines, output[other])
                            \/ Shared!IsSuffix(output[other], lines)
                         /\ output[other] # <<>> => lines # <<>>
  BY DEF Shared!ScreensAgree
<1> DEFINE lines == shows[peer[s]].lines
           r == room[s]
<1>1. /\ Shared!TypeOK /\ Opened /\ Members /\ WillAgree(s)
  BY DEF SharedInv, Pending
<1>2. terminalRooms[session[s]] = r /\ r \in Shared!Room
  BY <1>1 DEF Members, Shared!OneRoom, Shared!In
<1>3. peer[s] \in Slot
  BY <1>1 DEF Opened
<1>4. output[r] \in Seq(Shared!Line) /\ lines \in Seq(Shared!Line)
  BY <1>1, <1>2, <1>3 DEF Shared!TypeOK, Shared!View
<1>5. EndsAlike(lines, output[r]) /\ (output[r] # <<>> => lines # <<>>)
  <2>1. Len(inbox[s]) = 0
    OBVIOUS
  <2> QED
    BY <1>1, <2>1 DEF WillAgree
<1> HIDE DEF lines, r
<1>6. Shared!IsSuffix(lines, output[r]) \/ Shared!IsSuffix(output[r], lines)
  <2>1. CASE Len(lines) <= Len(output[r])
    BY <1>4, <1>5, <2>1, AlikeIsSuffix
  <2>2. CASE Len(output[r]) <= Len(lines)
    BY <1>4, <1>5, <2>2, AlikeIsSuffix, AlikeBack
  <2> QED
    BY <1>4, <2>1, <2>2
<1> QED
  BY <1>2, <1>5, <1>6 DEF lines

\* A component that has received what was sent to it shows the end of what was
\* typed in its session, as far as it and the room keep it (the rooms of
\* server/index.ts, CollaborativeTerminal.tsx).
THEOREM ScreensOfASession == ServicesSpec => []ScreensAgree
<1> DEFINE I == focus = "terminal" => SharedInv
<1>1. ServicesInit => I
  BY SharedStarts, SharedInitInv
<1>2. I /\ [ServicesNext]_<<focus, places>> => I'
  BY SharedGoes, SharedStepInv
<1>3. I => ScreensAgree
  BY SharedEnds DEF ScreensAgree
<1> QED
  BY <1>1, <1>2, <1>3, PTL DEF ServicesSpec

=============================================================================
