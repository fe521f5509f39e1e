-------------------------- MODULE DiscordVps_proofs --------------------------
(***************************************************************************)
(* Proofs about DiscordVps, for any numbers of users, VPSs, commands,      *)
(* failures and restarts, and backups that share a second: what becomes of *)
(* the newest backups, of those that are listed, and of the retention.     *)
(*                                                                         *)
(* The argument: a row that a retention once found expired has as many     *)
(* younger places as are to be kept, and that stays so.  An image is only  *)
(* removed for such a row, so that a kept backup that misses its image has *)
(* the image of one; and when nothing fails that row is deleted next.      *)
(***************************************************************************)
EXTENDS DiscordVps, FiniteSetTheorems, TLAPS

-----------------------------------------------------------------------------
(***************************************************************************)
(* Types.                                                                  *)
(***************************************************************************)
\* A command that goes on is one of the commands.
LEMMA GotoType ==
  ASSUME NEW s \in Slot, cmd \in [Slot -> {Idle} \cup Command],
         NEW next \in {Idle} \cup Command, Goto(s, next)
  PROVE  cmd' \in [Slot -> {Idle} \cup Command]
BY DEF Goto

\* What is left of a retention is one of the commands.
LEMMA ContinueType ==
  ASSUME NEW c \in Container, NEW todo \in SUBSET Rotated, NEW expired \in SUBSET Backup
  PROVE  Continue(c, todo, expired) \in {Idle} \cup Command
BY DEF Continue, Command, Retention

\* What the fields of a command are, by where it is.
LEMMA Fields ==
  ASSUME NEW k \in {Idle} \cup Command
  PROVE  /\ k.at = "run" => k.user \in User
         /\ k.at = "insert" => k.user \in User /\ k.c \in Container
         /\ k.at \in {"rm", "unlist"} => k.c \in Container
         /\ k.at \in {"commit", "record"} =>
              k.c \in Container /\ k.type \in Type /\ k.image \in Image
         /\ k.at \in {"retain", "forget"} =>
              k.c \in Container /\ k.todo \subseteq Rotated /\ k.expired \subseteq Backup
         /\ k.at = "forget" => k.row \in Backup
         /\ k.at \in {"stop", "remove", "replace"} => k.c \in Container /\ k.image \in Image
BY DEF Command, Create, Delete, MakeBackup, Retention, Restore, Idle

\* Only rows of the table expire.
LEMMA ExpiredRows == ASSUME NEW c, NEW t PROVE Expired(c, t) \subseteq backups
BY DEF Expired

\* Containers, rows, images and commands in flight keep their types, whatever
\* interleaves.
THEOREM VpsTypeCorrect == Spec => []TypeOK
<1>1. Init => TypeOK
  BY DEF Init, TypeOK, State
<1>2. ASSUME TypeOK, [Next]_vars
      PROVE  TypeOK'
  <2> USE <1>2
  <2> USE DEF TypeOK
  <2>u. CASE UNCHANGED vars
    BY <2>u DEF vars, store
  <2>c. CASE Crash
    BY <2>c DEF Crash, store
  <2>p. ASSUME NEW c \in Container, Power(c) PROVE TypeOK'
    BY <2>p DEF Power, State
  <2>b. ASSUME NEW s \in Slot, Begins(s) PROVE TypeOK'
    <3>1. ASSUME NEW u \in User, createVps(s, u) PROVE TypeOK'
      <4>1. [at |-> "run", user |-> u] \in {Idle} \cup Command
        BY DEF Command, Create
      <4> QED
        BY <3>1, <4>1, GotoType DEF createVps, Begin, store
    <3>2. ASSUME NEW u \in User, NEW c \in Container, deleteVps(s, u, c) PROVE TypeOK'
      <4>1. [at |-> "rm", c |-> c] \in {Idle} \cup Command
        BY DEF Command, Delete
      <4> QED
        BY <3>2, <4>1, GotoType DEF deleteVps, Begin, store
    <3>3. ASSUME NEW u \in User, NEW c \in Container, restoreBackup(s, u, c) PROVE TypeOK'
      <4>1. PICK b \in backups : Goto(s, [at |-> "stop", c |-> c, image |-> b.image])
        BY <3>3 DEF restoreBackup
      <4>2. [at |-> "stop", c |-> c, image |-> b.image] \in {Idle} \cup Command
        BY DEF Command, Restore, Backup
      <4> QED
        BY <3>3, <4>1, <4>2, GotoType DEF restoreBackup, Begin, store
    <3>4. ASSUME NEW c \in Container, NEW t \in Type, createBackup(s, c, t) PROVE TypeOK'
      <4>1. PICK w \in Seconds(c) :
              /\ second' = [second EXCEPT ![c] = w]
              /\ Goto(s, [at |-> "commit", c |-> c, type |-> t,
                          image |-> [c |-> c, second |-> w]])
        BY <3>4 DEF createBackup
      <4>2. w \in Nat
        BY DEF Seconds
      <4>3. [at |-> "commit", c |-> c, type |-> t, image |-> [c |-> c, second |-> w]]
              \in {Idle} \cup Command
        BY <4>2 DEF Command, MakeBackup, Image
      <4>4. cmd' \in [Slot -> {Idle} \cup Command]
        BY <4>1, <4>3, GotoType
      <4>5. second' \in [Container -> Nat]
        BY <4>1, <4>2
      <4> QED
        BY <3>4, <4>4, <4>5 DEF createBackup
    <3> QED
      BY <2>b, <3>1, <3>2, <3>3, <3>4 DEF Begins
  <2>s. ASSUME NEW s \in Slot, Step(s) PROVE TypeOK'
    <3> USE DEF Fails, Succeeds
    <3>0. cmd[s] \in {Idle} \cup Command
      OBVIOUS
    <3>f. /\ cmd[s].at = "run" => cmd[s].user \in User
          /\ cmd[s].at = "insert" => cmd[s].user \in User /\ cmd[s].c \in Container
          /\ cmd[s].at \in {"rm", "unlist"} => cmd[s].c \in Container
          /\ cmd[s].at \in {"commit", "record"} =>
               cmd[s].c \in Container /\ cmd[s].type \in Type /\ cmd[s].image \in Image
          /\ cmd[s].at \in {"retain", "forget"} =>
               /\ cmd[s].c \in Container /\ cmd[s].todo \subseteq Rotated
               /\ cmd[s].expired \subseteq Backup
          /\ cmd[s].at = "forget" => cmd[s].row \in Backup
          /\ cmd[s].at \in {"stop", "remove", "replace"} =>
               cmd[s].c \in Container /\ cmd[s].image \in Image
      BY <3>0, Fields
    <3>i. Idle \in {Idle} \cup Command
      OBVIOUS
    <3>1. CASE Run(s)
      <4>1. ASSUME NEW c \in Container
            PROVE  [at |-> "insert", user |-> cmd[s].user, c |-> c] \in {Idle} \cup Command
        BY <3>f, <3>i, <3>1 DEF Run, Create, Command
      <4>2. cmd' \in [Slot -> {Idle} \cup Command]
        BY <3>1, <4>1, <3>i, GotoType DEF Run, Unused
      <4>3. docker' \in [Container -> State]
        BY <3>1 DEF Run, Unused, State
      <4>4. UNCHANGED <<based, owner, images, backups, made, inserted, second>>
        BY <3>1 DEF Run
      <4>5. UNCHANGED <<commands, crashes>> /\ failures' \in Nat
        <5>1. Succeeds \/ Fails
          BY <3>1 DEF Run
        <5> QED
          BY <5>1
      <4> QED
        BY <4>2, <4>3, <4>4, <4>5
    <3>2. CASE Insert(s)
      <4>1. cmd[s].c \in Container /\ cmd[s].user \in User
        BY <3>f, <3>i, <3>2 DEF Insert
      <4>2. cmd' \in [Slot -> {Idle} \cup Command]
        BY <3>2, <3>i, GotoType DEF Insert
      <4>3. docker' \in [Container -> State]
        BY <3>2, <4>1 DEF Insert, State
      <4>4. owner' \in [Container -> User \cup {Nobody}]
        BY <3>2, <4>1 DEF Insert
      <4>5. UNCHANGED <<based, images, backups, made, inserted, second>> /\ failures' \in Nat
            /\ UNCHANGED <<commands, crashes>>
        BY <3>2 DEF Insert
      <4> QED
        BY <4>2, <4>3, <4>4, <4>5
    <3>3. CASE Rm(s)
      <4>1. cmd[s].c \in Container
        BY <3>f, <3>i, <3>3 DEF Rm
      <4>2. [at |-> "unlist", c |-> cmd[s].c] \in {Idle} \cup Command
        BY <4>1 DEF Delete, Command
      <4>3. cmd' \in [Slot -> {Idle} \cup Command]
        BY <3>3, <4>2, <3>i, GotoType DEF Rm
      <4>4. docker' \in [Container -> State]
        BY <3>3, <4>1 DEF Rm, State
      <4>5. UNCHANGED <<based, owner, images, backups, made, inserted, second>> /\ failures' \in Nat
            /\ UNCHANGED <<commands, crashes>>
        BY <3>3 DEF Rm
      <4> QED
        BY <4>3, <4>4, <4>5
    <3>4. CASE Unlist(s)
      <4>1. cmd' \in [Slot -> {Idle} \cup Command]
        BY <3>4, <3>i, GotoType DEF Unlist
      <4>2. owner' \in [Container -> User \cup {Nobody}]
        BY <3>f, <3>4 DEF Unlist
      <4>3. UNCHANGED <<docker, based, images, backups, made, inserted, second>> /\ failures' \in Nat
            /\ UNCHANGED <<commands, crashes>>
        BY <3>4 DEF Unlist
      <4> QED
        BY <4>1, <4>2, <4>3
    <3>5. CASE Commit(s)
      <4>1. cmd[s] \in MakeBackup
        BY <3>0, <3>5 DEF Command, Commit, Create, Delete, MakeBackup, Retention, Restore, Idle
      <4>2. [cmd[s] EXCEPT !.at = "record"] \in {Idle} \cup Command
        BY <4>1 DEF MakeBackup, Command
      <4>3. cmd' \in [Slot -> {Idle} \cup Command]
        BY <3>5, <4>2, <3>i, GotoType DEF Commit
      <4>4. Unnamed(cmd[s].image) \in Image
        BY <4>1 DEF MakeBackup, Unnamed, Image
      <4>a. cmd[s].image \in Image
        BY <4>1 DEF MakeBackup
      <4>b. Committed(cmd[s].image) \/ UNCHANGED <<images, based>>
        BY <3>5 DEF Commit
      <4>5. based' \in [Container -> SUBSET Image] /\ images' \subseteq Image
        BY <4>a, <4>b, <4>4 DEF Committed
      <4> QED
        BY <3>5, <4>3, <4>5 DEF Commit
    <3>6. CASE Record(s)
      <4>1. cmd[s].c \in Container /\ cmd[s].type \in Type /\ cmd[s].image \in Image
        BY <3>f, <3>6 DEF Record
      <4>2. cmd' \in [Slot -> {Idle} \cup Command]
        BY <3>6, <4>1, ContinueType, <3>i, GotoType DEF Record
      <4>3. NextRow(cmd[s]) \in Backup
        BY <4>1 DEF NextRow, Backup
      <4>4. backups' \subseteq Backup /\ inserted' \subseteq Backup
        BY <3>6, <4>3 DEF Record
      <4>5. made' \in [Container -> [Type -> Nat]]
        BY <3>6, <4>1 DEF Record
      <4>6. UNCHANGED <<docker, based, owner, images, second>> /\ failures' \in Nat
            /\ UNCHANGED <<commands, crashes>>
        BY <3>6 DEF Record
      <4> QED
        BY <4>2, <4>4, <4>5, <4>6
    <3>7. CASE Select(s)
      <4>1. cmd[s].c \in Container /\ cmd[s].todo \subseteq Rotated
        BY <3>f, <3>i, <3>7 DEF Select
      <4>2. ASSUME NEW t \in cmd[s].todo
            PROVE  Continue(cmd[s].c, cmd[s].todo \ {t}, Expired(cmd[s].c, t))
                     \in {Idle} \cup Command
        BY <4>1, ContinueType, ExpiredRows
      <4>3. cmd' \in [Slot -> {Idle} \cup Command]
        BY <3>7, <4>2, <3>i, GotoType DEF Select
      <4> QED
        BY <3>7, <4>3 DEF Select, store
    <3>8. CASE Rmi(s)
      <4>1. cmd[s].c \in Container /\ cmd[s].todo \subseteq Rotated /\ cmd[s].expired \subseteq Backup
        BY <3>f, <3>i, <3>8 DEF Rmi
      <4>2. ASSUME NEW b \in cmd[s].expired
            PROVE  /\ Continue(cmd[s].c, cmd[s].todo, cmd[s].expired \ {b}) \in {Idle} \cup Command
                   /\ [at |-> "forget", c |-> cmd[s].c, todo |-> cmd[s].todo,
                       expired |-> cmd[s].expired \ {b}, row |-> b] \in {Idle} \cup Command
        <5>1. Continue(cmd[s].c, cmd[s].todo, cmd[s].expired \ {b}) \in {Idle} \cup Command
          BY <4>1, ContinueType
        <5>2. [at |-> "forget", c |-> cmd[s].c, todo |-> cmd[s].todo,
               expired |-> cmd[s].expired \ {b}, row |-> b] \in {Idle} \cup Command
          BY <4>1 DEF Retention, Command
        <5> QED
          BY <5>1, <5>2
      <4>3. cmd' \in [Slot -> {Idle} \cup Command]
        BY <3>8, <4>2, <3>i, GotoType DEF Rmi
      <4>4. images' \subseteq images
        BY <3>8 DEF Rmi
      <4> QED
        BY <3>8, <4>3, <4>4 DEF Rmi
    <3>9. CASE Forget(s)
      <4>1. cmd[s].c \in Container /\ cmd[s].todo \subseteq Rotated /\ cmd[s].expired \subseteq Backup
        BY <3>f, <3>i, <3>9 DEF Forget
      <4>2. cmd' \in [Slot -> {Idle} \cup Command]
        BY <3>9, <4>1, ContinueType, <3>i, GotoType DEF Forget
      <4>3. backups' \subseteq backups
        BY <3>9 DEF Forget
      <4> QED
        BY <3>9, <4>2, <4>3 DEF Forget
    <3>10. CASE Stop(s) \/ Remove(s)
      <4>1. cmd[s] \in Restore
        BY <3>0, <3>10 DEF Command, Stop, Remove, Create, Delete, MakeBackup, Retention, Restore, Idle
      <4>2. /\ [cmd[s] EXCEPT !.at = "remove"] \in {Idle} \cup Command
            /\ [cmd[s] EXCEPT !.at = "replace"] \in {Idle} \cup Command
        BY <4>1 DEF Restore, Command
      <4>3. cmd' \in [Slot -> {Idle} \cup Command]
        BY <3>10, <4>2, <3>i, GotoType DEF Stop, Remove
      <4>4. docker' \in [Container -> State]
        BY <3>10 DEF Stop, Remove, State
      <4> QED
        BY <3>10, <4>3, <4>4 DEF Stop, Remove
    <3>11. CASE Replace(s)
      <4>1. cmd[s].c \in Container /\ cmd[s].image \in Image
        BY <3>f, <3>i, <3>11 DEF Replace
      <4>2. cmd' \in [Slot -> {Idle} \cup Command]
        BY <3>11, <3>i, GotoType DEF Replace
      <4>3. based' \in [Container -> SUBSET Image]
        BY <3>11, <4>1 DEF Replace
      <4>4. docker' \in [Container -> State]
        BY <3>11, <4>1 DEF Replace, State
      <4> QED
        BY <3>11, <4>2, <4>3, <4>4 DEF Replace
    <3> QED
      BY <2>s, <3>1, <3>2, <3>3, <3>4, <3>5, <3>6, <3>7, <3>8, <3>9, <3>10, <3>11 DEF Step
  <2> QED
    BY <2>u, <2>c, <2>p, <2>b, <2>s DEF Next
<1> QED
  BY <1>1, <1>2, PTL DEF Spec

-----------------------------------------------------------------------------
(***************************************************************************)
(* The newest backups.  A command holds the rows its retention means to    *)
(* remove, and they are past; an image that is missed is that of a row     *)
(* that is past.                                                           *)
(***************************************************************************)
Held(k) ==
    CASE k.at = "retain" -> k.expired
      [] k.at = "forget" -> k.expired \cup {k.row}
      [] OTHER -> {}

\* The rows of the table were inserted, and numbered in their order.
Counted == backups \subseteq inserted /\ \A b \in inserted : b.n <= made[b.c][b.type]

\* What is held was inserted and is past.
OnlyPast == \A s \in Slot : \A b \in Held(cmd[s]) : b \in inserted /\ Past(b)

\* An image that may have been removed, and one that is committed for a row.
Expirable(i) == \E d \in inserted : Past(d) /\ d.image = i
Recorded ==
    \A s \in Slot : cmd[s].at = "record" => cmd[s].image \in images \/ Expirable(cmd[s].image)

IInv == TypeOK /\ Counted /\ OnlyPast /\ Recorded /\ NewestBackupsKept

\* What a command holds are rows.
LEMMA HeldType ==
  ASSUME NEW k \in {Idle} \cup Command
  PROVE  Held(k) \subseteq Backup
BY Fields DEF Held

\* A step that inserts no row: it keeps the invariant if what it removes, or
\* means to remove, is past, and it inserts no row next without an image.
LEMMA Quiet ==
  ASSUME IInv, TypeOK', made' = made, inserted' = inserted, backups' \subseteq backups,
         \A b \in backups \ backups' : Past(b),
         \A i \in images \ images' : Expirable(i),
         \A s \in Slot : \A b \in Held(cmd[s])' : b \in inserted /\ Past(b),
         \A s \in Slot : cmd'[s].at = "record" =>
            \/ cmd[s].at = "record" /\ cmd'[s].image = cmd[s].image
            \/ cmd'[s].image \in images'
  PROVE  IInv'
<1> USE DEF IInv
<1>1. \A b : Past(b)' = Past(b)
  BY DEF Past
<1>2. \A i : Expirable(i)' = Expirable(i)
  BY <1>1 DEF Expirable
<1>3. Counted'
  BY DEF Counted
<1>4. OnlyPast'
  BY <1>1 DEF OnlyPast
<1>5. Recorded'
  BY <1>2 DEF Recorded
<1>6. NewestBackupsKept'
  <2> SUFFICES ASSUME NEW c \in Container, NEW t \in Rotated, NEW n \in 1..made[c][t],
                      n + BACKUP_RETENTION[t] > made[c][t]
               PROVE  \E b \in backups' : /\ b.c = c /\ b.type = t /\ b.n = n
                                          /\ b.image \in images' \/ Expirable(b.image)
    BY <1>2 DEF NewestBackupsKept, Expirable
  <2>1. PICK b \in backups : /\ b.c = c /\ b.type = t /\ b.n = n
                             /\ b.image \in images \/ Expirable(b.image)
    BY DEF NewestBackupsKept, Expirable
  <2>2. made[c][t] \in Nat /\ BACKUP_RETENTION[t] \in Nat /\ n \in Nat
    BY DiscordVpsAssumption DEF TypeOK
  <2>3. ~Past(b)
    BY <2>1, <2>2 DEF Past
  <2> QED
    BY <2>1, <2>3
<1> QED
  BY <1>3, <1>4, <1>5, <1>6

\* Such a step of one command.
LEMMA QuietCommand ==
  ASSUME IInv, TypeOK', made' = made, inserted' = inserted, backups' \subseteq backups,
         NEW s \in Slot, NEW next, Goto(s, next),
         \A b \in backups \ backups' : Past(b),
         \A i \in images \ images' : Expirable(i),
         \A b \in Held(next) : b \in inserted /\ Past(b),
         next.at = "record" => next.image \in images'
  PROVE  IInv'
<1>1. /\ cmd'[s] = next
      /\ \A x \in Slot \ {s} : cmd'[x] = cmd[x]
  BY DEF Goto, IInv, TypeOK
<1>2. \A x \in Slot : \A b \in Held(cmd[x])' : b \in inserted /\ Past(b)
  <2> SUFFICES ASSUME NEW x \in Slot, NEW b \in Held(cmd'[x]) PROVE b \in inserted /\ Past(b)
    BY DEF Held
  <2>1. CASE x = s
    BY <1>1, <2>1
  <2>2. CASE x # s
    BY <1>1, <2>2 DEF IInv, OnlyPast
  <2> QED
    BY <2>1, <2>2
<1>3. \A x \in Slot : cmd'[x].at = "record" =>
         \/ cmd[x].at = "record" /\ cmd'[x].image = cmd[x].image
         \/ cmd'[x].image \in images'
  <2> SUFFICES ASSUME NEW x \in Slot, cmd'[x].at = "record"
               PROVE  \/ cmd[x].at = "record" /\ cmd'[x].image = cmd[x].image
                      \/ cmd'[x].image \in images'
    OBVIOUS
  <2>1. CASE x = s
    BY <1>1, <2>1
  <2>2. CASE x # s
    BY <1>1, <2>2
  <2> QED
    BY <2>1, <2>2
<1> QED
  BY <1>2, <1>3, Quiet

-----------------------------------------------------------------------------
\* What a retention finds expired is past.
LEMMA ExpiredPast ==
  ASSUME TypeOK, Counted, NEW c \in Container, NEW t \in Rotated, NEW b \in Expired(c, t)
  PROVE  Past(b)
<1> DEFINE younger == {n \in Places(c, t) : n > b.n}
           m == made[c][t]
<1>1. b \in backups /\ b.c = c /\ b.type = t /\ Cardinality(younger) >= BACKUP_RETENTION[t]
  BY DEF Expired
<1>2. t \in Type /\ BACKUP_RETENTION[t] \in Nat /\ m \in Nat /\ b.n \in Nat
  BY <1>1, DiscordVpsAssumption DEF TypeOK, Backup
<1>3. younger \subseteq (b.n + 1)..m
  <2>1. ASSUME NEW n \in younger PROVE n \in (b.n + 1)..m
    <3>1. n > b.n /\ \E d \in backups : d.c = c /\ d.type = t /\ d.n = n
      BY DEF Places
    <3>2. n \in Nat /\ n <= m
      BY <3>1 DEF Counted, TypeOK, Backup
    <3> QED
      BY <1>2, <3>1, <3>2
  <2> HIDE DEF younger
  <2> QED
    BY <2>1
<1>4. /\ IsFiniteSet((b.n + 1)..m)
      /\ Cardinality((b.n + 1)..m) = IF b.n + 1 > m THEN 0 ELSE m - (b.n + 1) + 1
  <2>1. b.n + 1 \in Int /\ m \in Int
    BY <1>2
  <2> HIDE DEF m
  <2> QED
    BY ONLY <2>1, FS_Interval
<1>5. Cardinality(younger) <= Cardinality((b.n + 1)..m) /\ Cardinality(younger) \in Nat
  BY <1>3, <1>4, FS_Subset, FS_CardinalityType
<1> HIDE DEF younger, m
<1>6. b.n <= m
  BY <1>1 DEF Counted, m
<1>7. b.n + BACKUP_RETENTION[t] <= m
  BY <1>1, <1>2, <1>4, <1>5, <1>6
<1> QED
  BY <1>1, <1>7 DEF Past, m

\* What a command goes on with.
LEMMA HeldNext ==
  ASSUME NEW c, NEW todo, NEW expired
  PROVE  /\ Held(Continue(c, todo, expired)) \subseteq expired
         /\ Continue(c, todo, expired).at \notin {"commit", "record"}
BY DEF Continue, Held, Idle

\* No command, no rows.
LEMMA HeldIdle == Held(Idle) = {} /\ Idle.at = "idle"
BY DEF Held, Idle

\* A row that is inserted is the newest of its type, and new.
LEMMA NewRow ==
  ASSUME TypeOK, Counted, NEW s \in Slot, cmd[s].at = "record"
  PROVE  /\ NextRow(cmd[s]).c = cmd[s].c /\ NextRow(cmd[s]).type = cmd[s].type
         /\ NextRow(cmd[s]).image = cmd[s].image
         /\ NextRow(cmd[s]).n = made[cmd[s].c][cmd[s].type] + 1
         /\ NextRow(cmd[s]) \notin inserted
<1> DEFINE row == NextRow(cmd[s])
<1>1. /\ row.c = cmd[s].c /\ row.type = cmd[s].type /\ row.image = cmd[s].image
      /\ row.n = made[cmd[s].c][cmd[s].type] + 1
  BY DEF NextRow
<1>2. made[cmd[s].c][cmd[s].type] \in Nat
  BY Fields DEF TypeOK
<1> HIDE DEF row
<1>3. row \notin inserted
  BY <1>1, <1>2 DEF Counted
<1> QED
  BY <1>1, <1>3 DEF row

\* When it is inserted, what was past stays past.
LEMMA RecordKeeps ==
  ASSUME IInv, TypeOK', NEW s \in Slot, Record(s), made' # made
  PROVE  IInv'
<1> USE DEF IInv
<1> DEFINE c == cmd[s].c
           t == cmd[s].type
           row == NextRow(cmd[s])
<1>1. /\ cmd[s].at = "record"
      /\ backups' = backups \cup {row} /\ inserted' = inserted \cup {row}
      /\ made' = [made EXCEPT ![c][t] = @ + 1]
      /\ Goto(s, Continue(c, Rotated, {})) /\ UNCHANGED images
  BY DEF Record
<1>2. c \in Container /\ t \in Type
  BY <1>1, Fields DEF TypeOK
<1>3. row.c = c /\ row.type = t /\ row.n = made[c][t] + 1 /\ row.image = cmd[s].image
  BY DEF NextRow
<1> HIDE DEF c, t, row
<1>4. /\ \A x \in Slot \ {s} : cmd'[x] = cmd[x]
      /\ Held(cmd'[s]) = {} /\ cmd'[s].at \notin {"commit", "record"}
  BY <1>1, HeldNext DEF Goto, TypeOK
<1>5. \A x \in Slot \ {s} : Held(cmd[x])' = Held(cmd[x])
  BY <1>4 DEF Held
<1>6. Held(cmd[s])' = {}
  BY <1>4 DEF Held
<1>7. /\ made \in [Container -> [Type -> Nat]] /\ made'[c][t] = made[c][t] + 1
      /\ \A d \in Container, k \in Type :
           /\ made[d][k] \in Nat /\ made'[d][k] \in Nat /\ made[d][k] <= made'[d][k]
           /\ d # c \/ k # t => made'[d][k] = made[d][k]
  BY <1>1, <1>2 DEF TypeOK
<1>8. \A b \in inserted : b.c \in Container /\ b.type \in Type /\ b.n \in Nat
  BY DEF TypeOK, Backup
<1>9. ASSUME NEW b \in inserted, Past(b) PROVE Past(b)'
  <2>1. BACKUP_RETENTION[b.type] \in Nat
    BY <1>9, DiscordVpsAssumption DEF Past
  <2> QED
    BY <1>7, <1>8, <1>9, <2>1 DEF Past
<1>10. \A i : Expirable(i) => Expirable(i)'
  BY <1>1, <1>9 DEF Expirable
<1>11. Counted'
  <2>1. \A b \in inserted : b.n <= made'[b.c][b.type]
    BY <1>7, <1>8 DEF Counted
  <2>2. row.n <= made'[row.c][row.type]
    BY <1>2, <1>3, <1>7
  <2> QED
    BY <1>1, <2>1, <2>2 DEF Counted
<1>12. OnlyPast'
  BY <1>1, <1>5, <1>6, <1>9 DEF OnlyPast
<1>13. Recorded'
  BY <1>1, <1>4, <1>10 DEF Recorded
<1>14. NewestBackupsKept'
  <2> SUFFICES ASSUME NEW d \in Container, NEW k \in Rotated, NEW n \in 1..made'[d][k],
                      n + BACKUP_RETENTION[k] > made'[d][k]
               PROVE  \E b \in backups' : /\ b.c = d /\ b.type = k /\ b.n = n
                                          /\ b.image \in images' \/ Expirable(b.image)'
    BY DEF NewestBackupsKept, Expirable
  <2>1. k \in Type /\ BACKUP_RETENTION[k] \in Nat /\ n \in Nat
    BY <1>7, DiscordVpsAssumption
  <2>2. CASE n <= made[d][k]
    <3>1. n \in 1..made[d][k] /\ n + BACKUP_RETENTION[k] > made[d][k]
      BY <1>7, <2>1, <2>2
    <3>2. \E b \in backups : /\ b.c = d /\ b.type = k /\ b.n = n
                             /\ b.image \in images \/ Expirable(b.image)
      BY <3>1 DEF NewestBackupsKept, Expirable
    <3> QED
      BY <1>1, <1>10, <3>2
  <2>3. CASE n > made[d][k]
    <3>1. d = c /\ k = t /\ n = made[c][t] + 1
      <4>1. made[d][k] \in Nat /\ made'[d][k] \in Nat /\ n <= made'[d][k]
        BY <1>7, <2>1
      <4>2. made'[d][k] # made[d][k]
        BY <2>1, <2>3, <4>1
      <4>3. d = c /\ k = t
        BY <1>7, <2>1, <4>2
      <4>4. made'[c][t] = made[c][t] + 1
        BY <1>7
      <4> HIDE DEF IInv
      <4> QED
        BY <2>1, <2>3, <4>1, <4>3, <4>4
    <3>2. ASSUME NEW i, i = row.image PROVE i \in images' \/ Expirable(i)'
      BY <1>1, <1>3, <1>10, <3>2 DEF Recorded
    <3>3. PICK b \in backups' : b = row
      BY <1>1
    <3>4. b.image \in images' \/ Expirable(b.image)'
      BY <3>2, <3>3
    <3> QED
      BY <1>3, <3>1, <3>3, <3>4
  <2> QED
    BY <1>7, <2>1, <2>2, <2>3
<1> QED
  BY <1>11, <1>12, <1>13, <1>14

\* Every step keeps the invariant.
LEMMA StepKeeps ==
  ASSUME IInv, TypeOK', NEW s \in Slot, Step(s)
  PROVE  IInv'
<1> USE DEF IInv
<1>t. cmd[s] \in {Idle} \cup Command
  BY DEF TypeOK
<1>i. Held(Idle) = {} /\ Idle.at # "record"
  BY HeldIdle
<1>1. CASE Run(s)
  <2>1. PICK next : /\ Goto(s, next) /\ Held(next) = {} /\ next.at \notin {"commit", "record"}
                    /\ UNCHANGED <<images, backups, made, inserted>>
    <3>1. \A c : Held([at |-> "insert", user |-> cmd[s].user, c |-> c]) = {}
      BY DEF Held
    <3> QED
      BY <1>1, <3>1, HeldIdle DEF Run
  <2> QED
    BY <2>1, QuietCommand
<1>2. CASE Insert(s) \/ Unlist(s) \/ Replace(s)
  <2>1. Goto(s, Idle) /\ UNCHANGED <<images, backups, made, inserted>>
    BY <1>2 DEF Insert, Unlist, Replace
  <2> QED
    BY <1>i, <2>1, QuietCommand
<1>3. CASE Rm(s)
  <2>1. PICK next : /\ Goto(s, next) /\ Held(next) = {} /\ next.at \notin {"commit", "record"}
                    /\ UNCHANGED <<images, backups, made, inserted>>
    <3>1. Held([at |-> "unlist", c |-> cmd[s].c]) = {}
      BY DEF Held
    <3> QED
      BY <1>3, <3>1, HeldIdle DEF Rm
  <2> QED
    BY <2>1, QuietCommand
<1>4. CASE Commit(s)
  <2> DEFINE next == [cmd[s] EXCEPT !.at = "record"]
  <2>1. UNCHANGED <<backups, made, inserted>> /\ images \subseteq images'
    BY <1>4 DEF Commit, Committed
  <2>2. CASE Goto(s, Idle)
    BY <1>i, <2>1, <2>2, QuietCommand
  <2>3. CASE Goto(s, next) /\ cmd[s].image \in images'
    <3>1. cmd[s] \in MakeBackup
      BY <1>t, <1>4 DEF Commit, Command, Create, Delete, MakeBackup, Retention, Restore, Idle
    <3>2. next.at = "record" /\ next.image = cmd[s].image
      BY <3>1 DEF MakeBackup
    <3>3. Held(next) = {}
      BY <3>2 DEF Held
    <3> HIDE DEF next
    <3> QED
      BY <2>1, <2>3, <3>2, <3>3, QuietCommand
  <2> QED
    BY <1>4, <2>2, <2>3 DEF Commit, Committed
<1>5. CASE Record(s)
  <2>1. CASE made' # made
    BY <1>5, <2>1, RecordKeeps
  <2>2. CASE made' = made
    <3> DEFINE next == Continue(cmd[s].c, Rotated, {})
    <3>1. Goto(s, next) /\ UNCHANGED images /\ cmd[s].at = "record"
      BY <1>5 DEF Record
    <3>2. UNCHANGED <<backups, inserted>>
      <4>1. cmd[s].c \in Container /\ cmd[s].type \in Type
        BY <1>t, <3>1, Fields
      <4>2. made # [made EXCEPT ![cmd[s].c][cmd[s].type] = @ + 1]
        BY <4>1 DEF TypeOK
      <4> QED
        BY <1>5, <2>2, <4>2 DEF Record
    <3>3. Held(next) \subseteq {} /\ next.at \notin {"commit", "record"}
      BY HeldNext
    <3> HIDE DEF next
    <3> QED
      BY <2>2, <3>1, <3>2, <3>3, QuietCommand
  <2> QED
    BY <2>1, <2>2
<1>6. CASE Select(s)
  <2>1. UNCHANGED <<images, backups, made, inserted>> /\ cmd[s].at = "retain"
    BY <1>6 DEF Select, store
  <2>2. CASE Goto(s, Idle)
    BY <1>i, <2>1, <2>2, QuietCommand
  <2>3. ASSUME NEW t \in cmd[s].todo,
               Goto(s, Continue(cmd[s].c, cmd[s].todo \ {t}, Expired(cmd[s].c, t)))
        PROVE  IInv'
    <3> DEFINE next == Continue(cmd[s].c, cmd[s].todo \ {t}, Expired(cmd[s].c, t))
    <3>1. cmd[s].c \in Container /\ t \in Rotated
      BY <1>t, <2>1, Fields
    <3>2. \A b \in Expired(cmd[s].c, t) : b \in inserted /\ Past(b)
      BY <3>1, ExpiredPast, ExpiredRows DEF Counted
    <3>3. Held(next) \subseteq Expired(cmd[s].c, t) /\ next.at \notin {"commit", "record"}
      BY HeldNext
    <3> HIDE DEF next
    <3>4. Goto(s, next)
      BY <2>3 DEF next
    <3> QED
      BY <2>1, <3>2, <3>3, <3>4, QuietCommand
  <2> QED
    BY <1>6, <2>2, <2>3 DEF Select
<1>7. CASE Rmi(s)
  <2>1. UNCHANGED <<backups, made, inserted>> /\ cmd[s].at = "retain"
    BY <1>7 DEF Rmi
  <2>2. Held(cmd[s]) = cmd[s].expired /\ \A b \in cmd[s].expired : b \in inserted /\ Past(b)
    BY <2>1 DEF Held, OnlyPast
  <2>3. PICK b \in cmd[s].expired :
          /\ images' = images \/ images' = images \ {b.image}
          /\ \/ Goto(s, [at |-> "forget", c |-> cmd[s].c, todo |-> cmd[s].todo,
                         expired |-> cmd[s].expired \ {b}, row |-> b])
             \/ Goto(s, Continue(cmd[s].c, cmd[s].todo, cmd[s].expired \ {b}))
    BY <1>7 DEF Rmi
  <2>4. \A i \in images \ images' : Expirable(i)
    BY <2>2, <2>3 DEF Expirable
  <2>5. PICK next : /\ Goto(s, next) /\ Held(next) \subseteq cmd[s].expired
                    /\ next.at \notin {"commit", "record"}
    <3> DEFINE forget == [at |-> "forget", c |-> cmd[s].c, todo |-> cmd[s].todo,
                          expired |-> cmd[s].expired \ {b}, row |-> b]
    <3>1. Held(forget) \subseteq cmd[s].expired /\ forget.at = "forget"
      BY DEF Held
    <3> HIDE DEF forget
    <3>2. Goto(s, forget) \/ Goto(s, Continue(cmd[s].c, cmd[s].todo, cmd[s].expired \ {b}))
      BY <2>3 DEF forget
    <3> QED
      BY <3>1, <3>2, HeldNext
  <2> QED
    BY <2>1, <2>2, <2>4, <2>5, QuietCommand
<1>8. CASE Forget(s)
  <2>1. UNCHANGED <<images, made, inserted>> /\ cmd[s].at = "forget"
        /\ (backups' = backups \/ backups' = backups \ {cmd[s].row})
    BY <1>8 DEF Forget
  <2>2. Held(cmd[s]) = cmd[s].expired \cup {cmd[s].row}
        /\ \A b \in Held(cmd[s]) : b \in inserted /\ Past(b)
    BY <2>1 DEF Held, OnlyPast
  <2>3. PICK next : /\ Goto(s, next) /\ Held(next) \subseteq cmd[s].expired
                    /\ next.at \notin {"commit", "record"}
    BY <1>8, HeldIdle, HeldNext DEF Forget
  <2> QED
    BY <2>1, <2>2, <2>3, QuietCommand
<1>9. CASE Stop(s) \/ Remove(s)
  <2>1. UNCHANGED <<images, backups, made, inserted>> /\ cmd[s].at \in {"stop", "remove"}
    BY <1>9 DEF Stop, Remove
  <2>2. PICK at \in {"remove", "replace"} : Goto(s, [cmd[s] EXCEPT !.at = at])
    BY <1>9 DEF Stop, Remove
  <2>3. cmd[s] \in Restore
    BY <1>t, <2>1 DEF Command, Create, Delete, MakeBackup, Retention, Restore, Idle
  <2> DEFINE next == [cmd[s] EXCEPT !.at = at]
  <2>4. next.at = at
    BY <2>3 DEF Restore
  <2>5. Held(next) = {}
    BY <2>2, <2>4 DEF Held
  <2> HIDE DEF next
  <2>6. Goto(s, next)
    BY <2>2 DEF next
  <2> QED
    BY <2>1, <2>2, <2>4, <2>5, <2>6, QuietCommand
<1> QED
  BY <1>1, <1>2, <1>3, <1>4, <1>5, <1>6, <1>7, <1>8, <1>9 DEF Step

\* What the beginning of a command changes.
LEMMA BeginGoes ==
  ASSUME NEW s \in Slot, Begins(s)
  PROVE  /\ cmd[s] = Idle /\ UNCHANGED <<images, backups, made, inserted>>
         /\ \E next : Goto(s, next) /\ next.at \in {"run", "rm", "stop", "commit"}
<1>1. cmd[s] = Idle /\ UNCHANGED <<images, backups, made, inserted>>
  BY DEF Begins, createVps, deleteVps, createBackup, restoreBackup, Begin, store
<1>2. \E next : Goto(s, next) /\ next.at \in {"run", "rm", "stop", "commit"}
  <2>1. ASSUME NEW u \in User, createVps(s, u)
        PROVE  \E next : Goto(s, next) /\ next.at \in {"run", "rm", "stop", "commit"}
    BY <2>1 DEF createVps
  <2>2. ASSUME NEW u \in User, NEW c \in Container, deleteVps(s, u, c) \/ restoreBackup(s, u, c)
        PROVE  \E next : Goto(s, next) /\ next.at \in {"run", "rm", "stop", "commit"}
    <3>1. CASE deleteVps(s, u, c)
      BY <3>1 DEF deleteVps
    <3>2. CASE restoreBackup(s, u, c)
      <4>1. PICK b : Goto(s, [at |-> "stop", c |-> c, image |-> b.image])
        BY <3>2 DEF restoreBackup
      <4> DEFINE next == [at |-> "stop", c |-> c, image |-> b.image]
      <4>2. next.at = "stop"
        OBVIOUS
      <4> HIDE DEF next
      <4>3. Goto(s, next)
        BY <4>1 DEF next
      <4> QED
        BY <4>2, <4>3
    <3> QED
      BY <2>2, <3>1, <3>2
  <2>3. ASSUME NEW c \in Container, NEW t \in Type, createBackup(s, c, t)
        PROVE  \E next : Goto(s, next) /\ next.at \in {"run", "rm", "stop", "commit"}
    <3>1. PICK w : Goto(s, [at |-> "commit", c |-> c, type |-> t, image |-> [c |-> c, second |-> w]])
      BY <2>3 DEF createBackup
    <3> DEFINE next == [at |-> "commit", c |-> c, type |-> t, image |-> [c |-> c, second |-> w]]
    <3>2. next.at = "commit"
      OBVIOUS
    <3> HIDE DEF next
    <3>3. Goto(s, next)
      BY <3>1 DEF next
    <3> QED
      BY <3>2, <3>3
  <2> QED
    BY <2>1, <2>2, <2>3 DEF Begins
<1> QED
  BY <1>1, <1>2

\* It keeps the invariant.
LEMMA BeginKeeps ==
  ASSUME IInv, TypeOK', NEW s \in Slot, Begins(s)
  PROVE  IInv'
<1>1. PICK next : Goto(s, next) /\ next.at \in {"run", "rm", "stop", "commit"}
  BY BeginGoes
<1>2. Held(next) = {}
  BY <1>1 DEF Held
<1> QED
  BY <1>1, <1>2, BeginGoes, QuietCommand

\* At first there are no backups.
LEMMA InitKeeps == ASSUME Init PROVE IInv
<1>1. TypeOK
  BY DEF Init, TypeOK, State
<1>2. \A s \in Slot : cmd[s].at = "idle" /\ Held(cmd[s]) = {}
  BY HeldIdle DEF Init
<1>3. Counted /\ OnlyPast /\ Recorded
  BY <1>2 DEF Init, Counted, OnlyPast, Recorded
<1>4. NewestBackupsKept
  <2>1. \A c \in Container, t \in Rotated : made[c][t] = 0
    BY DiscordVpsAssumption DEF Init
  <2> QED
    BY <2>1 DEF NewestBackupsKept
<1> QED
  BY <1>1, <1>3, <1>4 DEF IInv

LEMMA NextKeeps ==
  ASSUME IInv, TypeOK', [Next]_vars
  PROVE  IInv'
<1>1. CASE UNCHANGED <<images, backups, made, inserted, cmd>>
  <2>1. \A s \in Slot : \A b \in Held(cmd[s])' : b \in inserted /\ Past(b)
    BY <1>1 DEF IInv, OnlyPast, Held
  <2> QED
    BY <1>1, <2>1, Quiet
<1>2. CASE Crash
  <2>1. UNCHANGED <<images, backups, made, inserted>> /\ \A s \in Slot : cmd'[s] = Idle
    BY <1>2 DEF Crash, store
  <2>2. \A s \in Slot : Held(cmd[s])' = {} /\ cmd'[s].at # "record"
    BY <2>1, HeldIdle DEF Held
  <2> QED
    BY <2>1, <2>2, Quiet
<1>3. ASSUME NEW s \in Slot, Begins(s) \/ Step(s) PROVE IInv'
  BY <1>3, BeginKeeps, StepKeeps
<1> QED
  BY <1>1, <1>2, <1>3 DEF Next, Power, vars, store

\* The newest backups of every type, as many as are to be kept, stay listed, and
\* each that misses its image shares the name of the image with a backup that is
\* no longer one of those, whatever commands, retentions, failures and restarts
\* interleave and whichever backups are made in one second.
THEOREM NewestKept == Spec => []NewestBackupsKept
<1>1. IInv => NewestBackupsKept
  BY DEF IInv
<1> QED
  BY <1>1, InitKeeps, NextKeeps, VpsTypeCorrect, PTL DEF Spec

-----------------------------------------------------------------------------
(***************************************************************************)
(* What is listed when all is quiet and nothing failed.  An image is gone  *)
(* when it went with a row that is deleted, or is about to be.  Only such  *)
(* images are missing, and a row that expired is held by a retention, or   *)
(* its type is still to be looked at by one, or its image is gone.         *)
(***************************************************************************)
Faultless == failures = 0 /\ crashes = 0
Unrestored == \A c \in Container : based[c] = {}

Numbered == \A a, b \in backups : a.c = b.c /\ a.type = b.type /\ a.n = b.n => a = b

Forgets(k, i) == k.at = "forget" /\ k.row.image = i
Dropped(i) == \E d \in inserted \ backups : d.image = i
Gone(i) == Dropped(i) \/ \E s \in Slot : Forgets(cmd[s], i)
Wanted(i) ==
    \/ \E b \in backups : b.image = i
    \/ \E s \in Slot : cmd[s].at = "record" /\ cmd[s].image = i
Listed == Faultless => \A i : Wanted(i) => i \in images \/ Gone(i)

Covers(k, b) ==
    \/ b \in Held(k)
    \/ k.at \in {"retain", "forget"} /\ k.c = b.c /\ b.type \in k.todo
ExpiredCovered ==
    \A c \in Container, t \in Rotated : \A b \in Expired(c, t) :
        Gone(b.image) \/ \E s \in Slot : Covers(cmd[s], b)
Swept == Faultless /\ Unrestored => ExpiredCovered

ListInv == IInv /\ Numbered /\ Listed /\ Swept

\* Nothing becomes faultless or unrestored again.
LEMMA FaultsStay ==
  ASSUME TypeOK, [Next]_vars
  PROVE  (Faultless' => Faultless) /\ (Unrestored' => Unrestored)
<1>1. Faultless' => Faultless
  <2>1. failures' \in {failures, failures + 1} /\ crashes' \in {crashes, crashes + 1}
    BY DEF Next, Begins, Step, createVps, deleteVps, createBackup, restoreBackup, Begin, Run, Insert,
           Rm, Unlist, Commit, Record, Select, Rmi, Forget, Stop, Remove, Replace, Power, Crash,
           Succeeds, Fails, vars
  <2> QED
    BY <2>1 DEF Faultless, TypeOK
<1>2. ASSUME NEW s \in Slot, Replace(s), Unrestored' PROVE Unrestored
  <2>1. based' = based \/ based' = [based EXCEPT ![cmd[s].c] = {cmd[s].image}]
        \/ based' = [based EXCEPT ![cmd[s].c] = @ \cup {cmd[s].image}]
    BY <1>2 DEF Replace
  <2> QED
    BY <1>2, <2>1 DEF Unrestored, TypeOK
<1>3. ASSUME NEW s \in Slot, Commit(s), Unrestored' PROVE Unrestored
  <2>1. Committed(cmd[s].image) \/ based' = based
    BY <1>3 DEF Commit
  <2>2. ASSUME NEW c \in Container, based[c] # {} PROVE based'[c] # {}
    BY <2>1, <2>2 DEF Committed
  <2> QED
    BY <1>3, <2>2 DEF Unrestored
<1>4. CASE ~\E s \in Slot : Replace(s) \/ Commit(s)
  <2>1. based' = based
    BY <1>4 DEF Next, Begins, Step, createVps, deleteVps, createBackup, restoreBackup, Begin, Run,
                Insert, Rm, Unlist, Record, Select, Rmi, Forget, Stop, Remove, Power, Crash,
                vars, store
  <2> QED
    BY <1>1, <2>1 DEF Unrestored
<1> QED
  BY <1>1, <1>2, <1>3, <1>4

\* A call of a faultless process has succeeded.
LEMMA Succeeded == ASSUME TypeOK, Fails PROVE ~Faultless'
BY DEF Fails, Faultless, TypeOK

\* What a step may do to the table: nothing, insert a new row, or delete one that
\* a command holds; what was inserted stays known.
LEMMA TableNext ==
  ASSUME TypeOK, Counted, [Next]_vars
  PROVE  \/ UNCHANGED <<backups, inserted>>
         \/ \E s \in Slot : /\ cmd[s].at = "record" /\ NextRow(cmd[s]) \notin inserted
                            /\ backups' = backups \cup {NextRow(cmd[s])}
                            /\ inserted' = inserted \cup {NextRow(cmd[s])}
         \/ \E s \in Slot : /\ cmd[s].at = "forget" /\ inserted' = inserted
                            /\ backups' = backups \ {cmd[s].row}
<1>1. ASSUME NEW s \in Slot, Record(s)
      PROVE  \/ UNCHANGED <<backups, inserted>>
             \/ /\ cmd[s].at = "record" /\ NextRow(cmd[s]) \notin inserted
                /\ backups' = backups \cup {NextRow(cmd[s])}
                /\ inserted' = inserted \cup {NextRow(cmd[s])}
  BY <1>1, NewRow DEF Record
<1>2. ASSUME NEW s \in Slot, Forget(s)
      PROVE  /\ cmd[s].at = "forget" /\ inserted' = inserted
             /\ backups' = backups \/ backups' = backups \ {cmd[s].row}
  BY <1>2 DEF Forget
<1>3. CASE ~\E s \in Slot : Record(s) \/ Forget(s)
  BY <1>3 DEF Next, Begins, Step, createVps, deleteVps, createBackup, restoreBackup, Begin, Run,
              Insert, Rm, Unlist, Commit, Select, Rmi, Stop, Remove, Replace, Power, Crash, vars, store
<1> QED
  BY <1>1, <1>2, <1>3

\* An image that went with a deleted row stays gone: rows do not come back.
LEMMA DroppedStays ==
  ASSUME TypeOK, Counted, [Next]_vars, NEW i, Dropped(i)
  PROVE  Dropped(i)'
BY TableNext DEF Dropped

\* Numbers are given once.
LEMMA NumberedNext ==
  ASSUME IInv, Numbered, [Next]_vars
  PROVE  Numbered'
<1>1. CASE backups' \subseteq backups
  BY <1>1 DEF Numbered
<1>2. ASSUME NEW s \in Slot, cmd[s].at = "record", backups' = backups \cup {NextRow(cmd[s])}
      PROVE  Numbered'
  <2> DEFINE row == NextRow(cmd[s])
  <2>1. row.c = cmd[s].c /\ row.type = cmd[s].type /\ row.n = made[cmd[s].c][cmd[s].type] + 1
    BY DEF NextRow
  <2>2. cmd[s] \in {Idle} \cup Command
    BY DEF IInv, TypeOK
  <2>3. made[cmd[s].c][cmd[s].type] \in Nat
    BY <1>2, <2>2, Fields DEF IInv, TypeOK
  <2>4. \A b \in backups : b.n \in Nat /\ b.n <= made[b.c][b.type]
    BY DEF IInv, Counted, TypeOK, Backup
  <2> HIDE DEF row
  <2>5. \A b \in backups : b.c = row.c /\ b.type = row.type => b.n # row.n
    BY <2>1, <2>3, <2>4
  <2>6. backups' = backups \cup {row}
    BY <1>2 DEF row
  <2> QED
    BY <2>5, <2>6 DEF Numbered
<1> QED
  BY <1>1, <1>2, TableNext DEF IInv

\* A step of one command: what it was about to forget is gone or still to be
\* forgotten, and what it no longer covers has not expired, is covered by another
\* or gone.
LEMMA CommandLists ==
  ASSUME TypeOK, Counted, Listed, Swept, [Next]_vars, NEW s \in Slot, NEW next, Goto(s, next),
         Faultless' => \A i : Forgets(cmd[s], i) => Forgets(next, i) \/ Dropped(i)',
         Faultless' => \A b \in backups' \ backups : cmd[s].at = "record" /\ b.image = cmd[s].image,
         Faultless' => \A i \in images \ images' : Forgets(next, i),
         next.at = "record" => next.image \in images',
         Faultless' /\ Unrestored' =>
            \A c \in Container, t \in Rotated : \A b \in Expired(c, t)' :
                \/ Gone(b.image)
                \/ \E x \in Slot \ {s} : Covers(cmd[x], b)
                \/ Covers(next, b)
                \/ b \in Expired(c, t) /\ ~Covers(cmd[s], b)
  PROVE  Listed' /\ Swept'
<1>1. /\ cmd'[s] = next
      /\ \A x \in Slot \ {s} : cmd'[x] = cmd[x]
  BY DEF Goto, TypeOK
<1>2. (Faultless' => Faultless) /\ (Unrestored' => Unrestored)
  BY FaultsStay
<1>3. \A x \in Slot : \A i : Forgets(cmd[x], i)' <=> Forgets(cmd'[x], i)
  BY DEF Forgets
<1>g. ASSUME Faultless', NEW i, Gone(i) PROVE Gone(i)'
  <2>1. CASE Dropped(i)
    BY <2>1, DroppedStays DEF Gone
  <2>2. ASSUME NEW x \in Slot, Forgets(cmd[x], i) PROVE Gone(i)'
    <3>1. CASE x = s
      BY <1>1, <1>3, <1>g, <2>2, <3>1 DEF Gone
    <3>2. CASE x # s
      BY <1>1, <1>3, <2>2, <3>2 DEF Gone
    <3> QED
      BY <3>1, <3>2
  <2> QED
    BY <1>g, <2>1, <2>2 DEF Gone
<1>n. \A i : Forgets(next, i) => Gone(i)'
  BY <1>1, <1>3 DEF Gone
<1>4. Listed'
  <2> SUFFICES ASSUME Faultless', NEW i, Wanted(i)', i \notin images' PROVE Gone(i)'
    BY DEF Listed
  <2>1. CASE i \in images
    BY <1>n, <2>1
  <2>2. CASE i \notin images
    <3>1. Wanted(i)
      <4>1. ASSUME NEW b \in backups', b.image = i PROVE Wanted(i)
        BY <4>1 DEF Wanted
      <4>2. ASSUME NEW x \in Slot, cmd'[x].at = "record", cmd'[x].image = i PROVE Wanted(i)
        BY <1>1, <4>2 DEF Wanted
      <4> QED
        BY <4>1, <4>2 DEF Wanted
    <3> QED
      BY <1>2, <1>g, <2>2, <3>1 DEF Listed
  <2> QED
    BY <2>1, <2>2
<1>5. Swept'
  <2> SUFFICES ASSUME Faultless', Unrestored', NEW c \in Container, NEW t \in Rotated,
                      NEW b \in Expired(c, t)'
               PROVE  Gone(b.image)' \/ \E x \in Slot : Covers(cmd'[x], b)
    BY DEF Swept, ExpiredCovered, Covers, Held
  <2>1. CASE \E x \in Slot \ {s} : Covers(cmd[x], b)
    BY <1>1, <2>1
  <2>2. CASE Covers(next, b)
    BY <1>1, <2>2
  <2>3. CASE b \in Expired(c, t) /\ ~Covers(cmd[s], b)
    BY <1>1, <1>2, <1>g, <2>3 DEF Swept, ExpiredCovered
  <2>4. CASE Gone(b.image)
    BY <1>g, <2>4
  <2> QED
    BY <2>1, <2>2, <2>3, <2>4
<1> QED
  BY <1>4, <1>5

\* A command that has nothing to do with retention.
Aside(k) == k.at \notin {"retain", "forget"}
LEMMA AsideCovers == ASSUME NEW k, NEW b, Aside(k) PROVE ~Covers(k, b) /\ ~Forgets(k, b)
BY DEF Aside, Covers, Held, Forgets

LEMMA AsideLists ==
  ASSUME TypeOK, Counted, Listed, Swept, [Next]_vars, NEW s \in Slot, NEW next, Goto(s, next),
         Aside(cmd[s]), UNCHANGED backups, images \subseteq images',
         next.at = "record" => next.image \in images'
  PROVE  Listed' /\ Swept'
<1>1. \A c, t : Expired(c, t)' = Expired(c, t)
  BY DEF Expired, Places
<1>2. \A b : ~Covers(cmd[s], b) /\ ~Forgets(cmd[s], b)
  BY AsideCovers
<1> QED
  BY <1>1, <1>2, CommandLists

\* What a retention goes on with.
LEMMA ContinueCovers ==
  ASSUME NEW c, NEW todo, NEW expired, NEW b, b \in expired \/ (b.c = c /\ b.type \in todo)
  PROVE  Covers(Continue(c, todo, expired), b)
<1> DEFINE k == [at |-> "retain", c |-> c, todo |-> todo, expired |-> expired]
<1>1. k.at = "retain" /\ k.c = c /\ k.todo = todo /\ k.expired = expired
  OBVIOUS
<1>2. Continue(c, todo, expired) = k
  BY DEF Continue
<1> HIDE DEF k
<1> QED
  BY <1>1, <1>2 DEF Covers, Held

\* A new row may be one too many; then its retention has yet to look.
LEMMA RecordLists ==
  ASSUME IInv, Listed, Swept, [Next]_vars, NEW s \in Slot, Record(s)
  PROVE  Listed' /\ Swept'
<1> DEFINE k == cmd[s]
           next == Continue(cmd[s].c, Rotated, {})
           row == NextRow(cmd[s])
<1>1. Goto(s, next) /\ UNCHANGED images /\ k.at = "record"
  BY DEF Record
<1>2. row.c = k.c /\ row.type = k.type /\ row.image = k.image
  BY DEF NextRow
<1>3. Faultless' => backups' = backups \cup {row}
  BY Succeeded DEF Record, IInv
<1>4. \A b : ~Covers(k, b) /\ ~Forgets(k, b)
  BY <1>1, AsideCovers DEF Aside
<1>5. \A b : b.c = k.c /\ b.type \in Rotated => Covers(next, b)
  BY ContinueCovers
<1>6. next.at # "record"
  BY HeldNext
<1> HIDE DEF k, next, row
<1>8. ASSUME Faultless', NEW c \in Container, NEW t \in Rotated, NEW b \in Expired(c, t)'
      PROVE  Covers(next, b) \/ b \in Expired(c, t)
  <2>1. b.c = c /\ b.type = t /\ b \in backups'
    BY <1>8 DEF Expired
  <2>2. CASE c = k.c /\ t = k.type
    BY <1>5, <2>1, <2>2
  <2>3. CASE ~(c = k.c /\ t = k.type)
    <3>1. Places(c, t)' = Places(c, t)
      BY <1>2, <1>3, <1>8, <2>3 DEF Places
    <3>2. b \in backups
      BY <1>2, <1>3, <1>8, <2>1, <2>3
    <3> QED
      BY <1>8, <3>1, <3>2 DEF Expired
  <2> QED
    BY <2>2, <2>3
<1>9. TypeOK /\ Counted
  BY DEF IInv
<1>10. Faultless' => \A b \in backups' \ backups : cmd[s].at = "record" /\ b.image = cmd[s].image
  BY <1>1, <1>2, <1>3 DEF k
<1>11. /\ \A i : ~Forgets(cmd[s], i)
       /\ \A b : ~Covers(cmd[s], b)
  BY <1>4 DEF k
<1> QED
  BY <1>1, <1>6, <1>8, <1>9, <1>10, <1>11, CommandLists

\* A retention that looks at a type holds what has expired of it.
LEMMA SelectLists ==
  ASSUME IInv, Listed, Swept, [Next]_vars, NEW s \in Slot, Select(s)
  PROVE  Listed' /\ Swept'
<1>1. UNCHANGED <<images, backups>> /\ cmd[s].at = "retain" /\ cmd[s].expired = {}
  BY DEF Select, store
<1>2. \A c, t : Expired(c, t)' = Expired(c, t)
  BY <1>1 DEF Expired, Places
<1>3. \A i : ~Forgets(cmd[s], i)
  BY <1>1 DEF Forgets
<1>4. \A b : Covers(cmd[s], b) => b.c = cmd[s].c /\ b.type \in cmd[s].todo
  BY <1>1 DEF Covers, Held
<1>5. CASE Fails /\ Goto(s, Idle)
  BY <1>1, <1>3, <1>5, HeldIdle, Succeeded, CommandLists DEF IInv
<1>6. ASSUME NEW t \in cmd[s].todo,
             Goto(s, Continue(cmd[s].c, cmd[s].todo \ {t}, Expired(cmd[s].c, t)))
      PROVE  Listed' /\ Swept'
  <2> DEFINE next == Continue(cmd[s].c, cmd[s].todo \ {t}, Expired(cmd[s].c, t))
  <2>1. ASSUME NEW c \in Container, NEW u \in Rotated, NEW b \in Expired(c, u), Covers(cmd[s], b)
        PROVE  Covers(next, b)
    <3>1. b.c = c /\ b.type = u
      BY DEF Expired
    <3>2. c = cmd[s].c /\ u \in cmd[s].todo
      BY <1>4, <2>1, <3>1
    <3>3. CASE u = t
      BY <2>1, <3>2, <3>3, ContinueCovers
    <3>4. CASE u # t
      BY <3>1, <3>2, <3>4, ContinueCovers
    <3> QED
      BY <3>3, <3>4
  <2>2. next.at # "record"
    BY HeldNext
  <2> HIDE DEF next
  <2>3. Goto(s, next)
    BY <1>6 DEF next
  <2> QED
    BY <1>1, <1>2, <1>3, <2>1, <2>2, <2>3, CommandLists DEF IInv
<1> QED
  BY <1>5, <1>6 DEF Select

\* A retention that removes an image is about to delete its row; if there is no
\* image to remove, it is gone.
LEMMA RmiLists ==
  ASSUME IInv, Listed, Swept, [Next]_vars, NEW s \in Slot, Rmi(s)
  PROVE  Listed' /\ Swept'
<1> DEFINE k == cmd[s]
<1>1. UNCHANGED backups /\ k.at = "retain"
  BY DEF Rmi
<1>2. \A c, t : Expired(c, t)' = Expired(c, t)
  BY <1>1 DEF Expired, Places
<1>3. \A i : ~Forgets(k, i)
  BY <1>1 DEF Forgets
<1>4. \A b : Covers(k, b) <=> b \in k.expired \/ (b.c = k.c /\ b.type \in k.todo)
  BY <1>1 DEF Covers, Held
<1>5. PICK b \in k.expired :
        \/ /\ images' = images \ {b.image}
           /\ Goto(s, [at |-> "forget", c |-> k.c, todo |-> k.todo,
                       expired |-> k.expired \ {b}, row |-> b])
        \/ Fails /\ Goto(s, Continue(k.c, k.todo, k.expired \ {b}))
        \/ /\ b.image \notin images \/ b.image \in InUse
           /\ UNCHANGED images /\ Goto(s, Continue(k.c, k.todo, k.expired \ {b}))
  BY DEF Rmi
<1>6. TypeOK /\ Counted
  BY DEF IInv
<1>7. Continue(k.c, k.todo, k.expired \ {b}).at # "record"
  BY HeldNext
<1>8. CASE /\ images' = images \ {b.image}
           /\ Goto(s, [at |-> "forget", c |-> k.c, todo |-> k.todo,
                       expired |-> k.expired \ {b}, row |-> b])
  <2> DEFINE next == [at |-> "forget", c |-> k.c, todo |-> k.todo,
                      expired |-> k.expired \ {b}, row |-> b]
  <2>1. /\ next.at = "forget" /\ next.c = k.c /\ next.todo = k.todo
        /\ next.expired = k.expired \ {b} /\ next.row = b
    OBVIOUS
  <2> HIDE DEF next
  <2>2. Goto(s, next)
    BY <1>8 DEF next
  <2>3. \A d : Covers(k, d) => Covers(next, d)
    <3>1. Held(next) = k.expired
      BY <1>5, <2>1 DEF Held
    <3> QED
      BY <1>4, <2>1, <3>1 DEF Covers
  <2>4. Forgets(next, b.image) /\ next.at # "record"
    BY <2>1 DEF Forgets
  <2>5. \A i \in images \ images' : Forgets(next, i)
    BY <1>8, <2>4
  <2> QED
    BY <1>1, <1>2, <1>3, <1>6, <2>2, <2>3, <2>4, <2>5, CommandLists DEF k
<1>9. CASE Fails /\ Goto(s, Continue(k.c, k.todo, k.expired \ {b}))
  BY <1>6, <1>7, <1>9, Succeeded, CommandLists
<1>10. CASE /\ b.image \notin images \/ b.image \in InUse
            /\ UNCHANGED images /\ Goto(s, Continue(k.c, k.todo, k.expired \ {b}))
  <2> DEFINE next == Continue(k.c, k.todo, k.expired \ {b})
  <2>1. \A d : Covers(k, d) /\ d # b => Covers(next, d)
    BY <1>4, ContinueCovers
  <2>2. ASSUME Faultless', Unrestored', b \in backups
        PROVE  Gone(b.image)
    <3>1. Faultless /\ Unrestored
      BY <1>6, <2>2, FaultsStay
    <3>2. b.image \notin InUse
      BY <3>1 DEF Unrestored, InUse
    <3>3. b.image \notin images /\ Wanted(b.image)
      BY <1>10, <2>2, <3>2 DEF Wanted
    <3> QED
      BY <3>1, <3>3 DEF Listed
  <2> HIDE DEF next
  <2>3. Goto(s, next) /\ next.at # "record"
    BY <1>7, <1>10 DEF next
  <2>4. \A c, t : Expired(c, t) \subseteq backups
    BY ExpiredRows
  <2>5. Faultless' /\ Unrestored' =>
            \A c \in Container, t \in Rotated : \A d \in Expired(c, t)' :
                Gone(d.image) \/ Covers(next, d) \/ (d \in Expired(c, t) /\ ~Covers(k, d))
    BY <1>2, <2>1, <2>2, <2>4
  <2> QED
    BY <1>1, <1>3, <1>6, <1>10, <2>3, <2>5, CommandLists DEF k
<1> QED
  BY <1>5, <1>8, <1>9, <1>10

\* The numbers of the rows of a container and type.
LEMMA PlacesFinite ==
  ASSUME TypeOK, Counted, NEW c \in Container, NEW t \in Type
  PROVE  IsFiniteSet(Places(c, t))
<1>1. made[c][t] \in Nat /\ Places(c, t) \subseteq 0..made[c][t]
  BY DEF Places, Counted, TypeOK, Backup
<1>2. IsFiniteSet(0..made[c][t])
  BY <1>1, FS_Interval
<1> QED
  BY <1>1, <1>2, FS_Subset

\* When a row is deleted no other expires, and its image is gone.
LEMMA ForgetLists ==
  ASSUME IInv, Listed, Swept, [Next]_vars, NEW s \in Slot, Forget(s)
  PROVE  Listed' /\ Swept'
<1> DEFINE k == cmd[s]
           next == Continue(k.c, k.todo, k.expired)
<1>1. UNCHANGED <<images, inserted>> /\ k.at = "forget"
  BY DEF Forget
<1>2. \A b : Covers(k, b) => b = k.row \/ Covers(next, b)
  <2>1. \A b : Covers(k, b) => b = k.row \/ b \in k.expired \/ (b.c = k.c /\ b.type \in k.todo)
    BY <1>1 DEF Covers, Held
  <2> QED
    BY <2>1, ContinueCovers
<1>3. \A i : Forgets(k, i) => i = k.row.image
  BY DEF Forgets
<1>5. TypeOK /\ Counted /\ k.row \in inserted /\ next.at # "record"
  <2>1. k.row \in Held(k)
    BY <1>1 DEF Held
  <2> QED
    BY <2>1, HeldNext DEF IInv, OnlyPast
<1>6. CASE backups' = backups \ {k.row} /\ Goto(s, next)
  <2>1. ASSUME NEW c \in Container, NEW t \in Rotated, NEW b \in Expired(c, t)'
        PROVE  b \in Expired(c, t) /\ b # k.row
    <3> DEFINE younger == {n \in Places(c, t) : n > b.n}
               after == {n \in Places(c, t)' : n > b.n}
    <3>1. b \in backups' /\ b.c = c /\ b.type = t /\ Cardinality(after) >= BACKUP_RETENTION[t]
      BY DEF Expired
    <3>2. after \subseteq younger
      BY <1>6 DEF Places
    <3>3. IsFiniteSet(younger) /\ Cardinality(younger) \in Nat
      <4>1. IsFiniteSet(Places(c, t))
        BY <1>5, PlacesFinite, DiscordVpsAssumption
      <4> QED
        BY <4>1, FS_Subset, FS_CardinalityType
    <3>4. Cardinality(after) <= Cardinality(younger) /\ Cardinality(after) \in Nat
      BY <3>2, <3>3, FS_Subset, FS_CardinalityType
    <3>5. BACKUP_RETENTION[t] \in Nat
      BY DiscordVpsAssumption
    <3> HIDE DEF after, younger
    <3>6. Cardinality(younger) >= BACKUP_RETENTION[t]
      BY <3>1, <3>3, <3>4, <3>5
    <3> QED
      BY <1>6, <3>1, <3>6 DEF younger, Expired
  <2>3. ASSUME NEW i, Forgets(k, i) PROVE Dropped(i)'
    <3>1. k.row \in inserted' /\ k.row \notin backups' /\ k.row.image = i
      BY <1>1, <1>3, <1>5, <1>6, <2>3
    <3> HIDE DEF k
    <3> QED
      BY <3>1 DEF Dropped
  <2>4. \A c \in Container, t \in Rotated : \A b \in Expired(c, t)' :
            Covers(next, b) \/ (b \in Expired(c, t) /\ ~Covers(k, b))
    BY <1>2, <2>1
  <2>5. backups' \subseteq backups
    BY <1>6
  <2> HIDE DEF k, next
  <2>6. \A i : Forgets(cmd[s], i) => Dropped(i)'
    BY <2>3 DEF k
  <2>7. \A c \in Container, t \in Rotated : \A b \in Expired(c, t)' :
            Covers(next, b) \/ (b \in Expired(c, t) /\ ~Covers(cmd[s], b))
    BY <2>4 DEF k
  <2> QED
    BY <1>1, <1>5, <1>6, <2>5, <2>6, <2>7, CommandLists
<1>7. CASE Fails /\ Goto(s, Idle)
  BY <1>1, <1>5, <1>7, HeldIdle, Succeeded, CommandLists
<1> QED
  BY <1>6, <1>7 DEF Forget

\* Every step keeps both.
LEMMA NextLists ==
  ASSUME IInv, Listed, Swept, [Next]_vars
  PROVE  Listed' /\ Swept'
<1>t. TypeOK /\ Counted
  BY DEF IInv
<1>1. CASE UNCHANGED <<images, backups, inserted, cmd>>
  <2>1. (Faultless' => Faultless) /\ (Unrestored' => Unrestored)
    BY FaultsStay DEF IInv
  <2>2. \A c, t : Expired(c, t)' = Expired(c, t)
    BY <1>1 DEF Expired, Places
  <2>3. \A i : Gone(i)' <=> Gone(i)
    BY <1>1 DEF Gone, Dropped, Forgets
  <2>4. Listed'
    BY <1>1, <2>1, <2>3 DEF Listed, Wanted
  <2>5. Swept'
    BY <1>1, <2>1, <2>2, <2>3 DEF Swept, ExpiredCovered, Covers, Held
  <2> QED
    BY <2>4, <2>5
<1>2. CASE Crash
  BY <1>2 DEF Crash, Listed, Swept, Faultless, IInv, TypeOK
<1>3. ASSUME NEW s \in Slot, Begins(s) PROVE Listed' /\ Swept'
  <2>1. PICK next : Goto(s, next) /\ next.at \in {"run", "rm", "stop", "commit"}
    BY <1>3, BeginGoes
  <2>2. Aside(cmd[s]) /\ UNCHANGED <<images, backups>>
    BY <1>3, BeginGoes DEF Aside, Idle
  <2> QED
    BY <1>t, <2>1, <2>2, AsideLists
<1>4. ASSUME NEW s \in Slot,
             \/ Run(s) \/ Insert(s) \/ Rm(s) \/ Unlist(s)
             \/ Stop(s) \/ Remove(s) \/ Replace(s)
      PROVE  Listed' /\ Swept'
  <2>1. UNCHANGED <<backups, images>> /\ Aside(cmd[s])
    BY <1>4 DEF Run, Insert, Rm, Unlist, Stop, Remove, Replace, Aside
  <2>2. PICK next : Goto(s, next) /\ next.at # "record"
    <3>1. CASE Stop(s) \/ Remove(s)
      <4>1. cmd[s] \in Restore
        BY <3>1, <1>t DEF TypeOK, Command, Stop, Remove, Create, Delete, MakeBackup, Retention,
                          Restore, Idle
      <4>2. /\ [cmd[s] EXCEPT !.at = "remove"].at = "remove"
            /\ [cmd[s] EXCEPT !.at = "replace"].at = "replace"
        BY <4>1 DEF Restore
      <4> QED
        BY <3>1, <4>2 DEF Stop, Remove
    <3>2. CASE Run(s)
      <4>1. ASSUME NEW c
            PROVE  [at |-> "insert", user |-> cmd[s].user, c |-> c].at # "record"
        OBVIOUS
      <4> QED
        BY <3>2, <4>1, HeldIdle DEF Run
    <3>3. CASE Insert(s) \/ Rm(s) \/ Unlist(s) \/ Replace(s)
      BY <3>3, HeldIdle DEF Insert, Rm, Unlist, Replace
    <3> QED
      BY <1>4, <3>1, <3>2, <3>3
  <2> QED
    BY <1>t, <2>1, <2>2, AsideLists
<1>c. ASSUME NEW s \in Slot, Commit(s) PROVE Listed' /\ Swept'
  <2>1. UNCHANGED backups /\ images \subseteq images' /\ Aside(cmd[s])
    BY <1>c DEF Commit, Committed, Aside
  <2>2. cmd[s] \in MakeBackup
    BY <1>c, <1>t DEF TypeOK, Commit, Command, Create, Delete, MakeBackup, Retention, Restore, Idle
  <2> DEFINE next == [cmd[s] EXCEPT !.at = "record"]
  <2>3. next.image = cmd[s].image
    BY <2>2 DEF MakeBackup
  <2>4. Goto(s, Idle) \/ (Goto(s, next) /\ cmd[s].image \in images')
    BY <1>c DEF Commit, Committed
  <2> HIDE DEF next
  <2>5. CASE Goto(s, Idle)
    BY <1>t, <2>1, <2>5, HeldIdle, AsideLists
  <2>6. CASE Goto(s, next) /\ cmd[s].image \in images'
    BY <1>t, <2>1, <2>3, <2>6, AsideLists
  <2> QED
    BY <2>4, <2>5, <2>6
<1>5. ASSUME NEW s \in Slot, Step(s) PROVE Listed' /\ Swept'
  BY <1>4, <1>5, <1>c, RecordLists, SelectLists, RmiLists, ForgetLists DEF Step
<1>6. CASE \E c \in Container : Power(c)
  BY <1>1, <1>6 DEF Power
<1>7. CASE UNCHANGED vars
  BY <1>1, <1>7 DEF vars, store
<1> QED
  BY <1>2, <1>3, <1>5, <1>6, <1>7 DEF Next

LEMMA ListInvInit == ASSUME Init PROVE ListInv
BY InitKeeps, HeldIdle DEF Init, ListInv, Numbered, Listed, Wanted, Swept, ExpiredCovered, Expired

LEMMA ListInvNext ==
  ASSUME ListInv, TypeOK', [Next]_vars
  PROVE  ListInv'
BY NextKeeps, NumberedNext, NextLists DEF ListInv

\* When all is quiet no command forgets a row or covers one: an image that is
\* gone went with a row.
LEMMA QuiescentCovers ==
  ASSUME Quiescent
  PROVE  /\ \A s \in Slot : \A b : ~Covers(cmd[s], b)
         /\ \A b : Gone(b.image) => Shadowed(b)
<1>1. \A s \in Slot : \A b : ~Covers(cmd[s], b) /\ ~Forgets(cmd[s], b)
  BY AsideCovers DEF Quiescent, Aside, Idle
<1> QED
  BY <1>1 DEF Gone, Dropped, Shadowed

\* When all is quiet and nothing has failed, every listed backup can be restored,
\* save those of the second of one that expired, whose image went with that one;
\* for any number of commands that overlapped.
THEOREM ListedExist == Spec => []ListedBackupsExist
<1>1. ListInv => ListedBackupsExist
  BY QuiescentCovers DEF ListInv, Listed, Wanted, ListedBackupsExist, Faultless
<1> QED
  BY <1>1, ListInvInit, ListInvNext, VpsTypeCorrect, PTL DEF Spec

\* Of rows that have not expired there are no more than are to be kept: the newest
\* are there, so that an older one would have as many younger ones.
LEMMA FewUnexpired ==
  ASSUME IInv, Numbered, NEW c \in Container, NEW t \in Rotated, NEW rows,
         rows \subseteq {b \in backups \ Expired(c, t) : b.c = c /\ b.type = t}
  PROVE  Cardinality(rows) <= BACKUP_RETENTION[t]
<1> DEFINE m == made[c][t]
           R == BACKUP_RETENTION[t]
           newest == (m - R + 1)..m
<1>1. t \in Type /\ m \in Nat /\ R \in Nat
  BY DiscordVpsAssumption DEF IInv, TypeOK
<1>2. \A b \in rows : b.n \in Nat /\ b.n <= m
  BY DEF IInv, Counted, TypeOK, Backup
<1>3. IsFiniteSet(newest) /\ Cardinality(newest) = R
  <2> HIDE DEF m, R
  <2>1. m - R + 1 \in Int /\ m \in Int
    BY <1>1
  <2>2. IsFiniteSet(newest) /\ Cardinality(newest) = IF m - R + 1 > m THEN 0 ELSE m - (m - R + 1) + 1
    BY <2>1, FS_Interval
  <2> QED
    BY <1>1, <2>2
<1>4. ASSUME NEW b \in rows PROVE b.n \in newest
  <2> SUFFICES ASSUME b.n + R <= m PROVE FALSE
    <3> HIDE DEF m, R
    <3> QED
      BY <1>1, <1>2, <1>4
  <2> DEFINE younger == {n \in Places(c, t) : n > b.n}
  <2>1. ASSUME NEW n \in newest PROVE n \in younger
    <3>1. n \in 1..m /\ n + R > m /\ n > b.n
      <4> HIDE DEF m, R
      <4> QED
        BY <1>1, <1>2, <1>4, <2>1
    <3>2. \E d \in backups : d.c = c /\ d.type = t /\ d.n = n
      BY <3>1 DEF IInv, NewestBackupsKept
    <3> QED
      BY <3>1, <3>2 DEF Places
  <2>2. IsFiniteSet(younger) /\ Cardinality(younger) \in Nat
    BY <1>1, PlacesFinite, FS_Subset, FS_CardinalityType DEF IInv
  <2>3. Cardinality(newest) <= Cardinality(younger)
    <3> HIDE DEF newest, younger
    <3> QED
      BY <2>1, <2>2, FS_Subset
  <2>4. b \in Expired(c, t)
    <3> HIDE DEF newest
    <3> QED
      BY <1>3, <1>4, <2>3 DEF Expired
  <2> QED
    BY <2>4
<1>5. \A a, b \in rows : a.n = b.n => a = b
  BY DEF Numbered
<1> HIDE DEF newest, R
<1> DEFINE f == [b \in rows |-> b.n]
<1>6. f \in Injection(rows, newest)
  BY <1>4, <1>5 DEF Injection, IsInjective
<1>7. Cardinality(rows) <= Cardinality(newest)
  <2> HIDE DEF f
  <2> QED
    BY <1>3, <1>6, FS_Injection
<1> QED
  BY <1>3, <1>7 DEF R

\* Retention is applied: when all is quiet, nothing has failed and nothing was
\* restored, no more backups of a type are listed than are to be kept, however
\* retentions overlapped, apart from those whose image went with another row.
THEOREM RetentionEnds == Spec => []RetentionApplied
<1>1. ListInv => RetentionApplied
  <2> SUFFICES ASSUME ListInv, Quiescent, Faultless, Unrestored, NEW c \in Container, NEW t \in Rotated
               PROVE  Cardinality({b \in backups : b.c = c /\ b.type = t /\ ~Shadowed(b)})
                        <= BACKUP_RETENTION[t]
    BY DEF RetentionApplied, Faultless, Unrestored
  <2>1. \A b \in Expired(c, t) : Shadowed(b)
    BY QuiescentCovers DEF ListInv, Swept, ExpiredCovered
  <2> DEFINE rows == {b \in backups : b.c = c /\ b.type = t /\ ~Shadowed(b)}
  <2>2. rows \subseteq {b \in backups \ Expired(c, t) : b.c = c /\ b.type = t}
    BY <2>1
  <2> HIDE DEF rows
  <2>3. Cardinality(rows) <= BACKUP_RETENTION[t]
    BY <2>2, FewUnexpired DEF ListInv
  <2> QED
    BY <2>3 DEF rows
<1> QED
  BY <1>1, ListInvInit, ListInvNext, VpsTypeCorrect, PTL DEF Spec

-----------------------------------------------------------------------------
(***************************************************************************)
(* The limit.  A command that passed the check saw fewer VPSs than the     *)
(* limit, and no more commands than slots are in flight.                   *)
(***************************************************************************)
OwnedFinite == \A u \in User : IsFiniteSet(Owned(u))
LimitInv == TypeOK /\ OwnedFinite /\ LimitExceededAtMost

\* As many creations as slots, at most.
LEMMA CreatingFinite ==
  ASSUME NEW u
  PROVE  /\ IsFiniteSet(Creating(u)) /\ Cardinality(Creating(u)) \in Nat
         /\ Cardinality(Creating(u)) <= Cardinality(Slot)
         /\ IsFiniteSet(Slot) /\ Cardinality(Slot) \in Nat
<1>1. IsFiniteSet(Slot) /\ Creating(u) \subseteq Slot
  BY DiscordVpsAssumption DEF Creating
<1> QED
  BY <1>1, FS_Subset, FS_CardinalityType

\* The numbers of a step that neither gives a user a VPS nor starts to.
LEMMA NoMore ==
  ASSUME LimitInv, NEW u \in User, failures' = 0 => failures = 0,
         Owned(u)' \subseteq Owned(u), Creating(u)' \subseteq Creating(u)
  PROVE  /\ IsFiniteSet(Owned(u)')
         /\ failures' = 0 => Cardinality(Owned(u)') + Cardinality(Creating(u)')
                               < SERVER_LIMIT + Cardinality(Slot)
<1>1. IsFiniteSet(Owned(u)) /\ IsFiniteSet(Creating(u))
  BY CreatingFinite DEF LimitInv, OwnedFinite
<1> DEFINE o == Owned(u)'
           k == Creating(u)'
<1> HIDE DEF o, k
<1>2. /\ IsFiniteSet(o) /\ IsFiniteSet(k)
      /\ Cardinality(o) <= Cardinality(Owned(u)) /\ Cardinality(k) <= Cardinality(Creating(u))
  BY <1>1, FS_Subset DEF o, k
<1>3. /\ Cardinality(o) \in Nat /\ Cardinality(k) \in Nat
      /\ Cardinality(Owned(u)) \in Nat /\ Cardinality(Creating(u)) \in Nat
      /\ Cardinality(Slot) \in Nat /\ SERVER_LIMIT \in Nat
  BY <1>1, <1>2, CreatingFinite, FS_CardinalityType, DiscordVpsAssumption
<1>4. failures = 0 =>
        Cardinality(Owned(u)) + Cardinality(Creating(u)) < SERVER_LIMIT + Cardinality(Slot)
  BY DEF LimitInv, LimitExceededAtMost
<1>5. failures' = 0 => Cardinality(o) + Cardinality(k) < SERVER_LIMIT + Cardinality(Slot)
  BY <1>2, <1>3, <1>4
<1> QED
  BY <1>2, <1>5 DEF o, k

\* A step of one command that begins no creation and gives no VPS.
LEMMA NoMoreOf ==
  ASSUME LimitInv, TypeOK', NEW s \in Slot, NEW next, Goto(s, next), failures' = 0 => failures = 0,
         next.at \in {"run", "insert"} => cmd[s].at \in {"run", "insert"} /\ next.user = cmd[s].user,
         \A c \in Container : owner'[c] = owner[c] \/ owner'[c] = Nobody
  PROVE  OwnedFinite' /\ LimitExceededAtMost'
<1>1. cmd'[s] = next /\ \A x \in Slot \ {s} : cmd'[x] = cmd[x]
  BY DEF Goto, LimitInv, TypeOK
<1>2. ASSUME NEW u \in User
      PROVE  Owned(u)' \subseteq Owned(u) /\ Creating(u)' \subseteq Creating(u)
  <2>1. Owned(u)' \subseteq Owned(u)
    BY DiscordVpsAssumption DEF Owned
  <2>2. ASSUME NEW x \in Slot, cmd'[x].at \in {"run", "insert"}, cmd'[x].user = u
        PROVE  x \in Creating(u)
    BY <1>1, <2>2 DEF Creating
  <2>3. Creating(u)' \subseteq Creating(u)
    BY <2>2 DEF Creating
  <2> QED
    BY <2>1, <2>3
<1> QED
  BY <1>2, NoMore DEF OwnedFinite, LimitExceededAtMost

\* The check leaves room for as many creations as there are slots.
LEMMA CreationBegins ==
  ASSUME LimitInv, TypeOK', NEW s \in Slot, NEW u \in User, createVps(s, u)
  PROVE  OwnedFinite' /\ LimitExceededAtMost'
<1>1. /\ cmd[s] = Idle /\ owner' = owner
      /\ cmd'[s] = [at |-> "run", user |-> u] /\ \A x \in Slot \ {s} : cmd'[x] = cmd[x]
      /\ WithinLimit(u) \/ failures' = failures + 1
  BY DEF createVps, Begin, store, Goto, LimitInv, TypeOK
<1>2. failures \in Nat /\ (failures' = failures \/ failures' = failures + 1)
  BY DEF createVps, LimitInv, TypeOK
<1>3. \A v : Owned(v)' = Owned(v)
  BY <1>1 DEF Owned
<1>4. OwnedFinite'
  BY <1>3 DEF LimitInv, OwnedFinite
<1>5. ASSUME NEW v \in User, failures' = 0
      PROVE  Cardinality(Owned(v)') + Cardinality(Creating(v)') < SERVER_LIMIT + Cardinality(Slot)
  <2>1. CASE v = u
    <3>1. Cardinality(Owned(v)') < SERVER_LIMIT
      BY <1>1, <1>2, <1>3, <1>5, <2>1 DEF WithinLimit
    <3>2. IsFiniteSet(Slot) /\ Creating(v)' \subseteq Slot
      BY DiscordVpsAssumption DEF Creating
    <3> DEFINE k == Creating(v)'
    <3> HIDE DEF k
    <3>3. Cardinality(k) <= Cardinality(Slot) /\ Cardinality(k) \in Nat /\ Cardinality(Slot) \in Nat
      BY <3>2, FS_Subset, FS_CardinalityType DEF k
    <3>4. Cardinality(Owned(v)') \in Nat /\ SERVER_LIMIT \in Nat
      BY <1>4, FS_CardinalityType, DiscordVpsAssumption DEF OwnedFinite
    <3>5. Cardinality(Owned(v)') + Cardinality(k) < SERVER_LIMIT + Cardinality(Slot)
      BY <3>1, <3>3, <3>4
    <3> QED
      BY <3>5 DEF k
  <2>2. CASE v # u
    <3>1. Creating(v)' \subseteq Creating(v)
      BY <1>1, <2>2 DEF Creating
    <3> QED
      BY <1>2, <1>3, <1>5, <3>1, NoMore
  <2> QED
    BY <2>1, <2>2
<1> QED
  BY <1>4, <1>5 DEF LimitExceededAtMost

\* A creation that ends gives its user a VPS in its place.
LEMMA CreationEnds ==
  ASSUME LimitInv, TypeOK', NEW s \in Slot, cmd[s].at = "insert", Goto(s, Idle),
         owner' = [owner EXCEPT ![cmd[s].c] = cmd[s].user], failures' = failures
  PROVE  OwnedFinite' /\ LimitExceededAtMost'
<1> DEFINE w == cmd[s].user
           c == cmd[s].c
<1>1. w \in User /\ c \in Container
  BY Fields DEF LimitInv, TypeOK
<1>2. Idle.at = "idle" /\ cmd'[s] = Idle /\ \A x \in Slot \ {s} : cmd'[x] = cmd[x]
  BY DEF Goto, LimitInv, TypeOK, Idle
<1>3. owner'[c] = w /\ \A d \in Container \ {c} : owner'[d] = owner[d]
  BY <1>1 DEF LimitInv, TypeOK
<1> HIDE DEF w, c
<1>4. ASSUME NEW u \in User
      PROVE  /\ IsFiniteSet(Owned(u)')
             /\ failures' = 0 => Cardinality(Owned(u)') + Cardinality(Creating(u)')
                                   < SERVER_LIMIT + Cardinality(Slot)
  <2>1. CASE u # w
    <3>1. Owned(u)' \subseteq Owned(u) /\ Creating(u)' \subseteq Creating(u)
      BY <1>1, <1>2, <1>3, <2>1 DEF Owned, Creating
    <3> QED
      BY <3>1, NoMore
  <2>2. CASE u = w
    <3>1. Owned(u)' = Owned(u) \cup {c}
      BY <1>1, <1>3, <2>2 DEF Owned
    <3>2. Creating(u)' = Creating(u) \ {s} /\ s \in Creating(u)
      BY <1>2, <2>2 DEF Creating, w
    <3>3. IsFiniteSet(Owned(u)) /\ IsFiniteSet(Creating(u))
      BY CreatingFinite DEF LimitInv, OwnedFinite
    <3>4. /\ IsFiniteSet(Owned(u)') /\ Cardinality(Owned(u)') <= Cardinality(Owned(u)) + 1
          /\ Cardinality(Owned(u)) \in Nat /\ Cardinality(Owned(u)') \in Nat
      <4>1. /\ IsFiniteSet(Owned(u) \cup {c})
            /\ Cardinality(Owned(u) \cup {c}) =
                 IF c \in Owned(u) THEN Cardinality(Owned(u)) ELSE Cardinality(Owned(u)) + 1
        BY <3>3, FS_AddElement
      <4>2. Cardinality(Owned(u)) \in Nat
        BY <3>3, FS_CardinalityType
      <4> QED
        BY <3>1, <4>1, <4>2
    <3>5. /\ Cardinality(Creating(u)') = Cardinality(Creating(u)) - 1
          /\ Cardinality(Creating(u)) \in Nat /\ Cardinality(Slot) \in Nat
      BY <3>2, <3>3, FS_RemoveElement, CreatingFinite
    <3>6. failures = 0 =>
            Cardinality(Owned(u)) + Cardinality(Creating(u)) < SERVER_LIMIT + Cardinality(Slot)
      BY DEF LimitInv, LimitExceededAtMost
    <3>7. SERVER_LIMIT \in Nat
      BY DiscordVpsAssumption
    <3> QED
      BY <3>4, <3>5, <3>6, <3>7
  <2> QED
    BY <2>1, <2>2
<1> QED
  BY <1>4 DEF OwnedFinite, LimitExceededAtMost

\* Commands that pass the check together exceed the limit of a user by fewer
\* VPSs than commands may be in flight together.
THEOREM VpsLimitHolds == Spec => []LimitExceededAtMost
<1>1. Init => LimitInv
  <2> SUFFICES ASSUME Init PROVE LimitInv
    OBVIOUS
  <2>1. TypeOK
    BY DEF Init, TypeOK, State
  <2>2. \A u \in User : Owned(u) = {} /\ Creating(u) = {}
    BY DiscordVpsAssumption DEF Init, Owned, Creating, Idle
  <2>3. /\ IsFiniteSet({}) /\ Cardinality({}) = 0
        /\ Cardinality(Slot) \in Nat /\ SERVER_LIMIT \in Nat \ {0}
    BY FS_EmptySet, FS_CardinalityType, DiscordVpsAssumption
  <2>4. 0 + 0 < SERVER_LIMIT + Cardinality(Slot)
    BY <2>3
  <2> QED
    BY <2>1, <2>2, <2>3, <2>4 DEF LimitInv, OwnedFinite, LimitExceededAtMost
<1>2. LimitInv /\ TypeOK' /\ [Next]_vars => LimitInv'
  <2> SUFFICES ASSUME LimitInv, TypeOK', [Next]_vars PROVE OwnedFinite' /\ LimitExceededAtMost'
    BY DEF LimitInv
  <2>f. failures \in Nat
    BY DEF LimitInv, TypeOK
  <2>1. CASE UNCHANGED <<owner, cmd, failures>>
    <3>1. \A u : Owned(u)' = Owned(u) /\ Creating(u)' = Creating(u)
      BY <2>1 DEF Owned, Creating
    <3> QED
      BY <2>1, <3>1 DEF LimitInv, OwnedFinite, LimitExceededAtMost
  <2>2. CASE Crash
    <3>1. \A u \in User : Owned(u)' \subseteq Owned(u) /\ Creating(u)' \subseteq Creating(u)
      BY <2>2 DEF Crash, store, Owned, Creating, Idle
    <3>2. failures' = failures
      BY <2>2 DEF Crash
    <3> QED
      BY <3>1, <3>2, NoMore DEF OwnedFinite, LimitExceededAtMost
  <2>3. ASSUME NEW s \in Slot, Begins(s)
        PROVE  OwnedFinite' /\ LimitExceededAtMost'
    <3>1. CASE \E u \in User : createVps(s, u)
      BY <3>1, CreationBegins
    <3>2. CASE ~\E u \in User : createVps(s, u)
      <4>1. PICK next : /\ Goto(s, next) /\ next.at \in {"rm", "stop", "commit"}
                        /\ UNCHANGED <<owner, failures>>
        BY <2>3, <3>2 DEF Begins, deleteVps, restoreBackup, createBackup, Begin, store
      <4> QED
        BY <4>1, NoMoreOf
    <3> QED
      BY <3>1, <3>2
  <2>4. ASSUME NEW s \in Slot, Step(s)
        PROVE  OwnedFinite' /\ LimitExceededAtMost'
    <3>t. cmd[s] \in {Idle} \cup Command
      BY DEF LimitInv, TypeOK
    <3>f. failures' = 0 => failures = 0
      <4>1. Succeeds \/ Fails
        BY <2>4 DEF Step, Run, Insert, Rm, Unlist, Commit, Record, Select, Rmi, Forget,
                    Stop, Remove, Replace
      <4> QED
        BY <2>f, <4>1 DEF Succeeds, Fails
    <3>i. Idle.at = "idle"
      BY DEF Idle
    <3>1. CASE Run(s)
      <4>1. PICK next : /\ Goto(s, next) /\ UNCHANGED owner /\ cmd[s].at = "run"
                        /\ next.at = "idle" \/ (next.at = "insert" /\ next.user = cmd[s].user)
        <5>1. /\ UNCHANGED owner /\ cmd[s].at = "run"
              /\ \/ Goto(s, Idle)
                 \/ \E c : Goto(s, [at |-> "insert", user |-> cmd[s].user, c |-> c])
          BY <3>1 DEF Run
        <5>2. CASE Goto(s, Idle)
          BY <3>i, <5>1, <5>2
        <5>3. ASSUME NEW c, Goto(s, [at |-> "insert", user |-> cmd[s].user, c |-> c])
              PROVE  \E next : /\ Goto(s, next) /\ UNCHANGED owner /\ cmd[s].at = "run"
                               /\ next.at = "idle"
                                  \/ (next.at = "insert" /\ next.user = cmd[s].user)
          <6> DEFINE insert == [at |-> "insert", user |-> cmd[s].user, c |-> c]
          <6>1. insert.at = "insert" /\ insert.user = cmd[s].user
            OBVIOUS
          <6> HIDE DEF insert
          <6>2. Goto(s, insert)
            BY <5>3 DEF insert
          <6> QED
            BY <5>1, <6>1, <6>2
        <5> QED
          BY <5>1, <5>2, <5>3
      <4> QED
        BY <3>f, <4>1, NoMoreOf
    <3>2. CASE Insert(s)
      <4>1. CASE owner' = [owner EXCEPT ![cmd[s].c] = cmd[s].user] /\ failures' = failures
        BY <3>2, <4>1, CreationEnds DEF Insert
      <4>2. CASE owner' = owner
        BY <3>2, <3>f, <3>i, <4>2, NoMoreOf DEF Insert
      <4> QED
        BY <3>2, <4>1, <4>2 DEF Insert, Succeeds
    <3>3. CASE Unlist(s)
      <4>1. \A c \in Container : owner'[c] = owner[c] \/ owner'[c] = Nobody
        BY <3>3 DEF Unlist, LimitInv, TypeOK
      <4> QED
        BY <3>3, <3>f, <3>i, <4>1, NoMoreOf DEF Unlist
    <3>4. CASE Rm(s)
      <4>1. PICK next : Goto(s, next) /\ next.at \in {"idle", "unlist"} /\ UNCHANGED owner
        BY <3>4, <3>i DEF Rm
      <4> QED
        BY <3>f, <4>1, NoMoreOf
    <3>5. CASE Commit(s)
      <4>1. cmd[s] \in MakeBackup
        BY <3>t, <3>5 DEF Commit, Command, Create, Delete, MakeBackup, Retention, Restore, Idle
      <4>2. [cmd[s] EXCEPT !.at = "record"].at = "record"
        BY <4>1 DEF MakeBackup
      <4>3. PICK next : Goto(s, next) /\ next.at \in {"idle", "record"} /\ UNCHANGED owner
        BY <3>5, <3>i, <4>2 DEF Commit
      <4> QED
        BY <3>f, <4>3, NoMoreOf
    <3>6. CASE Record(s) \/ Select(s) \/ Rmi(s) \/ Forget(s)
      <4>1. \A c, todo, expired : Continue(c, todo, expired).at \in {"idle", "retain"}
        BY <3>i DEF Continue
      <4>2. PICK next : Goto(s, next) /\ next.at \in {"idle", "retain", "forget"} /\ UNCHANGED owner
        <5>1. CASE Record(s)
          BY <5>1, <4>1 DEF Record
        <5>2. CASE Select(s)
          BY <3>i, <5>2, <4>1 DEF Select, store
        <5>3. CASE Rmi(s)
          <6>1. PICK b : \/ Goto(s, Continue(cmd[s].c, cmd[s].todo, cmd[s].expired \ {b}))
                         \/ Goto(s, [at |-> "forget", c |-> cmd[s].c, todo |-> cmd[s].todo,
                                     expired |-> cmd[s].expired \ {b}, row |-> b])
            BY <5>3 DEF Rmi
          <6> DEFINE forget == [at |-> "forget", c |-> cmd[s].c, todo |-> cmd[s].todo,
                                expired |-> cmd[s].expired \ {b}, row |-> b]
          <6>2. forget.at = "forget"
            OBVIOUS
          <6> HIDE DEF forget
          <6>3. Goto(s, Continue(cmd[s].c, cmd[s].todo, cmd[s].expired \ {b})) \/ Goto(s, forget)
            BY <6>1 DEF forget
          <6>4. owner' = owner
            BY <5>3 DEF Rmi
          <6> QED
            BY <4>1, <6>2, <6>3, <6>4
        <5>4. CASE Forget(s)
          BY <3>i, <5>4, <4>1 DEF Forget
        <5> QED
          BY <3>6, <5>1, <5>2, <5>3, <5>4
      <4> QED
        BY <3>f, <4>2, NoMoreOf
    <3>7. CASE Stop(s) \/ Remove(s) \/ Replace(s)
      <4>1. cmd[s] \in Restore
        BY <3>t, <3>7 DEF Stop, Remove, Replace, Command, Create, Delete, MakeBackup,
                          Retention, Restore, Idle
      <4>2. /\ [cmd[s] EXCEPT !.at = "remove"].at = "remove"
            /\ [cmd[s] EXCEPT !.at = "replace"].at = "replace"
        BY <4>1 DEF Restore
      <4>3. PICK next : Goto(s, next) /\ next.at \in {"idle", "remove", "replace"} /\ UNCHANGED owner
        BY <3>7, <3>i, <4>2 DEF Stop, Remove, Replace
      <4> QED
        BY <3>f, <4>3, NoMoreOf
    <3> QED
      BY <2>4, <3>1, <3>2, <3>3, <3>4, <3>5, <3>6, <3>7 DEF Step
  <2> QED
    BY <2>1, <2>2, <2>3, <2>4 DEF Next, Power, vars, store
<1>3. LimitInv => LimitExceededAtMost
  BY DEF LimitInv
<1> QED
  BY <1>1, <1>2, <1>3, VpsTypeCorrect, PTL DEF Spec

=============================================================================
