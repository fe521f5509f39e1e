----------------------------- MODULE DiscordVps -----------------------------
(***************************************************************************)
(* The VPSs of the Discord service (modules/vpsManager.js and the commands *)
(* on top of it): containers of Docker, their rows in vps_containers, and  *)
(* the backups of them, images with rows in backup_rotation.               *)
(*                                                                         *)
(* A command is an async function that waits for the docker program or the *)
(* database at every step; commands in flight interleave at each wait, and *)
(* nothing locks a VPS.  Each wait is an action.                           *)
(***************************************************************************)
EXTENDS Naturals, FiniteSets

CONSTANTS
    User, Nobody,
    Container,          \* the ids Docker gives out
    Slot,               \* commands that may be in flight together
    Type,               \* retention types of backups
    BACKUP_RETENTION,   \* how many to keep of each type that is rotated
    SERVER_LIMIT,       \* VPSs a user may have
    MaxCommands,        \* bound: commands begun
    MaxFailures,        \* bound: calls of Docker and the database that fail
    MaxCrashes          \* bound: restarts of the service

Rotated == DOMAIN BACKUP_RETENTION

ASSUME DiscordVpsAssumption ==
    /\ Nobody \notin User
    /\ IsFiniteSet(Slot)
    /\ Rotated \subseteq Type /\ \A t \in Rotated : BACKUP_RETENTION[t] \in Nat
    /\ SERVER_LIMIT \in Nat \ {0}
    /\ {MaxCommands, MaxFailures, MaxCrashes} \subseteq Nat

VARIABLES
    docker,     \* the state of each container
    based,      \* the backup images it was made of in restores
    owner,      \* vps_containers: the user of each container with a row
    images,     \* backup images in Docker
    backups,    \* backup_rotation
    made,       \* rows inserted so far, by container and type
    inserted,   \* history: those rows
    second,     \* when the latest backup of each container was named
    cmd,        \* the commands in flight
    commands, failures, crashes

store == <<docker, based, owner, images, backups, made, inserted, second>>
vars == <<store, cmd, commands, failures, crashes>>

State == {"none", "running", "stopped", "removed"}

\* An image is named for the container and the second.  One that a container is
\* made of may lose its name to a later one: then it counts as of second 0.
Image == [c : Container, second : Nat]
Unnamed(i) == [i EXCEPT !.second = 0]

\* A row is the nth of its container and type.
Backup == [c : Container, type : Type, n : Nat, image : Image]

Idle == [at |-> "idle"]
Create == [at : {"run"}, user : User] \cup [at : {"insert"}, user : User, c : Container]
Delete == [at : {"rm", "unlist"}, c : Container]
MakeBackup == [at : {"commit", "record"}, c : Container, type : Type, image : Image]
Retention ==
    [at : {"retain"}, c : Container, todo : SUBSET Rotated, expired : SUBSET Backup]
    \cup [at : {"forget"}, c : Container, todo : SUBSET Rotated,
          expired : SUBSET Backup, row : Backup]
Restore == [at : {"stop", "remove", "replace"}, c : Container, image : Image]
Command == Create \cup Delete \cup MakeBackup \cup Retention \cup Restore

Exists(c) == docker[c] \in {"running", "stopped"}
Unused == {c \in Container : docker[c] = "none"}
Owned(u) == {c \in Container : owner[c] = u}
Quiescent == \A s \in Slot : cmd[s] = Idle
InUse == UNION {based[c] : c \in {d \in Container : Exists(d)}}

Begin(s) ==
    /\ cmd[s] = Idle
    /\ commands < MaxCommands /\ commands' = commands + 1
    /\ UNCHANGED <<store, crashes>>

Goto(s, next) == cmd' = [cmd EXCEPT ![s] = next]

\* A call succeeds, or fails, and then it may have taken effect nevertheless.
Succeeds == UNCHANGED <<commands, failures, crashes>>
Fails == failures < MaxFailures /\ failures' = failures + 1 /\ UNCHANGED <<commands, crashes>>

-----------------------------------------------------------------------------
\* createVps, and /deploy: the limit is checked against the rows; a query that
\* fails counts as no rows.
WithinLimitInclusive(u) == Cardinality(Owned(u)) <= SERVER_LIMIT
WithinLimit(u) == Cardinality(Owned(u)) < SERVER_LIMIT

createVps(s, u) ==
    /\ Begin(s)
    /\ \/ WithinLimit(u) /\ UNCHANGED failures
       \/ failures < MaxFailures /\ failures' = failures + 1
    /\ Goto(s, [at |-> "run", user |-> u])

Run(s) ==
    /\ cmd[s].at = "run"
    /\ \/ \E c \in Unused :
            /\ docker' = [docker EXCEPT ![c] = "running"]
            /\ \/ Succeeds /\ Goto(s, [at |-> "insert", user |-> cmd[s].user, c |-> c])
               \/ Fails /\ Goto(s, Idle)
       \/ Fails /\ Goto(s, Idle) /\ UNCHANGED docker
    /\ UNCHANGED <<based, owner, images, backups, made, inserted, second>>

\* addToDatabase.  Without a row the container stays, except that /deploy
\* removes one that opens no session.
Insert(s) ==
    /\ cmd[s].at = "insert"
    /\ \/ /\ owner' = [owner EXCEPT ![cmd[s].c] = cmd[s].user]
          /\ Succeeds /\ UNCHANGED docker
       \/ /\ docker' \in {docker, [docker EXCEPT ![cmd[s].c] = "removed"]}
          /\ Fails /\ UNCHANGED owner
    /\ Goto(s, Idle)
    /\ UNCHANGED <<based, images, backups, made, inserted, second>>

-----------------------------------------------------------------------------
\* deleteVps.  Docker versions differ in whether removing what is not there
\* fails.  The backups stay.
deleteVps(s, u, c) ==
    /\ Begin(s)
    /\ owner[c] = u
    /\ Goto(s, [at |-> "rm", c |-> c])
    /\ UNCHANGED failures

Rm(s) ==
    /\ cmd[s].at = "rm"
    /\ LET c == cmd[s].c
           gone == [docker EXCEPT ![c] = "removed"]
       IN \/ Exists(c) /\ Succeeds /\ docker' = gone /\ Goto(s, [at |-> "unlist", c |-> c])
          \/ Exists(c) /\ Fails /\ docker' \in {docker, gone} /\ Goto(s, Idle)
          \/ /\ ~Exists(c) /\ Succeeds /\ UNCHANGED docker
             /\ Goto(s, Idle) \/ Goto(s, [at |-> "unlist", c |-> c])
    /\ UNCHANGED <<based, owner, images, backups, made, inserted, second>>

\* removeFromDatabase: a failure is only logged.
Unlist(s) ==
    /\ cmd[s].at = "unlist"
    /\ \/ Succeeds /\ owner' = [owner EXCEPT ![cmd[s].c] = Nobody]
       \/ Fails /\ UNCHANGED owner
    /\ Goto(s, Idle)
    /\ UNCHANGED <<docker, based, images, backups, made, inserted, second>>

\* startVps, stopVps, restartVps, and the restart after vpsupdate.
Power(c) ==
    /\ Exists(c)
    /\ docker' \in {[docker EXCEPT ![c] = "running"], [docker EXCEPT ![c] = "stopped"]}
    /\ UNCHANGED <<based, owner, images, backups, made, inserted, second, cmd, commands, failures, crashes>>

-----------------------------------------------------------------------------
\* createBackup: the container is inspected and the image named, by a
\* timestamp cut to seconds: the name may be one that another backup has got.
Seconds(c) == {second[c] + 1} \cup ({second[c]} \ {0})

createBackup(s, c, t) ==
    /\ cmd[s] = Idle
    /\ commands < MaxCommands /\ commands' = commands + 1
    /\ owner[c] # Nobody /\ Exists(c)
    /\ \E w \in Seconds(c) :
         /\ second' = [second EXCEPT ![c] = w]
         /\ Goto(s, [at |-> "commit", c |-> c, type |-> t, image |-> [c |-> c, second |-> w]])
    /\ UNCHANGED <<docker, based, owner, images, backups, made, inserted, failures, crashes>>

\* docker commit: the name now denotes the new image.
Committed(i) ==
    /\ images' = images \cup {i}
    /\ based' = [c \in Container |->
                   IF i \in based[c] THEN (based[c] \ {i}) \cup {Unnamed(i)} ELSE based[c]]

CommitUnchecked(s) ==
    /\ cmd[s].at = "commit"
    /\ IF Exists(cmd[s].c) THEN Committed(cmd[s].image) ELSE UNCHANGED <<images, based>>
    /\ Succeeds
    /\ Goto(s, [cmd[s] EXCEPT !.at = "record"])
    /\ UNCHANGED <<docker, owner, backups, made, inserted, second>>
Commit(s) ==
    /\ cmd[s].at = "commit"
    /\ \/ Exists(cmd[s].c) /\ Succeeds
          /\ Committed(cmd[s].image)
          /\ Goto(s, [cmd[s] EXCEPT !.at = "record"])
       \/ Exists(cmd[s].c) /\ Fails
          /\ (Committed(cmd[s].image) \/ UNCHANGED <<images, based>>)
          /\ Goto(s, Idle)
       \/ ~Exists(cmd[s].c) /\ Succeeds /\ UNCHANGED <<images, based>> /\ Goto(s, Idle)
    /\ UNCHANGED <<docker, owner, backups, made, inserted, second>>

\* The rest of applyRetention.
Continue(c, todo, expired) ==
    IF todo = {} /\ expired = {} THEN Idle
    ELSE [at |-> "retain", c |-> c, todo |-> todo, expired |-> expired]

NextRowBare(b) == [c |-> b.c, type |-> b.type, n |-> made[b.c][b.type] + 1]
NextRow(b) ==
    [c |-> b.c, type |-> b.type, n |-> made[b.c][b.type] + 1, image |-> b.image]

\* A row that cannot be inserted is only logged, and retention applied anyway.
Record(s) ==
    /\ cmd[s].at = "record"
    /\ \/ /\ Succeeds
          /\ backups' = backups \cup {NextRow(cmd[s])}
          /\ made' = [made EXCEPT ![cmd[s].c][cmd[s].type] = @ + 1]
          /\ inserted' = inserted \cup {NextRow(cmd[s])}
       \/ Fails /\ UNCHANGED <<backups, made, inserted>>
    /\ Goto(s, Continue(cmd[s].c, Rotated, {}))
    /\ UNCHANGED <<docker, based, owner, images, second>>

-----------------------------------------------------------------------------
\* The rows of a container and type, the newest first, without as many as are
\* to be kept.
Places(c, t) == {b.n : b \in {d \in backups : d.c = c /\ d.type = t}}
ExpiredLate(c, t) ==
    {b \in backups : /\ b.c = c /\ b.type = t
                     /\ Cardinality({n \in Places(c, t) : n > b.n}) > BACKUP_RETENTION[t]}
ExpiredOldest(c, t) ==
    {b \in backups : /\ b.c = c /\ b.type = t
                     /\ Cardinality({n \in Places(c, t) : n < b.n}) >= BACKUP_RETENTION[t]}
Expired(c, t) ==
    {b \in backups : /\ b.c = c /\ b.type = t
                     /\ Cardinality({n \in Places(c, t) : n > b.n}) >= BACKUP_RETENTION[t]}

\* The types are taken in the order of the configuration, which changes nothing.
Select(s) ==
    /\ cmd[s].at = "retain" /\ cmd[s].expired = {}
    /\ \E t \in cmd[s].todo :
         \/ Succeeds /\ Goto(s, Continue(cmd[s].c, cmd[s].todo \ {t}, Expired(cmd[s].c, t)))
         \/ Fails /\ Goto(s, Idle)
    /\ UNCHANGED store

\* docker rmi: an image in use stays.  A row whose image was not removed is
\* kept for the next time.
Rmi(s) ==
    /\ cmd[s].at = "retain"
    /\ \E b \in cmd[s].expired :
         LET rest == cmd[s].expired \ {b}
             skip == Continue(cmd[s].c, cmd[s].todo, rest)
             removable == b.image \in images /\ b.image \notin InUse
         IN /\ \A d \in cmd[s].expired : d.n <= b.n
            /\ \/ /\ removable /\ Succeeds
                  /\ images' = images \ {b.image}
                  /\ Goto(s, [at |-> "forget", c |-> cmd[s].c, todo |-> cmd[s].todo,
                              expired |-> rest, row |-> b])
               \/ removable /\ Fails /\ images' \in {images, images \ {b.image}} /\ Goto(s, skip)
               \/ ~removable /\ Succeeds /\ UNCHANGED images /\ Goto(s, skip)
    /\ UNCHANGED <<docker, based, owner, backups, made, inserted, second>>

\* The row of a removed image is deleted; a failure ends the retention.
Forget(s) ==
    /\ cmd[s].at = "forget"
    /\ \/ /\ Succeeds
          /\ backups' = backups \ {cmd[s].row}
          /\ Goto(s, Continue(cmd[s].c, cmd[s].todo, cmd[s].expired))
       \/ Fails /\ backups' \in {backups, backups \ {cmd[s].row}} /\ Goto(s, Idle)
    /\ UNCHANGED <<docker, based, owner, images, made, inserted, second>>

-----------------------------------------------------------------------------
\* restoreBackup: the row and its image are looked up ...
restoreBackup(s, u, c) ==
    /\ Begin(s)
    /\ owner[c] = u
    /\ \E b \in backups :
         /\ b.c = c /\ b.image \in images
         /\ Goto(s, [at |-> "stop", c |-> c, image |-> b.image])
    /\ UNCHANGED failures

\* ... the container stopped and removed, whether or not that fails ...
Stop(s) ==
    /\ cmd[s].at = "stop"
    /\ \/ /\ docker' = IF docker[cmd[s].c] = "running"
                       THEN [docker EXCEPT ![cmd[s].c] = "stopped"] ELSE docker
          /\ Succeeds
       \/ Fails /\ UNCHANGED docker
    /\ Goto(s, [cmd[s] EXCEPT !.at = "remove"])
    /\ UNCHANGED <<based, owner, images, backups, made, inserted, second>>

Remove(s) ==
    /\ cmd[s].at = "remove"
    /\ \/ /\ docker' = IF docker[cmd[s].c] = "stopped"
                       THEN [docker EXCEPT ![cmd[s].c] = "removed"] ELSE docker
          /\ Succeeds
       \/ Fails /\ UNCHANGED docker
    /\ Goto(s, [cmd[s] EXCEPT !.at = "replace"])
    /\ UNCHANGED <<based, owner, images, backups, made, inserted, second>>

\* ... and one made of the image that is named like the old one, so that the
\* row denotes it.  If the old one is still there the row denotes that, and the
\* new one, if the name was free, only keeps the image in use.
Replace(s) ==
    /\ cmd[s].at = "replace"
    /\ \/ /\ cmd[s].image \in images /\ ~Exists(cmd[s].c) /\ Succeeds
          /\ docker' = [docker EXCEPT ![cmd[s].c] = "running"]
          /\ based' = [based EXCEPT ![cmd[s].c] = {cmd[s].image}]
       \/ /\ cmd[s].image \in images /\ Exists(cmd[s].c) /\ Succeeds
          /\ based' \in {based, [based EXCEPT ![cmd[s].c] = @ \cup {cmd[s].image}]}
          /\ UNCHANGED docker
       \/ cmd[s].image \notin images /\ Succeeds /\ UNCHANGED <<docker, based>>
       \/ Fails /\ UNCHANGED <<docker, based>>
    /\ Goto(s, Idle)
    /\ UNCHANGED <<owner, images, backups, made, inserted, second>>

-----------------------------------------------------------------------------
\* The service stops, and with it what was in flight.
Crash ==
    /\ crashes < MaxCrashes /\ crashes' = crashes + 1
    /\ cmd' = [s \in Slot |-> Idle]
    /\ UNCHANGED <<store, commands, failures>>

Init ==
    /\ docker = [c \in Container |-> "none"]
    /\ based = [c \in Container |-> {}]
    /\ owner = [c \in Container |-> Nobody]
    /\ images = {} /\ backups = {} /\ inserted = {}
    /\ made = [c \in Container |-> [t \in Type |-> 0]]
    /\ second = [c \in Container |-> 0]
    /\ cmd = [s \in Slot |-> Idle]
    /\ commands = 0 /\ failures = 0 /\ crashes = 0

Begins(s) ==
    \/ \E u \in User : createVps(s, u)
    \/ \E u \in User, c \in Container : deleteVps(s, u, c) \/ restoreBackup(s, u, c)
    \/ \E c \in Container, t \in Type : createBackup(s, c, t)

Step(s) ==
    \/ Run(s) \/ Insert(s)
    \/ Rm(s) \/ Unlist(s)
    \/ Commit(s) \/ Record(s) \/ Select(s) \/ Rmi(s) \/ Forget(s)
    \/ Stop(s) \/ Remove(s) \/ Replace(s)

Next ==
    \/ \E s \in Slot : Begins(s) \/ Step(s)
    \/ \E c \in Container : Power(c)
    \/ Crash

Spec == Init /\ [][Next]_vars

-----------------------------------------------------------------------------
TypeOK ==
    /\ docker \in [Container -> State]
    /\ based \in [Container -> SUBSET Image]
    /\ owner \in [Container -> User \cup {Nobody}]
    /\ images \subseteq Image /\ backups \subseteq Backup /\ inserted \subseteq Backup
    /\ made \in [Container -> [Type -> Nat]]
    /\ second \in [Container -> Nat]
    /\ cmd \in [Slot -> {Idle} \cup Command]
    /\ commands \in Nat /\ failures \in Nat /\ crashes \in Nat

\* The newest backups of a type, as many as are to be kept, are listed, however
\* backups, retentions, restores, failures and restarts interleave; and each has
\* its image, unless it shares the name of the image with a backup, made in the
\* same second, that as many younger ones of its type have followed as are to be
\* kept (expiring that one removes the image of both).
Past(b) == b.type \in Rotated /\ b.n + BACKUP_RETENTION[b.type] <= made[b.c][b.type]
NewestBackupsKept ==
    \A c \in Container, t \in Rotated : \A n \in 1..made[c][t] :
        n + BACKUP_RETENTION[t] > made[c][t] =>
            \E b \in backups :
                /\ b.c = c /\ b.type = t /\ b.n = n
                /\ b.image \in images \/ \E d \in inserted : Past(d) /\ d.image = b.image

\* A backup whose image went with a row, deleted since, of the same second.
Shadowed(b) == \E d \in inserted \ backups : d.image = b.image

\* When all is quiet and nothing failed, every listed backup can be restored:
\* its image is there, unless a backup made in the same second has expired and
\* taken it along.
ListedBackupsExist ==
    Quiescent /\ failures = 0 /\ crashes = 0 =>
        \A b \in backups : b.image \in images \/ Shadowed(b)

\* When all is quiet, nothing failed and nothing was restored, no more backups
\* of a type are listed than are to be kept, apart from those whose image went
\* with another row: the retention skips them, for good.
RetentionApplied ==
    /\ Quiescent /\ failures = 0 /\ crashes = 0
    /\ \A c \in Container : based[c] = {}
    => \A c \in Container, t \in Rotated :
         Cardinality({b \in backups : b.c = c /\ b.type = t /\ ~Shadowed(b)})
            <= BACKUP_RETENTION[t]

\* "Instance limit reached": commands that check the limit together may
\* exceed it, but by no more VPSs than there are other commands.
Creating(u) == {s \in Slot : cmd[s].at \in {"run", "insert"} /\ cmd[s].user = u}
LimitExceededAtMost ==
    failures = 0 => \A u \in User :
        Cardinality(Owned(u)) + Cardinality(Creating(u)) < SERVER_LIMIT + Cardinality(Slot)

=============================================================================
