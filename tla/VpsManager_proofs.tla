-------------------------- MODULE VpsManager_proofs --------------------------
(***************************************************************************)
(* Proofs about VpsManager, for any number of containers, coroutines,      *)
(* failures and restarts: the inventory names each VPS at most once, and   *)
(* forgets none but those that are deleted, and the file is the inventory  *)
(* once nobody saves it and the latest save succeeded.                     *)
(*                                                                         *)
(* What makes it inductive: the inventory, the file, and every snapshot on *)
(* its way to the file name only containers that Docker gave out, each VPS *)
(* once, so a new container is a new name and a reload is as good as what  *)
(* was saved.                                                              *)
(***************************************************************************)
EXTENDS VpsManager, SequenceTheorems, FiniteSetTheorems, TLAPS

Once(f) == \A c, d \in DOMAIN f : f[c].vps = f[d].vps => c = d
Known(f, dk) == \A c \in DOMAIN f : dk[c] # "none" /\ dk[f[c].vps] # "none"
Proper(f, dk) == IsInventory(f) /\ Once(f) /\ Known(f, dk)

IInv ==
    /\ TypeOK
    /\ Proper(instances, docker) /\ Proper(file, docker)
    /\ \A t \in Task : task[t].at = "writing" => Proper(task[t].content, docker)
    /\ \A c \in rows \cup deleted : docker[c] # "none"
    /\ \A c \in DOMAIN instances : instances[c].vps \notin deleted

\* Docker never takes an id back.
Later(dk, dk2) == \A c \in Container : dk2[c] = "none" => dk[c] = "none"

\* No VPS of f is missing in g, except those in gone.
Keeps(f, g, gone) ==
    \A c \in DOMAIN f : f[c].vps \in gone \/ \E d \in DOMAIN g : g[d].vps = f[c].vps

-----------------------------------------------------------------------------
(***************************************************************************)
(* What the operations on inventories preserve.                            *)
(***************************************************************************)
LEMMA LaterProper ==
  ASSUME NEW f, NEW dk, NEW dk2, Proper(f, dk), Later(dk, dk2)
  PROVE  Proper(f, dk2)
BY DEF Proper, Known, Later, IsInventory, Info

\* Another status.
LEMMA StatusProper ==
  ASSUME NEW f, NEW dk, NEW g, Proper(f, dk), DOMAIN g = DOMAIN f,
         \A d \in DOMAIN f : g[d] \in Info /\ g[d].vps = f[d].vps
  PROVE  Proper(g, dk)
BY DEF Proper, IsInventory, Once, Known

\* A container that Docker just gave out.
LEMMA NewProper ==
  ASSUME NEW f, NEW dk, NEW dk2, NEW c \in Container, NEW g,
         Proper(f, dk), Later(dk, dk2),
         DOMAIN g = DOMAIN f \cup {c}, \A d \in DOMAIN f : g[d] = f[d],
         g[c] \in Info, dk[c] = "none", dk2[c] # "none", dk2[g[c].vps] # "none",
         \A d \in DOMAIN f : f[d].vps # g[c].vps
  PROVE  Proper(g, dk2)
<1>1. IsInventory(g)
  BY DEF Proper, IsInventory
<1>2. Once(g)
  BY DEF Proper, Once
<1>3. Known(g, dk2)
  BY DEF Proper, Known, Later, IsInventory, Info
<1> QED
  BY <1>1, <1>2, <1>3 DEF Proper

\* One container less.
LEMMA LessProper ==
  ASSUME NEW f, NEW dk, NEW c, NEW g, Proper(f, dk),
         DOMAIN g = DOMAIN f \ {c}, \A d \in DOMAIN g : g[d] = f[d]
  PROVE  Proper(g, dk)
BY DEF Proper, IsInventory, Once, Known

-----------------------------------------------------------------------------
(***************************************************************************)
(* What a step of the running process does to Docker and the inventory.    *)
(***************************************************************************)
Effect ==
    /\ docker' \in [Container -> State] /\ Later(docker, docker')
    /\ Proper(instances', docker')
    /\ deleted' \subseteq Container /\ \A c \in deleted' : docker'[c] # "none"
    /\ \A c \in DOMAIN instances' : instances'[c].vps \notin deleted'
    /\ Keeps(instances, instances', deleted')

LEMMA NothingEffect ==
  ASSUME IInv, UNCHANGED <<instances, deleted>>, docker' \in [Container -> State],
         Later(docker, docker')
  PROVE  Effect
BY LaterProper DEF IInv, TypeOK, Effect, Keeps, Later

LEMMA StatusEffect ==
  ASSUME IInv, NEW c \in DOMAIN instances, NEW s \in {"running", "stopped", "unknown"},
         instances' = [instances EXCEPT ![c].status = s], deleted' = deleted,
         docker' \in [Container -> State], Later(docker, docker')
  PROVE  Effect
<1>1. Proper(instances, docker')
  BY LaterProper DEF IInv
<1>2. /\ DOMAIN instances' = DOMAIN instances
      /\ \A d \in DOMAIN instances : instances'[d] \in Info /\ instances'[d].vps = instances[d].vps
  BY DEF IInv, TypeOK, IsInventory, Info
<1>3. Proper(instances', docker')
  BY <1>1, <1>2, StatusProper
<1> QED
  BY <1>2, <1>3 DEF IInv, TypeOK, Effect, Keeps, Later

\* A container goes from one state it exists in to another.
LEMMA StateLater ==
  ASSUME TypeOK, NEW c \in Container, NEW s \in State \ {"none"},
         docker' = [docker EXCEPT ![c] = s]
  PROVE  docker' \in [Container -> State] /\ Later(docker, docker')
BY DEF TypeOK, Later

LEMMA CreateEffect ==
  ASSUME IInv, NEW t \in Task, create_vps(t)
  PROVE  Effect
<1>1. PICK c \in Unused :
        /\ docker' = [docker EXCEPT ![c] = "running"]
        /\ instances' = With(instances, c, [vps |-> c, status |-> "running", config |-> TRUE])
  BY DEF create_vps
<1> DEFINE info == [vps |-> c, status |-> "running", config |-> TRUE]
<1>2. c \in Container /\ docker[c] = "none" /\ info \in Info /\ info.vps = c
  BY DEF Unused, Info
<1>3. docker' \in [Container -> State] /\ Later(docker, docker') /\ docker'[c] # "none"
  BY <1>1, <1>2, StateLater DEF IInv, TypeOK, State
<1>4. c \notin DOMAIN instances /\ \A d \in DOMAIN instances : instances[d].vps # c
  BY <1>2 DEF IInv, Proper, Known
<1>b. instances' = With(instances, c, info)
  BY <1>1
<1> HIDE DEF info
<1>a. /\ DOMAIN instances' = DOMAIN instances \cup {c}
      /\ instances'[c] = info /\ \A d \in DOMAIN instances : instances'[d] = instances[d]
  BY <1>4, <1>b DEF With
<1>c. instances'[c] \in Info /\ instances'[c].vps = c
  BY <1>2, <1>a
<1>5. Proper(instances', docker')
  <2>1. Proper(instances, docker)
    BY DEF IInv
  <2> QED
    BY <1>2, <1>3, <1>4, <1>a, <1>c, <2>1, NewProper
<1>6. deleted' = deleted /\ c \notin deleted
  BY <1>2 DEF create_vps, IInv
<1> QED
  BY <1>2, <1>3, <1>a, <1>c, <1>5, <1>6 DEF IInv, TypeOK, Effect, Keeps, Later

LEMMA DeleteEffect ==
  ASSUME IInv, NEW t \in Task, NEW c \in Container, delete_vps(t, c)
  PROVE  Effect
<1>1. /\ docker' = [docker EXCEPT ![c] = "removed"] /\ instances' = Without(instances, c)
      /\ deleted' = deleted \cup {instances[d].vps : d \in DOMAIN instances \cap {c}}
  BY DEF delete_vps
<1>2. docker' \in [Container -> State] /\ Later(docker, docker')
  BY <1>1, StateLater DEF IInv, State
<1>3. Proper(instances, docker')
  BY <1>2, LaterProper DEF IInv
<1>4. /\ DOMAIN instances' = DOMAIN instances \ {c}
      /\ \A d \in DOMAIN instances' : instances'[d] = instances[d]
  BY <1>1 DEF Without
<1>a. Proper(instances', docker')
  BY <1>3, <1>4, LessProper
<1>5. deleted' \subseteq Container /\ \A d \in deleted' : docker'[d] # "none"
  BY <1>1, <1>2, <1>3 DEF IInv, TypeOK, Proper, Known, IsInventory, Info, Later
<1>6. \A d \in DOMAIN instances' : instances'[d].vps \notin deleted'
  BY <1>1, <1>4 DEF IInv, Proper, Once
<1>7. Keeps(instances, instances', deleted')
  BY <1>1, <1>4 DEF Keeps
<1> QED
  BY <1>2, <1>a, <1>5, <1>6, <1>7 DEF Effect

LEMMA ReplaceEffect ==
  ASSUME IInv, NEW t \in Task, NEW c, NEW q, Replace(t, c, q), deleted' = deleted
  PROVE  Effect
<1>1. CASE UNCHANGED <<docker, instances>>
  BY <1>1, NothingEffect DEF IInv, TypeOK, Later
<1>2. ASSUME NEW d \in Unused, c \in DOMAIN instances,
             docker' = [docker EXCEPT ![d] = "running"], instances' = Swapped(c, d)
      PROVE  Effect
  <2> DEFINE less == Without(instances, c)
  <2>a. /\ DOMAIN less = DOMAIN instances \ {c}
        /\ \A e \in DOMAIN less : less[e] = instances[e]
    BY DEF Without
  <2>2. instances' = With(less, d, instances[c])
    BY <1>2 DEF Swapped
  <2> HIDE DEF less
  <2>1. Proper(less, docker)
    BY <2>a, LessProper DEF IInv
  <2>3. d \in Container /\ docker[d] = "none"
    BY <1>2 DEF Unused
  <2>4. docker' \in [Container -> State] /\ Later(docker, docker') /\ docker'[d] # "none"
    BY <1>2, <2>3, StateLater DEF IInv, TypeOK, State
  <2>5. /\ instances[c] \in Info /\ docker'[instances[c].vps] # "none"
        /\ \A e \in DOMAIN less : less[e].vps # instances[c].vps
    BY <1>2, <2>a, <2>4 DEF IInv, Proper, Known, Once, IsInventory, Info, Later
  <2>b. d \notin DOMAIN less
    BY <2>1, <2>3 DEF Proper, Known
  <2>c. /\ DOMAIN instances' = DOMAIN less \cup {d}
        /\ instances'[d] = instances[c] /\ \A e \in DOMAIN less : instances'[e] = less[e]
    BY <2>2, <2>b DEF With
  <2>6. Proper(instances', docker')
    BY <2>1, <2>c, <2>3, <2>4, <2>5, NewProper
  <2>7. \A e \in DOMAIN instances' : instances'[e].vps \notin deleted'
    BY <1>2, <2>a, <2>c DEF IInv
  <2>8. Keeps(instances, instances', deleted')
    BY <1>2, <2>a, <2>c DEF Keeps
  <2> QED
    BY <2>4, <2>6, <2>7, <2>8 DEF Effect, IInv, TypeOK, Later
<1> QED
  BY <1>1, <1>2 DEF Replace

LEMMA SetStateEffect ==
  ASSUME IInv, NEW t \in Task, NEW c \in Container, NEW s \in {"running", "stopped"},
         NEW then, SetState(t, c, s, then), deleted' = deleted
  PROVE  Effect
<1>1. docker' \in [Container -> State] /\ Later(docker, docker')
  BY StateLater DEF SetState, IInv, State
<1>2. CASE c \in DOMAIN instances
  BY <1>1, <1>2, StatusEffect DEF SetState
<1>3. CASE c \notin DOMAIN instances
  BY <1>1, <1>3, NothingEffect DEF SetState
<1> QED
  BY <1>2, <1>3

LEMMA UpdateEffect ==
  ASSUME IInv, NEW t \in Task, NEW c \in Container, update_vps_config(t, c)
  PROVE  Effect
<1>1. PICK s \in {"running", "stopped"}, st \in {"running", "stopped", "unknown"} :
        /\ docker' = [docker EXCEPT ![c] = s]
        /\ IF c \in DOMAIN instances
           THEN instances' = [instances EXCEPT ![c].status = st]
           ELSE UNCHANGED instances
  BY DEF update_vps_config, Exists
<1>2. docker' \in [Container -> State] /\ Later(docker, docker') /\ deleted' = deleted
  BY <1>1, StateLater DEF IInv, State, update_vps_config
<1>3. CASE c \in DOMAIN instances
  BY <1>1, <1>2, <1>3, StatusEffect
<1>4. CASE c \notin DOMAIN instances
  BY <1>1, <1>2, <1>4, NothingEffect
<1> QED
  BY <1>3, <1>4

\* Only a restart has no effect of this kind.
LEMMA StepEffect ==
  ASSUME IInv, NEW t \in Task, Request(t) \/ Save(t)
  PROVE  Effect
<1>0. docker \in [Container -> State] /\ Later(docker, docker)
  BY DEF IInv, TypeOK, Later
<1>1. CASE create_vps(t)
  BY <1>1, CreateEffect
<1>2. ASSUME NEW c \in Container, delete_vps(t, c) PROVE Effect
  BY <1>2, DeleteEffect
<1>3. ASSUME NEW c \in Container, delete_vps_fails(t, c) PROVE Effect
  <2>1. docker' \in [Container -> State] /\ Later(docker, docker')
    BY <1>3, StateLater DEF delete_vps_fails, IInv, State
  <2> QED
    BY <1>3, <2>1, NothingEffect DEF delete_vps_fails
<1>4. ASSUME NEW c \in Container, NEW s \in {"running", "stopped"}, start_stop_vps(t, c, s)
      PROVE Effect
  BY <1>4, SetStateEffect DEF start_stop_vps
<1>5. ASSUME NEW c \in Container, update_vps_config(t, c) PROVE Effect
  BY <1>5, UpdateEffect
<1>6. ASSUME NEW c \in Container, update_vps_config_refused(t, c) PROVE Effect
  BY <1>0, <1>6, StatusEffect DEF update_vps_config_refused
<1>7. ASSUME NEW c \in Container, create_backup(t, c) PROVE Effect
  BY <1>0, <1>7, NothingEffect DEF create_backup
<1>8. ASSUME NEW c \in Container, restore_backup(t, c) PROVE Effect
  BY <1>8, SetStateEffect, ReplaceEffect DEF restore_backup
<1>9. CASE Open(t)
  BY <1>0, <1>9, NothingEffect DEF Open
<1>10. CASE Write(t) \/ SaveFails(t)
  <2>1. Resume(t) /\ deleted' = deleted
    BY <1>10 DEF Write, SaveFails
  <2>2. CASE UNCHANGED <<docker, instances>>
    BY <1>0, <2>1, <2>2, NothingEffect
  <2>3. CASE Replace(t, task[t].c, Tail(queue))
    BY <2>1, <2>3, ReplaceEffect
  <2> QED
    BY <2>1, <2>2, <2>3 DEF Resume
<1> QED
  BY <1>1, <1>2, <1>3, <1>4, <1>5, <1>6, <1>7, <1>8, <1>9, <1>10 DEF Request, Save

-----------------------------------------------------------------------------
(***************************************************************************)
(* The coroutines and their queue.                                         *)
(***************************************************************************)
\* A coroutine that is writing has what it had, or the inventory.
TaskEffect ==
    /\ queue' \in Seq(Task) /\ DOMAIN task' = Task
    /\ \A u \in Task : /\ IsTask(task'[u])
                       /\ task'[u].at = "writing" =>
                            \/ task'[u].content = instances
                            \/ task[u].at = "writing" /\ task'[u].content = task[u].content

LEMMA TaskMoves ==
  ASSUME TypeOK, NEW t \in Task, NEW s, task' = [task EXCEPT ![t] = s], queue' \in Seq(Task),
         IsTask(s), s.at = "writing" => s.content = instances
  PROVE  TaskEffect
BY DEF TypeOK, TaskEffect

LEMMA TaskStays ==
  ASSUME TypeOK, UNCHANGED <<task, queue>>
  PROVE  TaskEffect
BY DEF TypeOK, TaskEffect

LEMMA SavingTask ==
  ASSUME NEW then \in {"return", "remove_from_database", "replace"}, NEW c \in Container
  PROVE  IsTask(Saving(then, c)) /\ Saving(then, c).at # "writing"
BY DEF IsTask, Saving

LEMMA IdleTask == IsTask(Idle) /\ Idle.at # "writing"
BY DEF IsTask, Idle

LEMMA SavesTask ==
  ASSUME TypeOK, NEW t \in Task, NEW c \in Container,
         NEW then \in {"return", "remove_from_database", "replace"},
         save_instances(t, then, c)
  PROVE  TaskEffect
<1>1. queue' \in Seq(Task)
  BY DEF TypeOK, save_instances
<1>2. task' = [task EXCEPT ![t] = Saving(then, c)]
  BY DEF save_instances
<1> QED
  BY <1>1, <1>2, SavingTask, TaskMoves

LEMMA ReplaceTask ==
  ASSUME TypeOK, NEW t \in Task, NEW c, NEW q \in Seq(Task), Replace(t, c, q)
  PROVE  TaskEffect
<1>1. ASSUME NEW d \in Unused, queue' = Append(q, t), task' = [task EXCEPT ![t] = Saving("return", d)]
      PROVE  TaskEffect
  <2>1. d \in Container /\ queue' \in Seq(Task)
    BY <1>1 DEF Unused
  <2> QED
    BY <1>1, <2>1, SavingTask, TaskMoves
<1>2. CASE queue' = q /\ task' = [task EXCEPT ![t] = Idle]
  BY <1>2, IdleTask, TaskMoves
<1> QED
  BY <1>1, <1>2 DEF Replace

LEMMA ResumeTask ==
  ASSUME TypeOK, NEW t \in Task, HasLock(t), Resume(t)
  PROVE  TaskEffect
<1>1. Tail(queue) \in Seq(Task)
  BY HeadTailProperties DEF TypeOK, HasLock
<1>2. CASE queue' = Tail(queue) /\ task' = [task EXCEPT ![t] = Idle]
  BY <1>1, <1>2, IdleTask, TaskMoves
<1>3. CASE Replace(t, task[t].c, Tail(queue))
  BY <1>1, <1>3, ReplaceTask
<1> QED
  BY <1>2, <1>3 DEF Resume

LEMMA StepTask ==
  ASSUME TypeOK, NEW t \in Task, Request(t) \/ Save(t)
  PROVE  TaskEffect
<1>1. CASE create_vps(t)
  <2>1. PICK c \in Unused : save_instances(t, "return", c)
    BY <1>1 DEF create_vps
  <2> QED
    BY <2>1, SavesTask DEF Unused
<1>2. ASSUME NEW c \in Container, delete_vps(t, c) PROVE TaskEffect
  BY <1>2, SavesTask DEF delete_vps
<1>3. ASSUME NEW c \in Container, delete_vps_fails(t, c) PROVE TaskEffect
  BY <1>3, TaskStays DEF delete_vps_fails, Return
<1>4. ASSUME NEW c \in Container, NEW s, NEW then \in {"return", "replace"}, SetState(t, c, s, then)
      PROVE TaskEffect
  BY <1>4, SavesTask, TaskStays DEF SetState, Return
<1>5. ASSUME NEW c \in Container, update_vps_config(t, c) PROVE TaskEffect
  BY <1>5, SavesTask, TaskStays DEF update_vps_config, Return
<1>6. ASSUME NEW c \in Container, update_vps_config_refused(t, c) PROVE TaskEffect
  BY <1>6, SavesTask DEF update_vps_config_refused
<1>7. ASSUME NEW c \in Container, create_backup(t, c) PROVE TaskEffect
  BY <1>7, SavesTask DEF create_backup
<1>8. ASSUME NEW c \in Container, restore_backup(t, c) PROVE TaskEffect
  BY <1>4, <1>8, ReplaceTask DEF restore_backup, TypeOK
<1>9. CASE Open(t)
  <2> DEFINE s == Writing(task[t], instances)
  <2>1. task' = [task EXCEPT ![t] = s] /\ queue' \in Seq(Task) /\ s.at = "writing" /\ s.content = instances
    BY <1>9 DEF Open, TypeOK, Writing
  <2>2. IsTask(task[t]) /\ task[t] # Idle /\ IsInventory(instances)
    BY <1>9 DEF Open, TypeOK, Idle
  <2>3. IsTask(s)
    BY <2>2 DEF IsTask, Writing
  <2> QED
    BY <2>1, <2>3, TaskMoves
<1>10. CASE Write(t) \/ SaveFails(t)
  BY <1>10, ResumeTask DEF Write, SaveFails
<1> QED
  BY <1>1, <1>2, <1>3, <1>4, <1>5, <1>6, <1>7, <1>8, <1>9, <1>10
  DEF Request, Save, start_stop_vps

-----------------------------------------------------------------------------
(***************************************************************************)
(* The invariant.                                                          *)
(***************************************************************************)
LEMMA CallsFinite ==
  \A F \in SUBSET {"stop", "update", "start", "reload", "recover", "refresh"} :
    IsFiniteSet(F) /\ Cardinality(F) \in Nat
<1> DEFINE A == {"stop", "update", "start"}
           B == {"reload", "recover", "refresh"}
<1>1. A = {"stop"} \cup {"update"} \cup {"start"} /\ B = {"reload"} \cup {"recover"} \cup {"refresh"}
  OBVIOUS
<1>2. {"stop", "update", "start", "reload", "recover", "refresh"} = A \cup B
  OBVIOUS
<1> HIDE DEF A, B
<1>3. IsFiniteSet(A) /\ IsFiniteSet(B)
  <2>1. \A x, y, z : IsFiniteSet({x} \cup {y} \cup {z})
    BY FS_Singleton, FS_Union
  <2> QED
    BY <1>1, <2>1
<1>4. IsFiniteSet(A \cup B)
  BY <1>3, FS_Union
<1> QED
  BY <1>2, <1>4, FS_Subset, FS_CardinalityType

LEMMA InitInv == Init => IInv
<1> SUFFICES ASSUME Init PROVE IInv
  OBVIOUS
<1>1. docker \in [Container -> State] /\ \A c \in Provisioned : docker[c] # "none"
  BY VpsManagerAssumption DEF Init, State
<1>2. Proper(instances, docker)
  BY <1>1, VpsManagerAssumption DEF Init, Proper, IsInventory, Info, Once, Known
<1>3. Proper(file, docker)
  BY DEF Init, Proper, IsInventory, Once, Known, Empty
<1>4. \A t \in Task : task[t] = Idle
  BY DEF Init
<1>5. TypeOK
  <2>1. queue \in Seq(Task) /\ DOMAIN task = Task /\ \A t \in Task : IsTask(task[t])
    BY <1>4, IdleTask DEF Init
  <2>2. IsInventory(instances) /\ IsInventory(file)
    BY <1>2, <1>3 DEF Proper
  <2>3. /\ rows \subseteq Container /\ saved \in BOOLEAN /\ deleted \subseteq Container
        /\ requests \in Nat /\ failures \in Nat /\ restarts \in Nat
    BY VpsManagerAssumption DEF Init
  <2> QED
    BY <1>1, <2>1, <2>2, <2>3 DEF TypeOK
<1>6. \A t \in Task : task[t].at # "writing"
  BY <1>4, IdleTask
<1>7. rows = Provisioned /\ deleted = {}
  BY DEF Init
<1> QED
  BY <1>1, <1>2, <1>3, <1>5, <1>6, <1>7 DEF IInv

LEMMA StepInv ==
  ASSUME IInv, NEW t \in Task, Request(t) \/ Save(t)
  PROVE  IInv'
<1>1. Effect /\ TaskEffect
  BY StepEffect, StepTask DEF IInv
<1>2. Proper(instances', docker') /\ Later(docker, docker')
  BY <1>1 DEF Effect
<1>3. Proper(instances, docker') /\ Proper(file, docker')
  BY <1>2, LaterProper DEF IInv
<1>4. Proper(Empty, docker')
  BY DEF Proper, IsInventory, Once, Known, Empty
<1>5. ASSUME NEW u \in Task, task[u].at = "writing" PROVE Proper(task[u].content, docker')
  BY <1>2, <1>5, LaterProper DEF IInv
<1>6. rows' \subseteq rows
  BY DEF Request, Save, create_vps, delete_vps, delete_vps_fails, start_stop_vps, update_vps_config,
         update_vps_config_refused, create_backup, restore_backup, Begin, Open, Write, SaveFails, Resume
<1>7. Proper(file', docker')
  <2>1. file' \in {file, Empty} \/ (task[t].at = "writing" /\ file' = task[t].content)
    BY DEF Request, Save, create_vps, delete_vps, delete_vps_fails, start_stop_vps, update_vps_config,
           update_vps_config_refused, create_backup, restore_backup, Begin, Open, Write, SaveFails
  <2> QED
    BY <1>3, <1>4, <1>5, <2>1
<1>8. saved' \in BOOLEAN /\ requests' \in Nat /\ failures' \in Nat /\ restarts' \in Nat
  <2>1. /\ saved \in BOOLEAN /\ requests \in Nat /\ failures \in Nat /\ restarts \in Nat
        /\ \A F \in SUBSET {"stop", "update", "start", "reload", "recover", "refresh"} : Cardinality(F) \in Nat
    BY CallsFinite DEF IInv, TypeOK
  <2>2. saved' \in {saved, TRUE, FALSE} /\ requests' \in {requests, requests + 1} /\ restarts' = restarts
    BY DEF Request, Save, create_vps, delete_vps, delete_vps_fails, start_stop_vps, update_vps_config,
           update_vps_config_refused, create_backup, restore_backup, Begin, Open, Write, SaveFails, counters
  <2>3. failures' = failures \/ \E n \in Nat : failures' = failures + n
    BY <2>1 DEF Request, Save, create_vps, delete_vps, delete_vps_fails, start_stop_vps, update_vps_config,
           update_vps_config_refused, create_backup, restore_backup, Open, Write, SaveFails, counters, Fail
  <2>4. failures' \in Nat
    BY <2>1, <2>3
  <2>5. requests' \in Nat /\ restarts' \in Nat
    BY <2>1, <2>2
  <2>6. saved' \in BOOLEAN
    BY <2>1, <2>2, Zenon
  <2> QED
    BY <2>4, <2>5, <2>6
<1>9. TypeOK'
  BY <1>1, <1>2, <1>6, <1>7, <1>8 DEF TypeOK, Effect, TaskEffect, Proper, IInv
<1>10. \A u \in Task : task'[u].at = "writing" => Proper(task'[u].content, docker')
  BY <1>1, <1>3, <1>5 DEF TaskEffect
<1>11. \A c \in rows' \cup deleted' : docker'[c] # "none"
  BY <1>1, <1>6 DEF IInv, TypeOK, Effect, Later
<1> QED
  BY <1>1, <1>2, <1>7, <1>9, <1>10, <1>11 DEF IInv, Effect

LEMMA RestartInv == IInv /\ Restart => IInv'
<1> SUFFICES ASSUME IInv, Restart PROVE IInv'
  OBVIOUS
<1>1. /\ docker' = docker /\ rows' = rows /\ file' = file /\ deleted' = {} /\ saved' = FALSE
      /\ queue' = <<>> /\ task' = [t \in Task |-> Idle]
      /\ requests' = requests /\ failures' = failures /\ restarts' = restarts + 1
  BY DEF Restart
<1>2. Proper(instances', docker')
  <2>1. CASE instances' = file
    BY <1>1, <2>1 DEF IInv
  <2>2. ASSUME NEW status \in [rows -> {"running", "stopped"}], instances' = FromRows(status)
        PROVE  Proper(instances', docker')
    <3>1. DOMAIN instances' = rows /\ \A c \in rows : instances'[c] \in Info /\ instances'[c].vps = c
      BY <2>2 DEF FromRows, Info, IInv, TypeOK
    <3> QED
      BY <1>1, <3>1 DEF Proper, IsInventory, Once, Known, IInv, TypeOK
  <2> QED
    BY <2>1, <2>2 DEF Restart
<1>3. \A t \in Task : IsTask(task'[t]) /\ task'[t].at # "writing"
  BY <1>1, IdleTask
<1>4. TypeOK'
  <2>1. queue' \in Seq(Task) /\ DOMAIN task' = Task
    BY <1>1
  <2>2. IsInventory(instances') /\ IsInventory(file')
    BY <1>1, <1>2 DEF Proper, IInv
  <2>3. /\ docker' \in [Container -> State] /\ rows' \subseteq Container /\ deleted' \subseteq Container
        /\ requests' \in Nat /\ failures' \in Nat /\ restarts' \in Nat
    BY <1>1 DEF TypeOK, IInv
  <2>4. saved' \in BOOLEAN
    BY <1>1, Zenon
  <2> QED
    BY <1>3, <2>1, <2>2, <2>3, <2>4 DEF TypeOK
<1> QED
  BY <1>1, <1>2, <1>3, <1>4 DEF IInv

LEMMA NextInv == IInv /\ [Next]_vars => IInv'
<1> SUFFICES ASSUME IInv, [Next]_vars PROVE IInv'
  OBVIOUS
<1>1. CASE UNCHANGED vars
  BY <1>1 DEF vars, counters, IInv, TypeOK
<1>2. CASE Next
  BY <1>2, StepInv, RestartInv DEF Next
<1> QED
  BY <1>1, <1>2

-----------------------------------------------------------------------------
\* The inventory, its file and what is being written are well formed.
THEOREM InventoryTypeCorrect == Spec => []TypeOK
<1>1. IInv => TypeOK
  BY DEF IInv
<1> QED
  BY InitInv, NextInv, <1>1, PTL DEF Spec

\* No VPS is in the inventory twice, or after this process deleted it.
THEOREM VpsOnce == Spec => []EachVpsOnce
<1>1. IInv => EachVpsOnce
  BY DEF IInv, Proper, Once, EachVpsOnce
<1> QED
  BY InitInv, NextInv, <1>1, PTL DEF Spec

\* Only a deletion or a restart makes the inventory forget a VPS.
THEOREM VpsKept == Spec => NoVpsForgotten
<1> DEFINE Forgets == restarts' = restarts =>
        \A c \in DOMAIN instances :
            \/ instances[c].vps \in deleted'
            \/ \E d \in DOMAIN instances' : instances'[d].vps = instances[c].vps
<1>1. IInv /\ [Next]_vars => [Forgets]_vars
  <2> SUFFICES ASSUME IInv, [Next]_vars PROVE [Forgets]_vars
    OBVIOUS
  <2>1. CASE Restart
    BY <2>1 DEF Restart, IInv, TypeOK
  <2>2. ASSUME NEW t \in Task, Request(t) \/ Save(t) PROVE Forgets
    BY <2>2, StepEffect DEF Effect, Keeps
  <2> QED
    BY <2>1, <2>2 DEF Next
<1> QED
  BY InitInv, NextInv, <1>1, PTL DEF Spec, NoVpsForgotten

\* A resize with one failing call leaves a running container running.
THEOREM ResizeRecovers == Spec => ResizeKeepsRunning
<1> DEFINE Recovers == \A t \in Task, c \in Container :
        update_vps_config(t, c) /\ docker[c] = "running" /\ failures' <= failures + 1
            => docker'[c] = "running"
<1>1. IInv => [Recovers]_vars
  <2> SUFFICES ASSUME IInv, NEW t \in Task, NEW c \in Container, update_vps_config(t, c),
                      docker[c] = "running", failures' <= failures + 1
               PROVE  docker'[c] = "running"
    BY DEF vars
  <2>1. PICK F \in SUBSET {"stop", "update", "start", "reload", "recover", "refresh"} :
          /\ failures' = failures + Cardinality(F)
          /\ docker' = [docker EXCEPT ![c] = IF LeftDown(c, F) THEN "stopped" ELSE docker[c]]
    BY DEF update_vps_config, Fail
  <2>2. failures \in Nat /\ docker \in [Container -> State]
    BY DEF IInv, TypeOK
  <2>3. IsFiniteSet(F) /\ Cardinality(F) \in Nat /\ Cardinality(F) <= 1
    BY <2>1, <2>2, CallsFinite
  <2>4. ~LeftDown(c, F)
    <3> SUFFICES ASSUME LeftDown(c, F) PROVE FALSE
      OBVIOUS
    <3>1. PICK x \in {"update", "start"} : {x, "recover"} \subseteq F
      BY DEF LeftDown, Interrupted
    <3>2. IsFiniteSet({x}) /\ Cardinality({x}) = 1 /\ "recover" \notin {x}
      BY FS_Singleton
    <3>3. Cardinality({x} \cup {"recover"}) = 2 /\ {x} \cup {"recover"} \in SUBSET F
      BY <3>1, <3>2, FS_AddElement
    <3>4. Cardinality({x} \cup {"recover"}) <= Cardinality(F)
      BY <2>3, <3>3, FS_Subset
    <3> QED
      BY <2>3, <3>3, <3>4
  <2> QED
    BY <2>1, <2>2, <2>4
<1> QED
  BY InitInv, NextInv, <1>1, PTL DEF Spec, ResizeKeepsRunning

-----------------------------------------------------------------------------
(***************************************************************************)
(* The file.  A coroutine queues at most once, and the last in the queue   *)
(* is yet to copy the inventory, or has copied it as it still is: whatever *)
(* changes the inventory queues behind it.                                 *)
(***************************************************************************)
Queued ==
    /\ \A i \in 1..Len(queue) : task[queue[i]] # Idle
    /\ \A i, j \in 1..Len(queue) : queue[i] = queue[j] => i = j

Current(s) == s.at = "waiting" \/ (s.at = "writing" /\ s.content = instances)
LastCurrent == queue # <<>> => Current(task[queue[Len(queue)]])

FileInv == Queued /\ LastCurrent /\ FallbackCurrent

\* A coroutine that was idle queues.
LEMMA QueuesLast ==
  ASSUME TypeOK, FileInv, NEW t \in Task, NEW then, NEW c, task[t] = Idle,
         queue' = Append(queue, t), task' = [task EXCEPT ![t] = Saving(then, c)]
  PROVE  FileInv'
<1>1. queue \in Seq(Task) /\ Len(queue) \in Nat
  BY LenProperties DEF TypeOK
<1>2. /\ Len(queue') = Len(queue) + 1 /\ queue' # <<>>
      /\ queue'[Len(queue) + 1] = t
      /\ \A i \in 1..Len(queue) : queue'[i] = queue[i] /\ queue[i] \in Task
  BY <1>1, AppendProperties, ElementOfSeq
<1>3. \A i \in 1..Len(queue) : queue[i] # t
  BY DEF FileInv, Queued
<1>4. /\ task'[t] = Saving(then, c)
      /\ \A i \in 1..Len(queue) : task'[queue[i]] = task[queue[i]]
  BY <1>2, <1>3 DEF TypeOK
<1>5. Saving(then, c) # Idle /\ Saving(then, c).at = "waiting"
  <2>1. Saving(then, c).at = "waiting" /\ Idle.at = "idle"
    BY DEF Saving, Idle
  <2> QED
    BY <2>1
<1>6. Queued'
  <2>1. \A i \in 1..Len(queue') : i \in 1..Len(queue) \/ i = Len(queue) + 1
    BY <1>1, <1>2
  <2> QED
    BY <1>2, <1>3, <1>4, <1>5, <2>1 DEF FileInv, Queued
<1>7. LastCurrent'
  BY <1>2, <1>4, <1>5 DEF LastCurrent, Current
<1> QED
  BY <1>2, <1>6, <1>7 DEF FileInv, FallbackCurrent

\* A request that ends at once.
LEMMA QueuesNot ==
  ASSUME TypeOK, FileInv, UNCHANGED <<queue, instances, file, saved>>,
         \A u \in Task : task'[u] = task[u]
  PROVE  FileInv'
<1>1. queue \in Seq(Task)
  BY DEF TypeOK
<1>2. \A i \in 1..Len(queue) : queue[i] \in Task
  BY <1>1, ElementOfSeq
<1>3. Queued'
  BY <1>2 DEF FileInv, Queued
<1>4. LastCurrent'
  <2> SUFFICES ASSUME queue # <<>> PROVE Current(task[queue[Len(queue)]])'
    BY DEF LastCurrent
  <2>1. Len(queue) \in 1..Len(queue)
    BY <1>1, LenProperties, EmptySeq
  <2> QED
    BY <1>2, <2>1 DEF FileInv, LastCurrent, Current
<1> QED
  BY <1>3, <1>4 DEF FileInv, FallbackCurrent

LEMMA ReplaceAtOnceFile ==
  ASSUME TypeOK, FileInv, NEW t \in Task, NEW c, task[t] = Idle,
         Replace(t, c, queue), UNCHANGED <<file, saved>>
  PROVE  FileInv'
<1>1. CASE queue' = queue /\ task' = [task EXCEPT ![t] = Idle] /\ UNCHANGED instances
  <2>1. \A u \in Task : task'[u] = task[u]
    BY <1>1 DEF TypeOK
  <2> QED
    BY <1>1, <2>1, QueuesNot
<1>2. ASSUME NEW d, queue' = Append(queue, t), task' = [task EXCEPT ![t] = Saving("return", d)]
      PROVE  FileInv'
  BY <1>2, QueuesLast
<1> QED
  BY <1>1, <1>2 DEF Replace

LEMMA RequestFile ==
  ASSUME TypeOK, FileInv, NEW t \in Task, Request(t) PROVE FileInv'
<1>0. task[t] = Idle /\ UNCHANGED <<file, saved>>
  BY DEF Request, create_vps, delete_vps, delete_vps_fails, start_stop_vps, update_vps_config,
         update_vps_config_refused, create_backup, restore_backup, Begin
<1>1. ASSUME NEW then, NEW c, save_instances(t, then, c) PROVE FileInv'
  BY <1>0, <1>1, QueuesLast DEF save_instances
<1>2. CASE Return /\ UNCHANGED instances
  BY <1>0, <1>2, QueuesNot DEF Return
<1>3. ASSUME NEW c, NEW s, NEW then, SetState(t, c, s, then) PROVE FileInv'
  BY <1>1, <1>2, <1>3 DEF SetState
<1>4. CASE create_vps(t)
  BY <1>1, <1>4 DEF create_vps
<1>5. ASSUME NEW c \in Container, delete_vps(t, c) PROVE FileInv'
  BY <1>1, <1>5 DEF delete_vps
<1>6. ASSUME NEW c \in Container, delete_vps_fails(t, c) PROVE FileInv'
  BY <1>2, <1>6 DEF delete_vps_fails
<1>7. ASSUME NEW c \in Container, NEW s, start_stop_vps(t, c, s) PROVE FileInv'
  BY <1>3, <1>7 DEF start_stop_vps
<1>8. ASSUME NEW c \in Container, update_vps_config(t, c) PROVE FileInv'
  BY <1>1, <1>2, <1>8 DEF update_vps_config
<1>9. ASSUME NEW c \in Container, update_vps_config_refused(t, c) PROVE FileInv'
  BY <1>1, <1>9 DEF update_vps_config_refused
<1>10. ASSUME NEW c \in Container, create_backup(t, c) PROVE FileInv'
  BY <1>1, <1>10 DEF create_backup
<1>11. ASSUME NEW c \in Container, restore_backup(t, c) PROVE FileInv'
  BY <1>0, <1>3, <1>11, ReplaceAtOnceFile DEF restore_backup
<1> QED
  BY <1>4, <1>5, <1>6, <1>7, <1>8, <1>9, <1>10, <1>11 DEF Request

LEMMA OpenFile ==
  ASSUME TypeOK, FileInv, NEW t \in Task, Open(t) PROVE FileInv'
<1> DEFINE s == Writing(task[t], instances)
<1>1. queue \in Seq(Task) /\ queue # <<>> /\ queue' = queue /\ instances' = instances
  BY DEF Open, HasLock, TypeOK
<1>2. task' = [task EXCEPT ![t] = s] /\ s.at = "writing" /\ s.content = instances
  BY DEF Open, Writing
<1>3. s # Idle
  BY <1>2 DEF Idle
<1> HIDE DEF s
<1>4. \A u \in Task : task'[u] = IF u = t THEN s ELSE task[u]
  BY <1>2 DEF TypeOK
<1>5. \A i \in 1..Len(queue) : queue[i] \in Task
  BY <1>1, ElementOfSeq
<1>6. Queued'
  BY <1>1, <1>3, <1>4, <1>5 DEF FileInv, Queued
<1>7. Len(queue) \in 1..Len(queue)
  BY <1>1, LenProperties, EmptySeq
<1>8. LastCurrent'
  <2>1. queue[Len(queue)] \in Task
    BY <1>5, <1>7
  <2> QED
    BY <1>1, <1>2, <1>4, <2>1 DEF FileInv, LastCurrent, Current
<1> QED
  BY <1>1, <1>6, <1>8 DEF FileInv, FallbackCurrent

\* The coroutine with the lock leaves the queue, which others may be in; when
\* nobody is, what it had copied was the inventory.
LEMMA ResumeFile ==
  ASSUME TypeOK, FileInv, NEW t \in Task, HasLock(t), Resume(t),
         \/ saved' = FALSE
         \/ task[t].at = "writing" /\ file' = task[t].content
  PROVE  FileInv'
<1> DEFINE rest == Tail(queue)
<1>1. queue \in Seq(Task) /\ queue # <<>> /\ queue[1] = t
  BY DEF HasLock, TypeOK
<1>2. /\ rest \in Seq(Task) /\ Len(queue) \in Nat /\ Len(queue) >= 1
      /\ Len(rest) = Len(queue) - 1
      /\ \A i \in 1..Len(rest) : rest[i] = queue[i + 1]
  BY <1>1, HeadTailProperties, LenProperties, EmptySeq
<1>3. \A i \in 1..Len(rest) : rest[i] \in Task /\ rest[i] # t /\ task[rest[i]] # Idle
  BY <1>1, <1>2, ElementOfSeq DEF FileInv, Queued
<1>4. \A i, j \in 1..Len(rest) : rest[i] = rest[j] => i = j
  BY <1>2 DEF FileInv, Queued
<1>5. rest # <<>> => Len(rest) \in 1..Len(rest) /\ rest[Len(rest)] = queue[Len(queue)]
  <2> SUFFICES ASSUME rest # <<>> PROVE Len(rest) \in 1..Len(rest)
    BY <1>2
  <2> QED
    BY <1>2, EmptySeq
<1>6. rest = <<>> => queue[Len(queue)] = t
  <2> HIDE DEF rest
  <2> SUFFICES ASSUME rest = <<>> PROVE Len(queue) = 1
    BY <1>1
  <2>1. Len(rest) = 0
    BY EmptySeq
  <2> QED
    BY <1>2, <2>1
<1>7. rest = <<>> /\ task[t].at = "writing" => task[t].content = instances
  BY <1>1, <1>6 DEF FileInv, LastCurrent, Current
<1> HIDE DEF rest
<1>8. CASE queue' = rest /\ task' = [task EXCEPT ![t] = Idle] /\ instances' = instances
  <2>1. \A i \in 1..Len(rest) : task'[rest[i]] = task[rest[i]]
    BY <1>3, <1>8 DEF TypeOK
  <2>2. Queued'
    BY <1>3, <1>4, <1>8, <2>1 DEF Queued
  <2>3. LastCurrent'
    BY <1>1, <1>5, <1>8, <2>1 DEF FileInv, LastCurrent, Current
  <2>4. FallbackCurrent'
    BY <1>7, <1>8 DEF FallbackCurrent
  <2> QED
    BY <2>2, <2>3, <2>4 DEF FileInv
<1>9. ASSUME NEW d, queue' = Append(rest, t), task' = [task EXCEPT ![t] = Saving("return", d)]
      PROVE  FileInv'
  <2>1. /\ Len(queue') = Len(rest) + 1 /\ queue' # <<>>
        /\ queue'[Len(rest) + 1] = t
        /\ \A i \in 1..Len(rest) : queue'[i] = rest[i]
    BY <1>2, <1>9, AppendProperties
  <2>2. /\ task'[t] = Saving("return", d)
        /\ \A i \in 1..Len(rest) : task'[rest[i]] = task[rest[i]]
    BY <1>3, <1>9 DEF TypeOK
  <2>3. Saving("return", d).at = "waiting" /\ Saving("return", d) # Idle
    <3>1. Saving("return", d).at = "waiting" /\ Idle.at = "idle"
      BY DEF Saving, Idle
    <3> QED
      BY <3>1
  <2>4. \A i \in 1..Len(queue') : i \in 1..Len(rest) \/ i = Len(rest) + 1
    BY <1>2, <2>1
  <2>5. Queued'
    BY <1>3, <1>4, <2>1, <2>2, <2>3, <2>4 DEF Queued
  <2>6. LastCurrent'
    BY <2>1, <2>2, <2>3 DEF LastCurrent, Current
  <2> QED
    BY <2>1, <2>5, <2>6 DEF FileInv, FallbackCurrent
<1> QED
  BY <1>8, <1>9 DEF Resume, Replace, rest

LEMMA RestartFile ==
  ASSUME Restart PROVE FileInv'
BY DEF Restart, FileInv, Queued, LastCurrent, FallbackCurrent

LEMMA NextFile ==
  ASSUME TypeOK, FileInv, [Next]_vars PROVE FileInv'
<1>1. ASSUME NEW t \in Task, Save(t) PROVE FileInv'
  <2>1. CASE Open(t)
    BY <2>1, OpenFile
  <2>2. CASE Write(t)
    BY <2>2, ResumeFile DEF Write
  <2>3. CASE SaveFails(t)
    BY <2>3, ResumeFile DEF SaveFails
  <2> QED
    BY <1>1, <2>1, <2>2, <2>3 DEF Save
<1>2. CASE UNCHANGED vars
  BY <1>2, QueuesNot DEF vars
<1> QED
  BY <1>1, <1>2, RequestFile, RestartFile DEF Next

\* When all is quiet the file is the inventory, unless the latest save failed.
THEOREM FileIsCurrent == Spec => []FallbackCurrent
<1>1. Init => FileInv
  BY DEF Init, FileInv, Queued, LastCurrent, FallbackCurrent
<1>2. IInv => TypeOK
  BY DEF IInv
<1>3. IInv /\ FileInv /\ [Next]_vars => (IInv /\ FileInv)'
  BY <1>2, NextInv, NextFile
<1>4. FileInv => FallbackCurrent
  BY DEF FileInv
<1> QED
  BY InitInv, <1>1, <1>3, <1>4, PTL DEF Spec

-----------------------------------------------------------------------------
(***************************************************************************)
(* The lock.  Who is saving is in the queue, so that there is somebody     *)
(* who has the lock, and Queued says that this one is saving itself.       *)
(***************************************************************************)
InLine(u) == \E i \in 1..Len(queue) : queue[i] = u
LineInv == \A u \in Task : task[u] # Idle => InLine(u)

LEMMA JoinsLine ==
  ASSUME TypeOK, LineInv, NEW t \in Task, NEW s,
         queue' = Append(queue, t), task' = [task EXCEPT ![t] = s]
  PROVE  LineInv'
<1>1. /\ Len(queue') = Len(queue) + 1 /\ Len(queue) \in Nat
      /\ queue'[Len(queue) + 1] = t
      /\ \A i \in 1..Len(queue) : queue'[i] = queue[i]
  BY AppendProperties, LenProperties DEF TypeOK
<1>2. ASSUME NEW u \in Task, InLine(u) PROVE InLine(u)'
  BY <1>1, <1>2 DEF InLine
<1>3. InLine(t)'
  <2>1. Len(queue) + 1 \in 1..Len(queue')
    BY <1>1
  <2> QED
    BY <1>1, <2>1 DEF InLine
<1>4. \A u \in Task : u # t => task'[u] = task[u]
  BY DEF TypeOK
<1> QED
  BY <1>2, <1>3, <1>4 DEF LineInv

LEMMA RestsInLine ==
  ASSUME LineInv, queue' = queue,
         \A u \in Task : task'[u] # Idle => task[u] # Idle
  PROVE  LineInv'
BY DEF LineInv, InLine

LEMMA LeavesLine ==
  ASSUME TypeOK, LineInv, NEW t \in Task, HasLock(t), Resume(t)
  PROVE  LineInv'
<1> DEFINE rest == Tail(queue)
<1>1. queue \in Seq(Task) /\ queue # <<>> /\ queue[1] = t
  BY DEF HasLock, TypeOK
<1>2. /\ rest \in Seq(Task) /\ Len(queue) \in Nat /\ Len(queue) >= 1
      /\ Len(rest) = Len(queue) - 1 /\ Len(rest) \in Nat
      /\ \A i \in 1..Len(rest) : rest[i] = queue[i + 1]
  BY <1>1, HeadTailProperties, LenProperties, EmptySeq
<1> HIDE DEF rest
<1>3. ASSUME NEW u \in Task, u # t, task[u] # Idle
      PROVE  \E i \in 1..Len(rest) : rest[i] = u
  <2>1. PICK i \in 1..Len(queue) : queue[i] = u
    BY <1>3 DEF LineInv, InLine
  <2>2. i # 1
    BY <1>1, <1>3, <2>1
  <2>3. i - 1 \in 1..Len(rest) /\ rest[i - 1] = queue[i]
    BY <1>2, <2>2
  <2> QED
    BY <2>1, <2>3
<1>4. ASSUME NEW s, task' = [task EXCEPT ![t] = s]
      PROVE  task'[t] = s /\ \A u \in Task : u # t => task'[u] = task[u]
  BY <1>4 DEF TypeOK
<1>5. CASE queue' = rest /\ task' = [task EXCEPT ![t] = Idle]
  BY <1>3, <1>4, <1>5 DEF LineInv, InLine
<1>6. ASSUME NEW d, queue' = Append(rest, t), task' = [task EXCEPT ![t] = Saving("return", d)]
      PROVE  LineInv'
  <2>1. /\ Len(queue') = Len(rest) + 1 /\ queue'[Len(rest) + 1] = t
        /\ \A i \in 1..Len(rest) : queue'[i] = rest[i]
    BY <1>2, <1>6, AppendProperties
  <2>2. Len(rest) + 1 \in 1..Len(queue') /\ \A i \in 1..Len(rest) : i \in 1..Len(queue')
    BY <1>2, <2>1
  <2>3. ASSUME NEW u \in Task, task'[u] # Idle PROVE InLine(u)'
    <3>1. CASE u = t
      BY <2>1, <2>2, <3>1 DEF InLine
    <3>2. CASE u # t
      <4>1. task[u] # Idle
        BY <1>4, <1>6, <2>3, <3>2
      <4>2. PICK i \in 1..Len(rest) : rest[i] = u
        BY <1>3, <3>2, <4>1
      <4> QED
        BY <2>1, <2>2, <4>2 DEF InLine
    <3> QED
      BY <3>1, <3>2
  <2> QED
    BY <2>3 DEF LineInv
<1> QED
  BY <1>5, <1>6 DEF Resume, Replace, rest

LEMMA RequestLine ==
  ASSUME TypeOK, LineInv, NEW t \in Task, Request(t) PROVE LineInv'
<1>1. ASSUME NEW then, NEW c, save_instances(t, then, c) PROVE LineInv'
  BY <1>1, JoinsLine DEF save_instances
<1>2. CASE Return
  BY <1>2, RestsInLine DEF Return
<1>3. ASSUME NEW c, NEW s, NEW then, SetState(t, c, s, then) PROVE LineInv'
  BY <1>1, <1>2, <1>3 DEF SetState
<1>4. ASSUME NEW c, Replace(t, c, queue) PROVE LineInv'
  <2>1. CASE queue' = queue /\ task' = [task EXCEPT ![t] = Idle]
    <3>1. \A u \in Task : task'[u] = IF u = t THEN Idle ELSE task[u]
      BY <2>1 DEF TypeOK
    <3> QED
      BY <2>1, <3>1, RestsInLine
  <2>2. ASSUME NEW d, queue' = Append(queue, t),
               task' = [task EXCEPT ![t] = Saving("return", d)]
        PROVE  LineInv'
    BY <2>2, JoinsLine
  <2> QED
    BY <1>4, <2>1, <2>2 DEF Replace
<1> QED
  BY <1>1, <1>2, <1>3, <1>4
     DEF Request, create_vps, delete_vps, delete_vps_fails, start_stop_vps,
         update_vps_config, update_vps_config_refused, create_backup, restore_backup

LEMMA NextLine == ASSUME TypeOK, LineInv, [Next]_vars PROVE LineInv'
<1>1. ASSUME NEW t \in Task, Open(t) PROVE LineInv'
  <2>1. task[t] # Idle /\ queue' = queue
    <3>1. Idle.at = "idle"
      BY DEF Idle
    <3> QED
      BY <1>1, <3>1 DEF Open
  <2>2. \A u \in Task : u # t => task'[u] = task[u]
    BY <1>1 DEF Open, TypeOK
  <2> QED
    BY <2>1, <2>2, RestsInLine
<1>2. ASSUME NEW t \in Task, Save(t) PROVE LineInv'
  BY <1>1, <1>2, LeavesLine DEF Save, Write, SaveFails
<1>3. CASE Restart
  BY <1>3 DEF Restart, LineInv
<1>4. CASE UNCHANGED vars
  BY <1>4, RestsInLine DEF vars
<1> QED
  BY <1>2, <1>3, <1>4, RequestLine DEF Next

\* While a request is saving, one that is about to open or to write the file has
\* the lock: the requests never all wait for each other (the lock of
\* vps_instance_persistence.py, also when saves fail).
LockMoves ==
    (\E t \in Task : task[t] # Idle) =>
        \E h \in Task : HasLock(h) /\ task[h].at \in {"waiting", "writing"}

THEOREM LockAlwaysMoves == Spec => []LockMoves
<1>1. Init => FileInv /\ LineInv
  BY DEF Init, FileInv, Queued, LastCurrent, FallbackCurrent, LineInv
<1>2. IInv => TypeOK
  BY DEF IInv
<1>3. IInv /\ FileInv /\ LineInv /\ [Next]_vars => (IInv /\ FileInv /\ LineInv)'
  BY <1>2, NextInv, NextFile, NextLine
<1>4. TypeOK /\ FileInv /\ LineInv => LockMoves
  <2> SUFFICES ASSUME TypeOK, FileInv, LineInv, NEW t \in Task, task[t] # Idle
               PROVE  \E h \in Task : HasLock(h) /\ task[h].at \in {"waiting", "writing"}
    BY DEF LockMoves
  <2>1. PICK i \in 1..Len(queue) : queue[i] = t
    BY DEF LineInv, InLine
  <2>2. queue \in Seq(Task) /\ Len(queue) \in Nat
    BY LenProperties DEF TypeOK
  <2>3. 1 \in 1..Len(queue) /\ queue # <<>>
    BY <2>1, <2>2, EmptySeq
  <2>4. queue[1] \in Task /\ Head(queue) = queue[1]
    BY <2>2, <2>3, ElementOfSeq
  <2>5. task[queue[1]] # Idle
    BY <2>3 DEF FileInv, Queued
  <2>6. task[queue[1]].at \in {"waiting", "writing"}
    BY <2>4, <2>5 DEF TypeOK, IsTask, Saving, Writing
  <2> QED
    BY <2>3, <2>4, <2>6 DEF HasLock
<1> QED
  BY InitInv, <1>1, <1>2, <1>3, <1>4, PTL DEF Spec

=============================================================================
