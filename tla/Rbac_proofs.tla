----------------------------- MODULE Rbac_proofs -----------------------------
(***************************************************************************)
(* Proofs about Rbac, for every number of users, organizations, projects,  *)
(* roles and concurrent requests, and without its bounds' help.            *)
(***************************************************************************)
EXTENDS Rbac, FiniteSetTheorems, TLAPS

\* The seeded roles are well typed and hold the built-in ones.
LEMMA SeededRolesOK ==
    /\ SeededRoles \in [RoleName -> {NoRole} \cup Role]
    /\ \A n \in BuiltInName : SeededRoles[n] # NoRole
<1>1. ASSUME NEW n \in BuiltInName
      PROVE  /\ BUILT_IN_ROLES[n] \in SUBSET Permission
             /\ [perms |-> BUILT_IN_ROLES[n], is_builtin |-> TRUE] # NoRole
  <2>1. BUILT_IN_ROLES[n] \in SUBSET Permission
    BY DEF BuiltInName, BUILT_IN_ROLES, Permission
  <2>2. QED
    BY <2>1, RbacAssumption
<1>2. ASSUME NEW n \in RoleName
      PROVE  SeededRoles[n] \in {NoRole} \cup Role
  BY <1>1 DEF SeededRoles, Role, RoleName
<1>3. QED
  BY <1>1, <1>2 DEF SeededRoles, RoleName

\* The types, and the finiteness of the table of role assignments, which the
\* restart needs to number the rows it loads.
TypeInv == TypeOK /\ IsFiniteSet(dbGrants)

LEMMA InitType == Init => TypeInv
<1> SUFFICES ASSUME Init PROVE TypeInv
  OBVIOUS
<1>1. IsFiniteSet(dbGrants)
  BY FS_EmptySet DEF Init
<1>2. TypeOK
  BY SeededRolesOK, RbacAssumption DEF Init, TypeOK
<1>3. QED
  BY <1>1, <1>2 DEF TypeInv

-----------------------------------------------------------------------------
(***************************************************************************)
(* What the pieces of an action do to the types.                           *)
(***************************************************************************)
LEMMA AppendType ==
    ASSUME TypeOK, NEW g \in Grant, AppendMembership(g)
    PROVE  mem' \subseteq Membership /\ last' \in Nat
BY DEF TypeOK, AppendMembership, Grant, Membership

LEMMA SendType ==
    ASSUME TypeOK, NEW s \in Slot, NEW c \in Call, Send(s, c)
    PROVE  req' \in [Slot -> {Idle} \cup InFlight]
<1>1. [phase |-> "sent", call |-> c, before |-> failures] \in InFlight
  BY DEF InFlight, TypeOK
<1>2. QED
  BY <1>1 DEF TypeOK, Send

\* A request that is not idle holds a call.
LEMMA BusyType ==
    ASSUME TypeOK, NEW s \in Slot, req[s].phase # "idle"
    PROVE  /\ req[s] \in InFlight
           /\ req[s].call \in Call /\ req[s].before \in Nat
BY DEF TypeOK, Idle, InFlight

LEMMA AnswerType ==
    ASSUME TypeOK, NEW s \in Slot, req[s].phase # "idle",
           NEW p \in {"done", "failed"}, Answer(s, p)
    PROVE  req' \in [Slot -> {Idle} \cup InFlight]
<1>1. req[s] \in InFlight
  BY BusyType
<1>2. [req[s] EXCEPT !.phase = p] \in InFlight
  BY <1>1 DEF InFlight
<1>3. req' = [req EXCEPT ![s] = [req[s] EXCEPT !.phase = p]]
  BY DEF Answer
<1>4. QED
  BY <1>2, <1>3 DEF TypeOK

LEMMA ReturnType ==
    ASSUME TypeOK, NEW s \in Slot, Return(s)
    PROVE  req' \in [Slot -> {Idle} \cup InFlight]
BY DEF TypeOK, Return

LEMMA CountType ==
    ASSUME TypeOK, NEW s \in Slot, CountFailure(s)
    PROVE  failures' \in Nat /\ failures' >= failures
BY DEF TypeOK, CountFailure

\* A statement's arguments, by its kind.
LEMMA CallType ==
    ASSUME NEW c \in Call
    PROVE  /\ c.stmt \in {"put_role", "del_role", "put_org", "del_org",
                          "put_grant", "del_grant"}
           /\ c.stmt = "put_role" => c.name \in RoleName /\ c.perms \in SUBSET Permission
           /\ c.stmt = "del_role" => c.name \in RoleName
           /\ c.stmt = "put_org" => c.org \in Org /\ c.user \in User
           /\ c.stmt = "del_org" => c.org \in Org
           /\ c.stmt = "put_grant" => c.grant \in Grant
           /\ c.stmt = "del_grant" => c.user \in User /\ c.org \in Org /\ c.proj \in Scope
BY DEF Call, PutRole, DelRole, PutOrg, DelOrg, PutGrant, DelGrant

LEMMA EffectType ==
    ASSUME TypeInv, NEW c \in Call, Effect(c)
    PROVE  /\ dbOrgs' \subseteq Org
           /\ dbRoles' \in [RoleName -> {NoRole} \cup SUBSET Permission]
           /\ dbGrants' \subseteq Grant
           /\ IsFiniteSet(dbGrants')
<1> USE CallType
<1>1. dbOrgs' \subseteq Org
  BY DEF Effect, TypeInv, TypeOK
<1>2. dbRoles' \in [RoleName -> {NoRole} \cup SUBSET Permission]
  BY DEF Effect, TypeInv, TypeOK
<1>3. dbGrants' \subseteq Grant
  BY DEF Effect, TypeInv, TypeOK
<1>4. IsFiniteSet(dbGrants')
  <2>1. IsFiniteSet(dbGrants)
    BY DEF TypeInv
  <2>2. \A S \in SUBSET dbGrants : IsFiniteSet(S)
    BY <2>1, FS_Subset
  <2>3. \A S \in SUBSET dbGrants : \A x : IsFiniteSet(S \cup {x})
    BY <2>2, FS_AddElement
  <2>4. CASE c.stmt = "put_grant"
    BY <2>3, <2>4 DEF Effect
  <2>5. CASE c.stmt # "put_grant"
    BY <2>2, <2>5 DEF Effect
  <2>6. QED
    BY <2>4, <2>5
<1>5. QED
  BY <1>1, <1>2, <1>3, <1>4

-----------------------------------------------------------------------------
(***************************************************************************)
(* Type correctness.                                                       *)
(***************************************************************************)
LEMMA BeginType ==
    ASSUME TypeInv, NEW s \in Slot, Begin(s)
    PROVE  TypeInv'
<1> USE DEF TypeInv
<1>1. ASSUME NEW n \in RoleName, NEW ps \in RolePerms, rbac_role_create(s, n, ps)
      PROVE  TypeInv'
  <2>1. [perms |-> ps, is_builtin |-> FALSE] \in Role
    BY RbacAssumption DEF Role
  <2>2. [stmt |-> "put_role", name |-> n, perms |-> ps] \in Call
    BY RbacAssumption DEF Call, PutRole
  <2>3. req' \in [Slot -> {Idle} \cup InFlight]
    BY <1>1, <2>2, SendType DEF rbac_role_create
  <2>4. QED
    BY <1>1, <2>1, <2>3 DEF rbac_role_create, TypeOK, database
<1>2. ASSUME NEW o \in Org, NEW u \in User, rbac_org_create(s, o, u)
      PROVE  TypeInv'
  <2> DEFINE g == [user |-> u, org |-> o, proj |-> NoProject, role |-> "owner"]
  <2>1. g \in Grant
    BY DEF Grant, Scope, RoleName, BuiltInName
  <2>2. AppendMembership(g)
    BY <1>2 DEF rbac_org_create
  <2> HIDE DEF g
  <2>3. mem' \subseteq Membership /\ last' \in Nat
    BY <2>1, <2>2, AppendType
  <2>4. [stmt |-> "put_org", org |-> o, user |-> u] \in Call
    BY DEF Call, PutOrg
  <2>5. req' \in [Slot -> {Idle} \cup InFlight]
    BY <1>2, <2>4, SendType DEF rbac_org_create
  <2>6. QED
    BY <1>2, <2>3, <2>5 DEF rbac_org_create, TypeOK, database
<1>3. ASSUME NEW g \in Grant, rbac_role_assign(s, g)
      PROVE  TypeInv'
  <2>1. mem' \subseteq Membership /\ last' \in Nat
    BY <1>3, AppendType DEF rbac_role_assign
  <2>2. [stmt |-> "put_grant", grant |-> g] \in Call
    BY DEF Call, PutGrant
  <2>3. req' \in [Slot -> {Idle} \cup InFlight]
    BY <1>3, <2>2, SendType DEF rbac_role_assign
  <2>4. QED
    BY <1>3, <2>1, <2>3 DEF rbac_role_assign, TypeOK, database
<1>4. ASSUME NEW o \in Org, NEW a \in User, rbac_org_delete(s, o, a)
      PROVE  TypeInv'
  <2>1. [stmt |-> "del_org", org |-> o] \in Call
    BY DEF Call, DelOrg
  <2>2. req' \in [Slot -> {Idle} \cup InFlight]
    BY <1>4, <2>1, SendType DEF rbac_org_delete
  <2>3. QED
    BY <1>4, <2>2 DEF rbac_org_delete, TypeOK, memory, database
<1>5. ASSUME NEW n \in RoleName, NEW a \in User, rbac_role_delete(s, n, a)
      PROVE  TypeInv'
  <2>1. [stmt |-> "del_role", name |-> n] \in Call
    BY DEF Call, DelRole
  <2>2. req' \in [Slot -> {Idle} \cup InFlight]
    BY <1>5, <2>1, SendType DEF rbac_role_delete
  <2>3. QED
    BY <1>5, <2>2 DEF rbac_role_delete, TypeOK, memory, database
<1>6. ASSUME NEW u \in User, NEW a \in User, NEW o \in Org, NEW p \in Scope,
             rbac_membership_delete(s, u, o, p, a)
      PROVE  TypeInv'
  <2>1. [stmt |-> "del_grant", user |-> u, org |-> o, proj |-> p] \in Call
    BY DEF Call, DelGrant
  <2>2. req' \in [Slot -> {Idle} \cup InFlight]
    BY <1>6, <2>1, SendType DEF rbac_membership_delete
  <2>3. QED
    BY <1>6, <2>2 DEF rbac_membership_delete, TypeOK, memory, database
<1>7. QED
  BY <1>1, <1>2, <1>3, <1>4, <1>5, <1>6 DEF Begin

LEMMA DbStepType ==
    ASSUME TypeInv, NEW s \in Slot, DbStep(s)
    PROVE  TypeInv'
<1>1. req[s].phase # "idle"
  BY DEF DbStep, DbExecute, DbFail, DbLoseAnswer
<1>2. req[s].call \in Call
  BY <1>1, BusyType DEF TypeInv
<1>3. req' \in [Slot -> {Idle} \cup InFlight]
  BY <1>1, AnswerType DEF TypeInv, DbStep, DbExecute, DbFail, DbLoseAnswer
<1>4. CASE Effect(req[s].call) /\ UNCHANGED <<memory, failures, restarts>>
  <2> DEFINE c == req[s].call
  <2>1. c \in Call /\ Effect(c)
    BY <1>2, <1>4
  <2> HIDE DEF c
  <2>2. /\ dbOrgs' \subseteq Org /\ dbGrants' \subseteq Grant
        /\ dbRoles' \in [RoleName -> {NoRole} \cup SUBSET Permission]
        /\ IsFiniteSet(dbGrants')
    BY <2>1, EffectType
  <2>3. QED
    BY <1>3, <1>4, <2>2 DEF TypeInv, TypeOK, memory
<1>5. CASE UNCHANGED <<memory, database, failures, restarts>>
  BY <1>3, <1>5 DEF TypeInv, TypeOK, memory, database
<1>6. QED
  BY <1>4, <1>5 DEF DbStep, DbExecute, DbFail, DbLoseAnswer

LEMMA ResumeType ==
    ASSUME TypeInv, NEW s \in Slot, Resume(s)
    PROVE  TypeInv'
<1> USE DEF TypeInv
<1>1. /\ req[s].phase # "idle" /\ req[s].call \in Call
      /\ failures' \in Nat
  BY BusyType, CountType
     DEF Resume, Answered, PutReturns, rbac_org_create_persists_owner,
         rbac_org_delete_returns, rbac_role_delete_returns,
         rbac_membership_delete_returns
<1>2. CASE PutReturns(s)
  BY <1>1, <1>2, ReturnType DEF PutReturns, TypeOK, memory, database
<1>3. CASE rbac_org_create_persists_owner(s)
  <2>1. req' \in [Slot -> {Idle} \cup InFlight]
    <3>1. CASE Return(s)
      BY <3>1, ReturnType
    <3>2. ASSUME NEW m \in mem,
                 req' = [req EXCEPT ![s] =
                          [phase |-> "sent",
                           call |-> [stmt |-> "put_grant", grant |-> Row(m)],
                           before |-> failures']]
          PROVE  req' \in [Slot -> {Idle} \cup InFlight]
      <4>1. Row(m) \in Grant
        BY DEF TypeOK, Membership, Grant, Row
      <4>2. [stmt |-> "put_grant", grant |-> Row(m)] \in Call
        BY <4>1 DEF Call, PutGrant
      <4> DEFINE r == [phase |-> "sent",
                       call |-> [stmt |-> "put_grant", grant |-> Row(m)],
                       before |-> failures']
      <4>3. r \in InFlight
        BY <1>1, <4>2 DEF InFlight
      <4>4. req' = [req EXCEPT ![s] = r]
        BY <3>2
      <4> HIDE DEF r
      <4>5. QED
        BY <4>3, <4>4 DEF TypeOK
    <3>3. QED
      BY <1>3, <3>1, <3>2 DEF rbac_org_create_persists_owner, OwnerMemberships
  <2>2. QED
    BY <1>1, <1>3, <2>1
       DEF rbac_org_create_persists_owner, TypeOK, memory, database
<1>4. CASE rbac_org_delete_returns(s)
  BY <1>1, <1>4, ReturnType DEF rbac_org_delete_returns, delete_org, TypeOK, database
<1>5. CASE rbac_role_delete_returns(s)
  BY <1>1, <1>5, ReturnType DEF rbac_role_delete_returns, delete_role, TypeOK, database
<1>6. CASE rbac_membership_delete_returns(s)
  BY <1>1, <1>6, ReturnType
     DEF rbac_membership_delete_returns, remove_membership, TypeOK, database
<1>7. QED
  BY <1>2, <1>3, <1>4, <1>5, <1>6 DEF Resume

LEMMA StopType ==
    ASSUME TypeInv, Stop
    PROVE  /\ req' \in [Slot -> {Idle} \cup InFlight]
           /\ failures' \in Nat /\ restarts' \in Nat
           /\ UNCHANGED database
BY DEF TypeInv, TypeOK, Stop

LEMMA RestartType ==
    ASSUME TypeInv, RestartLoaded \/ RestartWithoutDatabase
    PROVE  TypeInv'
<1>1. CASE RestartLoaded
  <2>1. Cardinality(dbGrants) \in Nat
    BY FS_CardinalityType DEF TypeInv
  <2>2. mem' \subseteq Membership
    <3>1. PICK f \in LoadOrder :
             mem' = {[user |-> g.user, org |-> g.org, proj |-> g.proj,
                      role |-> g.role, at |-> f[g]] : g \in dbGrants}
      BY <1>1 DEF RestartLoaded
    <3>2. \A g \in dbGrants : f[g] \in Nat
      BY <2>1, <3>1 DEF LoadOrder
    <3>3. QED
      BY <3>1, <3>2 DEF TypeInv, TypeOK, Grant, Membership
  <2>3. roles' \in [RoleName -> {NoRole} \cup Role]
    BY <1>1, SeededRolesOK DEF RestartLoaded, RestoredRoles, TypeInv, TypeOK, Role
  <2>4. QED
    BY <1>1, <2>1, <2>2, <2>3, StopType DEF RestartLoaded, TypeInv, TypeOK, database
<1>2. CASE RestartWithoutDatabase
  BY <1>2, SeededRolesOK, StopType DEF RestartWithoutDatabase, TypeInv, TypeOK, database
<1>3. QED
  BY <1>1, <1>2

LEMMA NextType == TypeInv /\ [Next]_vars => TypeInv'
<1> SUFFICES ASSUME TypeInv, [Next]_vars PROVE TypeInv'
  OBVIOUS
<1>1. CASE UNCHANGED vars
  BY <1>1 DEF vars, TypeInv, TypeOK
<1>2. CASE Next
  BY <1>2, BeginType, DbStepType, ResumeType, RestartType DEF Next
<1>3. QED
  BY <1>1, <1>2

\* In every behaviour the engine, the tables and the requests in flight are
\* well typed: no interleaving, failure or restart mixes a statement's
\* arguments with another's.
THEOREM TypeCorrect == Spec => []TypeOK
<1>1. TypeInv => TypeOK
  BY DEF TypeInv
<1>2. QED
  BY InitType, NextType, <1>1, PTL DEF Spec

-----------------------------------------------------------------------------
(***************************************************************************)
(* Memberships and rows belong to organizations.                           *)
(***************************************************************************)
LEMMA DanglingNext ==
    TypeInv /\ NoDanglingMembership /\ [Next]_vars => NoDanglingMembership'
<1> SUFFICES ASSUME TypeInv, NoDanglingMembership, [Next]_vars
             PROVE  NoDanglingMembership'
  OBVIOUS
<1> USE DEF NoDanglingMembership
<1>1. CASE UNCHANGED vars
  BY <1>1 DEF vars
<1>2. ASSUME NEW s \in Slot, Begin(s) PROVE NoDanglingMembership'
  <2>1. ASSUME NEW o \in Org, NEW u \in User, rbac_org_create(s, o, u)
        PROVE  NoDanglingMembership'
    BY <2>1 DEF rbac_org_create, AppendMembership, database
  <2>2. ASSUME NEW g \in Grant, rbac_role_assign(s, g)
        PROVE  NoDanglingMembership'
    BY <2>2 DEF rbac_role_assign, AppendMembership, database
  <2>3. CASE UNCHANGED <<orgs, mem, database>>
    BY <2>3 DEF database
  <2>4. QED
    BY <1>2, <2>1, <2>2, <2>3 DEF Begin, rbac_role_create, rbac_org_delete,
       rbac_role_delete, rbac_membership_delete, memory
<1>3. ASSUME NEW s \in Slot, DbStep(s) PROVE NoDanglingMembership'
  <2>1. req[s].phase # "idle"
    BY <1>3 DEF DbStep, DbExecute, DbFail, DbLoseAnswer
  <2> DEFINE c == req[s].call
  <2>2. c \in Call
    BY <2>1, BusyType DEF TypeInv
  <2>3. CASE /\ Effect(c) /\ ~ViolatesForeignKey(c)
             /\ UNCHANGED memory
    <3>1. ASSUME NEW g \in dbGrants' PROVE g.org \in dbOrgs'
      BY <2>2, <2>3, <3>1, CallType DEF Effect, ViolatesForeignKey
    <3>2. QED
      BY <2>3, <3>1 DEF memory
  <2>4. CASE UNCHANGED <<memory, database>>
    BY <2>4 DEF memory, database
  <2>5. QED
    BY <1>3, <2>3, <2>4 DEF DbStep, DbExecute, DbFail, DbLoseAnswer
<1>4. ASSUME NEW s \in Slot, Resume(s) PROVE NoDanglingMembership'
  BY <1>4 DEF Resume, PutReturns, rbac_org_create_persists_owner,
              rbac_org_delete_returns, rbac_role_delete_returns,
              rbac_membership_delete_returns, delete_org, remove_membership,
              memory, database
<1>5. CASE RestartLoaded
  BY <1>5 DEF RestartLoaded, Stop, database
<1>6. CASE RestartWithoutDatabase
  BY <1>6 DEF RestartWithoutDatabase, Stop, database
<1>7. QED
  BY <1>1, <1>2, <1>3, <1>4, <1>5, <1>6 DEF Next

\* A membership always belongs to an organization that exists, in memory and
\* in the tables: delete_org, the foreign key, its cascade and the load keep
\* them together through every interleaving, failure and restart.
THEOREM MembershipsBelong == Spec => []NoDanglingMembership
<1>1. Init => NoDanglingMembership
  BY DEF Init, NoDanglingMembership
<1>2. QED
  BY <1>1, InitType, NextType, DanglingNext, PTL DEF Spec

-----------------------------------------------------------------------------
(***************************************************************************)
(* The built-in roles.                                                     *)
(***************************************************************************)
LEMMA BuiltinsNext == TypeInv /\ BuiltinsPresent /\ [Next]_vars => BuiltinsPresent'
<1> SUFFICES ASSUME TypeInv, BuiltinsPresent, [Next]_vars
             PROVE  BuiltinsPresent'
  OBVIOUS
<1> USE DEF BuiltinsPresent
<1>1. CASE UNCHANGED vars
  BY <1>1 DEF vars
<1>2. ASSUME NEW s \in Slot, Begin(s) PROVE BuiltinsPresent'
  <2>1. ASSUME NEW n \in RoleName, NEW ps \in RolePerms, rbac_role_create(s, n, ps)
        PROVE  BuiltinsPresent'
    <3>1. NoRole # [perms |-> ps, is_builtin |-> FALSE]
      BY RbacAssumption
    <3>2. QED
      BY <2>1, <3>1 DEF rbac_role_create, TypeInv, TypeOK, RoleName
  <2>2. QED
    BY <1>2, <2>1 DEF Begin, rbac_org_create, rbac_role_assign,
              rbac_org_delete, rbac_role_delete, rbac_membership_delete, memory
<1>3. ASSUME NEW s \in Slot, DbStep(s) PROVE BuiltinsPresent'
  BY <1>3 DEF DbStep, DbExecute, DbFail, DbLoseAnswer, memory
<1>4. ASSUME NEW s \in Slot, Resume(s) PROVE BuiltinsPresent'
  <2>1. CASE rbac_role_delete_returns(s)
    <3>1. CASE UNCHANGED roles
      BY <3>1
    <3>2. CASE delete_role(req[s].call.name)
      BY <3>2 DEF delete_role, TypeInv, TypeOK, RoleName
    <3>3. QED
      BY <2>1, <3>1, <3>2 DEF rbac_role_delete_returns
  <2>2. CASE UNCHANGED roles
    BY <2>2
  <2>3. QED
    BY <1>4, <2>1, <2>2
       DEF Resume, PutReturns, rbac_org_create_persists_owner,
           rbac_org_delete_returns, rbac_membership_delete_returns, memory
<1>5. CASE RestartLoaded
  <2>1. ASSUME NEW n \in BuiltInName PROVE RestoredRoles[n] # NoRole
    BY SeededRolesOK, RbacAssumption DEF RestoredRoles, RoleName, TypeInv, TypeOK
  <2>2. QED
    BY <1>5, <2>1 DEF RestartLoaded
<1>6. CASE RestartWithoutDatabase
  BY <1>6, SeededRolesOK DEF RestartWithoutDatabase
<1>7. QED
  BY <1>1, <1>2, <1>3, <1>4, <1>5, <1>6 DEF Next

\* The built-in roles never disappear, although a custom role may be created,
\* persisted and deleted under their names.
THEOREM BuiltinsStay == Spec => []BuiltinsPresent
<1>1. Init => BuiltinsPresent
  BY SeededRolesOK DEF Init, BuiltinsPresent
<1>2. QED
  BY <1>1, InitType, NextType, BuiltinsNext, PTL DEF Spec

-----------------------------------------------------------------------------
(***************************************************************************)
(* The shape of the three kinds of step: which slot they touch and how.    *)
(***************************************************************************)
LEMMA BeginShape ==
    ASSUME TypeInv, NEW s \in Slot, Begin(s)
    PROVE  /\ req[s].phase = "idle" /\ UNCHANGED <<database, failures>>
           /\ \A t \in Slot \ {s} : req'[t] = req[t]
BY DEF Begin, rbac_role_create, rbac_org_create, rbac_role_assign,
       rbac_org_delete, rbac_role_delete, rbac_membership_delete, Send,
       IsIdle, database, memory, TypeInv, TypeOK

LEMMA DbShape ==
    ASSUME TypeInv, NEW s \in Slot, DbStep(s)
    PROVE  /\ req[s].phase = "sent" /\ req[s].call \in Call
           /\ req'[s].phase \in {"done", "failed"} /\ req'[s].call = req[s].call
           /\ req'[s].before = req[s].before
           /\ UNCHANGED <<memory, failures>>
           /\ req'[s].phase = "done" => Effect(req[s].call)
           /\ \A t \in Slot \ {s} : req'[t] = req[t]
<1>1. req[s].phase = "sent" /\ UNCHANGED <<memory, failures>>
  BY DEF DbStep, DbExecute, DbFail, DbLoseAnswer
<1>2. req[s] \in InFlight
  BY <1>1, BusyType DEF TypeInv
<1>3. ASSUME NEW p \in {"done", "failed"}, Answer(s, p)
      PROVE  /\ req'[s].phase = p /\ req'[s].call = req[s].call
             /\ req'[s].before = req[s].before
             /\ \A t \in Slot \ {s} : req'[t] = req[t]
  BY <1>2, <1>3 DEF Answer, TypeInv, TypeOK, InFlight
<1>4. CASE DbExecute(s)
  BY <1>1, <1>2, <1>3, <1>4 DEF DbExecute, InFlight
<1>5. CASE Answer(s, "failed")
  BY <1>1, <1>2, <1>3, <1>5 DEF InFlight
<1>6. QED
  BY <1>4, <1>5 DEF DbStep, DbFail, DbLoseAnswer

LEMMA ResumeShape ==
    ASSUME TypeInv, NEW s \in Slot, Resume(s)
    PROVE  /\ req[s].phase \in {"done", "failed"} /\ req[s].call \in Call
           /\ CountFailure(s) /\ UNCHANGED <<database, last>>
           /\ orgs' \subseteq orgs /\ mem' \subseteq mem
           /\ \A n \in RoleName : roles[n] = NoRole => roles'[n] = NoRole
           /\ \A t \in Slot \ {s} : req'[t] = req[t]
           /\ failures' \in Nat /\ failures' >= failures
           /\ req[s].phase = "failed" => failures' > 0
           /\ PersistFailed(s) => failures' > 0
<1>1. /\ req[s].phase \in {"done", "failed"} /\ CountFailure(s)
      /\ UNCHANGED <<database, last>>
      /\ orgs' \subseteq orgs /\ mem' \subseteq mem
      /\ \A t \in Slot \ {s} : req'[t] = req[t]
  BY DEF Resume, PutReturns, rbac_org_create_persists_owner,
         rbac_org_delete_returns, rbac_role_delete_returns,
         rbac_membership_delete_returns, delete_org, remove_membership,
         Answered, Return, memory, database, TypeInv, TypeOK
<1>2. req[s].call \in Call /\ req[s].before \in Nat
  BY <1>1, BusyType DEF TypeInv
<1>3. failures' \in Nat /\ failures' >= failures
  BY <1>1, CountType DEF TypeInv
<1>4. req[s].phase = "failed" => failures' > 0
  BY <1>1 DEF CountFailure, TypeInv, TypeOK
<1>5. PersistFailed(s) => failures' > 0
  BY <1>2, <1>3 DEF PersistFailed
<1>6. \A n \in RoleName : roles[n] = NoRole => roles'[n] = NoRole
  <2>1. CASE UNCHANGED roles
    BY <2>1
  <2>2. CASE delete_role(req[s].call.name)
    BY <2>2 DEF delete_role, TypeInv, TypeOK
  <2>3. QED
    BY <2>1, <2>2 DEF Resume, PutReturns, rbac_org_create_persists_owner,
       rbac_org_delete_returns, rbac_role_delete_returns,
       rbac_membership_delete_returns, memory
<1>7. QED
  BY <1>1, <1>2, <1>3, <1>4, <1>5, <1>6

\* Which handler resumes follows from the statement it sent.
LEMMA ResumeDispatch ==
    ASSUME NEW s \in Slot, Resume(s)
    PROVE  /\ req[s].call.stmt = "del_org" => rbac_org_delete_returns(s)
           /\ req[s].call.stmt = "del_role" => rbac_role_delete_returns(s)
           /\ req[s].call.stmt = "del_grant" => rbac_membership_delete_returns(s)
           /\ req[s].call.stmt = "put_org" => rbac_org_create_persists_owner(s)
BY DEF Resume, PutReturns, rbac_org_create_persists_owner,
       rbac_org_delete_returns, rbac_role_delete_returns,
       rbac_membership_delete_returns, Answered

-----------------------------------------------------------------------------
(***************************************************************************)
(* No organization is lost in silence.  The invariant says who answers for *)
(* an organization of the memory that has no row: a failure already        *)
(* counted or about to be, the INSERT still to execute, or a DELETE that   *)
(* has executed and is about to be applied.                                *)
(***************************************************************************)
AnswersForOrg(s, o) ==
    \/ req[s].phase = "failed"
    \/ Sent(s, "put_org") /\ req[s].call.org = o
    \/ req[s].phase = "done" /\ req[s].call.stmt = "del_org" /\ req[s].call.org = o

OrgInv == \A o \in orgs :
    o \in dbOrgs \/ failures > 0 \/ \E s \in Slot : AnswersForOrg(s, o)

\* A slot that is not the one acting keeps its answer.
LEMMA OtherSlotOrg ==
    ASSUME NEW s, NEW t, NEW o, req'[t] = req[t], AnswersForOrg(t, o)
    PROVE  AnswersForOrg(t, o)'
BY DEF AnswersForOrg, Sent

LEMMA OrgBegin ==
    ASSUME TypeInv, OrgInv, NEW s \in Slot, Begin(s)
    PROVE  OrgInv'
<1> USE BeginShape
<1>1. \A t \in Slot, o \in orgs : AnswersForOrg(t, o) => AnswersForOrg(t, o)'
  BY OtherSlotOrg DEF AnswersForOrg, Sent
<1>2. CASE orgs' = orgs
  BY <1>1, <1>2 DEF OrgInv, database
<1>3. ASSUME NEW o \in Org, NEW u \in User, rbac_org_create(s, o, u)
      PROVE  OrgInv'
  <2>1. AnswersForOrg(s, o)'
    BY <1>3 DEF rbac_org_create, Send, AnswersForOrg, Sent, TypeInv, TypeOK
  <2>2. QED
    BY <1>1, <1>3, <2>1 DEF OrgInv, rbac_org_create, database
<1>4. QED
  BY <1>2, <1>3 DEF Begin, rbac_role_create, rbac_role_assign, rbac_org_delete,
                    rbac_role_delete, rbac_membership_delete, memory

LEMMA OrgDbStep ==
    ASSUME TypeInv, OrgInv, NEW s \in Slot, DbStep(s)
    PROVE  OrgInv'
<1> DEFINE c == req[s].call
<1>1. UNCHANGED <<orgs, failures>> /\ c \in Call
  BY DbShape DEF memory
<1>2. \A t \in Slot \ {s}, o \in orgs : AnswersForOrg(t, o) => AnswersForOrg(t, o)'
  BY DbShape, OtherSlotOrg
<1>3. CASE req'[s].phase = "failed"
  <2>1. \A o \in orgs : AnswersForOrg(s, o)'
    BY <1>3 DEF AnswersForOrg
  <2>2. QED
    BY <1>1, <2>1 DEF OrgInv
<1>4. CASE req'[s].phase = "done"
  <2>1. Effect(c)
    BY <1>4, DbShape
  <2>2. ASSUME NEW o \in orgs
        PROVE  \/ o \in dbOrgs' \/ failures' > 0
               \/ \E t \in Slot : AnswersForOrg(t, o)'
    <3>1. CASE o \in dbOrgs /\ ~(c.stmt = "del_org" /\ c.org = o)
      BY <1>1, <2>1, <3>1, CallType DEF Effect
    <3>2. CASE c.stmt = "del_org" /\ c.org = o
      BY <1>4, <3>2, DbShape DEF AnswersForOrg
    <3>3. CASE o \notin dbOrgs /\ AnswersForOrg(s, o)
      BY <1>1, <2>1, <3>3, CallType, DbShape DEF AnswersForOrg, Sent, Effect
    <3>4. CASE \E t \in Slot \ {s} : AnswersForOrg(t, o)
      BY <1>2, <3>4
    <3>5. QED
      BY <1>1, <3>1, <3>2, <3>3, <3>4 DEF OrgInv
  <2>3. QED
    BY <1>1, <2>2 DEF OrgInv
<1>5. QED
  BY <1>3, <1>4, DbShape

LEMMA OrgResume ==
    ASSUME TypeInv, OrgInv, NEW s \in Slot, Resume(s)
    PROVE  OrgInv'
<1> USE ResumeShape
<1>1. ASSUME NEW o \in orgs', AnswersForOrg(s, o) PROVE failures' > 0
  <2>1. CASE req[s].call.stmt = "del_org" /\ req[s].call.org = o
    BY <1>1, <2>1, ResumeDispatch DEF rbac_org_delete_returns, delete_org
  <2>2. QED
    BY <1>1, <2>1 DEF AnswersForOrg, Sent
<1>2. \A t \in Slot \ {s}, o \in orgs : AnswersForOrg(t, o) => AnswersForOrg(t, o)'
  BY OtherSlotOrg
<1>3. failures > 0 => failures' > 0
  BY DEF TypeInv, TypeOK
<1>4. QED
  BY <1>1, <1>2, <1>3 DEF OrgInv, database

LEMMA OrgNext == TypeInv /\ OrgInv /\ [Next]_vars => OrgInv'
<1> SUFFICES ASSUME TypeInv, OrgInv, [Next]_vars PROVE OrgInv'
  OBVIOUS
<1>1. CASE UNCHANGED vars
  BY <1>1 DEF vars, OrgInv, AnswersForOrg, Sent
<1>2. CASE RestartLoaded \/ RestartWithoutDatabase
  BY <1>2 DEF RestartLoaded, RestartWithoutDatabase, Stop, database, OrgInv
<1>3. QED
  BY <1>1, <1>2, OrgBegin, OrgDbStep, OrgResume DEF Next

\* However the requests interleave and fail: once nothing is in flight, an
\* organization in memory has its row unless the failure metric has moved.
THEOREM OrgsPersisted == Spec => []NoSilentOrgLoss
<1>1. Init => OrgInv
  BY DEF Init, OrgInv
<1>2. TypeInv /\ OrgInv => NoSilentOrgLoss
  BY DEF OrgInv, NoSilentOrgLoss, Quiescent, IsIdle, AnswersForOrg, Sent
<1>3. QED
  BY <1>1, <1>2, InitType, NextType, OrgNext, PTL DEF Spec

-----------------------------------------------------------------------------
(***************************************************************************)
(* The same argument for custom roles.                                     *)
(***************************************************************************)
AnswersForRole(s, n) ==
    \/ req[s].phase = "failed"
    \/ Sent(s, "put_role") /\ req[s].call.name = n
    \/ req[s].phase = "done" /\ req[s].call.stmt = "del_role" /\ req[s].call.name = n

RoleInv == \A n \in CustomRole : roles[n] # NoRole =>
    dbRoles[n] # NoRole \/ failures > 0 \/ \E s \in Slot : AnswersForRole(s, n)

LEMMA OtherSlotRole ==
    ASSUME NEW s, NEW n, req'[s] = req[s], AnswersForRole(s, n)
    PROVE  AnswersForRole(s, n)'
BY DEF AnswersForRole, Sent

LEMMA RoleBegin ==
    ASSUME TypeInv, RoleInv, NEW s \in Slot, Begin(s)
    PROVE  RoleInv'
<1> USE BeginShape
<1>1. \A t \in Slot, n \in CustomRole : AnswersForRole(t, n) => AnswersForRole(t, n)'
  BY OtherSlotRole DEF AnswersForRole, Sent
<1>2. CASE roles' = roles
  BY <1>1, <1>2 DEF RoleInv, database
<1>3. ASSUME NEW n \in RoleName, NEW ps \in RolePerms, rbac_role_create(s, n, ps)
      PROVE  RoleInv'
  <2>1. AnswersForRole(s, n)'
    BY <1>3 DEF rbac_role_create, Send, AnswersForRole, Sent, TypeInv, TypeOK
  <2>2. \A x \in RoleName \ {n} : roles'[x] = roles[x]
    BY <1>3 DEF rbac_role_create, TypeInv, TypeOK
  <2>3. QED
    BY <1>1, <2>1, <2>2 DEF RoleInv, RoleName, database
<1>4. QED
  BY <1>2, <1>3 DEF Begin, rbac_org_create, rbac_role_assign, rbac_org_delete,
                    rbac_role_delete, rbac_membership_delete, memory

LEMMA RoleDbStep ==
    ASSUME TypeInv, RoleInv, NEW s \in Slot, DbStep(s)
    PROVE  RoleInv'
<1> DEFINE c == req[s].call
<1>1. UNCHANGED <<roles, failures>> /\ c \in Call
  BY DbShape DEF memory
<1>2. \A t \in Slot \ {s}, n \in CustomRole : AnswersForRole(t, n) => AnswersForRole(t, n)'
  BY DbShape, OtherSlotRole
<1>3. CASE req'[s].phase = "failed"
  <2>1. \A n \in CustomRole : AnswersForRole(s, n)'
    BY <1>3 DEF AnswersForRole
  <2>2. QED
    BY <1>1, <2>1 DEF RoleInv
<1>4. CASE req'[s].phase = "done"
  <2>1. Effect(c)
    BY <1>4, DbShape
  <2>2. ASSUME NEW n \in CustomRole, roles[n] # NoRole
        PROVE  \/ dbRoles'[n] # NoRole \/ failures' > 0
               \/ \E t \in Slot : AnswersForRole(t, n)'
    <3>1. CASE dbRoles[n] # NoRole /\ ~(c.stmt = "del_role" /\ c.name = n)
      <4>1. c.stmt = "put_role" => c.perms # NoRole
        BY <1>1, CallType, RbacAssumption
      <4>2. QED
        BY <1>1, <2>1, <3>1, <4>1, CallType DEF Effect, RoleName, TypeInv, TypeOK
    <3>2. CASE c.stmt = "del_role" /\ c.name = n
      BY <1>4, <3>2, DbShape DEF AnswersForRole
    <3>3. CASE dbRoles[n] = NoRole /\ AnswersForRole(s, n)
      <4>1. c.stmt = "put_role" /\ c.name = n
        BY <3>3, DbShape DEF AnswersForRole, Sent
      <4>2. c.perms # NoRole
        BY <1>1, <4>1, CallType, RbacAssumption
      <4>3. QED
        BY <2>1, <4>1, <4>2 DEF Effect, RoleName, TypeInv, TypeOK
    <3>4. CASE \E t \in Slot \ {s} : AnswersForRole(t, n)
      BY <1>2, <3>4
    <3>5. QED
      BY <1>1, <2>2, <3>1, <3>2, <3>3, <3>4 DEF RoleInv
  <2>3. QED
    BY <1>1, <2>2 DEF RoleInv
<1>5. QED
  BY <1>3, <1>4, DbShape

LEMMA RoleResume ==
    ASSUME TypeInv, RoleInv, NEW s \in Slot, Resume(s)
    PROVE  RoleInv'
<1> USE ResumeShape
<1>1. ASSUME NEW n \in CustomRole, roles'[n] # NoRole, AnswersForRole(s, n)
      PROVE  failures' > 0
  <2>1. CASE req[s].call.stmt = "del_role" /\ req[s].call.name = n
    <3>1. n \notin BuiltInName
      BY RbacAssumption
    <3>2. QED
      BY <1>1, <2>1, <3>1, ResumeDispatch
         DEF rbac_role_delete_returns, delete_role, TypeInv, TypeOK, RoleName
  <2>2. QED
    BY <1>1, <2>1 DEF AnswersForRole, Sent
<1>2. \A t \in Slot \ {s}, n \in CustomRole : AnswersForRole(t, n) => AnswersForRole(t, n)'
  BY OtherSlotRole
<1>3. failures > 0 => failures' > 0
  BY DEF TypeInv, TypeOK
<1>4. QED
  BY <1>1, <1>2, <1>3 DEF RoleInv, RoleName, database

LEMMA RoleNext == TypeInv /\ RoleInv /\ [Next]_vars => RoleInv'
<1> SUFFICES ASSUME TypeInv, RoleInv, [Next]_vars PROVE RoleInv'
  OBVIOUS
<1>1. CASE UNCHANGED vars
  BY <1>1 DEF vars, RoleInv, AnswersForRole, Sent
<1>2. CASE RestartLoaded \/ RestartWithoutDatabase
  <2>1. \A n \in CustomRole : n \in RoleName /\ n \notin BuiltInName
    BY RbacAssumption DEF RoleName
  <2>2. QED
    BY <1>2, <2>1 DEF RestartLoaded, RestartWithoutDatabase, Stop, database, RoleInv,
                      RestoredRoles, SeededRoles
<1>3. QED
  BY <1>1, <1>2, RoleBegin, RoleDbStep, RoleResume DEF Next

\* Once nothing is in flight, a custom role in memory has its row unless the
\* failure metric has moved.
THEOREM RolesPersisted == Spec => []NoSilentRoleLoss
<1>1. Init => RoleInv
  <2>1. \A n \in CustomRole : n \in RoleName /\ n \notin BuiltInName
    BY RbacAssumption DEF RoleName
  <2>2. QED
    BY <2>1 DEF Init, RoleInv, SeededRoles
<1>2. TypeInv /\ RoleInv => NoSilentRoleLoss
  BY DEF RoleInv, NoSilentRoleLoss, Quiescent, IsIdle, AnswersForRole, Sent
<1>3. QED
  BY <1>1, <1>2, InitType, NextType, RoleNext, PTL DEF Spec

-----------------------------------------------------------------------------
(***************************************************************************)
(* A delete that failed changes nothing in memory: the counter a request   *)
(* recorded is never ahead of the counter, so its own failure shows.       *)
(***************************************************************************)
BeforeInv == \A s \in Slot : req[s].phase # "idle" => req[s].before <= failures

LEMMA BeforeNext == TypeInv /\ BeforeInv /\ [Next]_vars => BeforeInv'
<1> SUFFICES ASSUME TypeInv, BeforeInv, [Next]_vars PROVE BeforeInv'
  OBVIOUS
<1>1. CASE UNCHANGED vars
  BY <1>1 DEF vars, BeforeInv
<1>2. CASE RestartLoaded \/ RestartWithoutDatabase
  BY <1>2 DEF RestartLoaded, RestartWithoutDatabase, Stop, BeforeInv, Idle
<1>3. ASSUME NEW s \in Slot, Begin(s) PROVE BeforeInv'
  <2>1. req'[s].before = failures
    <3>1. ASSUME NEW c, Send(s, c) PROVE req'[s].before = failures
      BY <3>1 DEF Send, TypeInv, TypeOK
    <3>2. \E c : Send(s, c)
      BY <1>3 DEF Begin, rbac_role_create, rbac_org_create, rbac_role_assign,
         rbac_org_delete, rbac_role_delete, rbac_membership_delete
    <3>3. QED
      BY <3>1, <3>2
  <2>2. QED
    BY <1>3, <2>1, BeginShape DEF BeforeInv, TypeInv, TypeOK
<1>4. ASSUME NEW s \in Slot, DbStep(s) PROVE BeforeInv'
  BY <1>4, DbShape DEF BeforeInv
<1>5. ASSUME NEW s \in Slot, Resume(s) PROVE BeforeInv'
  <2>1. req'[s] = Idle \/ req'[s].before = failures'
    BY <1>5 DEF Resume, PutReturns, rbac_org_create_persists_owner,
       rbac_org_delete_returns, rbac_role_delete_returns,
       rbac_membership_delete_returns, Return, TypeInv, TypeOK
  <2>2. \A t \in Slot \ {s} : req'[t].phase # "idle" => req'[t].before <= failures'
    <3>1. ASSUME NEW t \in Slot \ {s}, req'[t].phase # "idle"
          PROVE  req'[t].before <= failures'
      <4>1. req[t].phase # "idle" /\ req[t].before \in Nat
        BY <1>5, <3>1, ResumeShape, BusyType DEF TypeInv
      <4>2. req[t].before <= failures /\ failures \in Nat
        BY <4>1 DEF BeforeInv, TypeInv, TypeOK
      <4>3. QED
        BY <1>5, <4>1, <4>2, ResumeShape
    <3>2. QED
      BY <3>1
  <2>3. QED
    BY <1>5, <2>1, <2>2, ResumeShape DEF BeforeInv, Idle
<1>6. QED
  BY <1>1, <1>2, <1>3, <1>4, <1>5 DEF Next

\* A delete whose own statement failed leaves the engine as it was, whatever
\* the other requests did to the shared counter meanwhile.
THEOREM FailedDeletesKeepMemory == Spec => FailedDeleteKeepsMemory
<1> DEFINE KeepsMemory ==
        \A s \in Slot :
            /\ req[s].phase = "failed"
            /\ req[s].call.stmt \in {"del_org", "del_role", "del_grant"}
            /\ req'[s] # req[s]
            /\ restarts' = restarts
            => UNCHANGED memory
<1>1. Init => BeforeInv
  BY DEF Init, BeforeInv, Idle
<1>2. TypeInv /\ BeforeInv /\ [Next]_vars => [KeepsMemory]_vars
  <2> SUFFICES ASSUME TypeInv, BeforeInv, Next,
                      NEW s \in Slot, req[s].phase = "failed",
                      req[s].call.stmt \in {"del_org", "del_role", "del_grant"},
                      req'[s] # req[s], restarts' = restarts
               PROVE  UNCHANGED memory
    OBVIOUS
  <2>1. ~RestartLoaded /\ ~RestartWithoutDatabase
    BY DEF RestartLoaded, RestartWithoutDatabase, Stop, TypeInv, TypeOK
  <2>2. PICK t \in Slot : Begin(t) \/ DbStep(t) \/ Resume(t)
    BY <2>1 DEF Next
  <2>3. t = s
    BY <2>2, BeginShape, DbShape, ResumeShape
  <2>4. Resume(s)
    BY <2>2, <2>3, BeginShape, DbShape
  <2>5. PersistFailed(s)
    BY <2>4, ResumeShape, BusyType
       DEF PersistFailed, CountFailure, BeforeInv, TypeInv, TypeOK
  <2>6. QED
    BY <2>4, <2>5, ResumeDispatch
       DEF rbac_org_delete_returns, rbac_role_delete_returns,
           rbac_membership_delete_returns, memory
<1>3. Spec => [][KeepsMemory]_vars
  BY <1>1, <1>2, InitType, NextType, BeforeNext, PTL DEF Spec
<1>4. QED
  BY <1>3 DEF FailedDeleteKeepsMemory

-----------------------------------------------------------------------------
(***************************************************************************)
(* No membership is lost in silence, when organization ids are fresh.  The *)
(* request that creates an organization answers for the owner's membership *)
(* as long as that is the first one of the owner there: then it is the one *)
(* the second statement persists.                                          *)
(***************************************************************************)
First(m) == \A n \in mem : n.user = m.user /\ n.org = m.org => m.at <= n.at

AnswersForGrant(s, m) ==
    \/ req[s].phase = "failed"
    \/ Sent(s, "put_grant") /\ SameKey(req[s].call.grant, m)
    \/ /\ req[s].phase \in {"sent", "done"} /\ req[s].call.stmt = "put_org"
       /\ req[s].call.org = m.org /\ req[s].call.user = m.user
       /\ m.proj = NoProject /\ First(m)
    \/ req[s].phase = "done" /\ req[s].call.stmt = "del_org" /\ req[s].call.org = m.org
    \/ req[s].phase = "done" /\ req[s].call.stmt = "del_grant" /\ SameKey(req[s].call, m)

HasRow(m) == \E g \in dbGrants : SameKey(g, m)

GrantInv == \A m \in mem :
    HasRow(m) \/ failures > 0 \/ \E s \in Slot : AnswersForGrant(s, m)

\* Every membership has a place of its own in the list.
PlaceInv ==
    /\ \A m \in mem : m.at <= last
    /\ \A m, n \in mem : m.at = n.at => m = n

LEMMA OtherSlotGrant ==
    ASSUME NEW s, NEW m, req'[s] = req[s], First(m) => First(m)', AnswersForGrant(s, m)
    PROVE  AnswersForGrant(s, m)'
BY DEF AnswersForGrant, Sent, SameKey

LEMMA AppendPlace ==
    ASSUME TypeInv, PlaceInv, NEW g \in Grant, AppendMembership(g)
    PROVE  /\ PlaceInv'
           /\ \A m \in mem : First(m) => First(m)'
           /\ \A m \in mem' \ mem : SameKey(g, m) /\ m.at = last + 1
BY DEF AppendMembership, PlaceInv, First, SameKey, TypeInv, TypeOK, Membership

LEMMA GrantBegin ==
    ASSUME ReuseOrgIds = FALSE, TypeInv, NoDanglingMembership, PlaceInv, GrantInv,
           NEW s \in Slot, Begin(s)
    PROVE  GrantInv' /\ PlaceInv'
<1> USE BeginShape
<1>1. ASSUME NEW m \in mem, First(m) => First(m)',
             HasRow(m) \/ failures > 0 \/ \E t \in Slot : AnswersForGrant(t, m)
      PROVE  (HasRow(m) \/ failures > 0 \/ \E t \in Slot : AnswersForGrant(t, m))'
  <2>1. ASSUME NEW t \in Slot, AnswersForGrant(t, m) PROVE AnswersForGrant(t, m)'
    <3>1. t # s
      BY <2>1 DEF AnswersForGrant, Sent
    <3>2. QED
      BY <1>1, <2>1, <3>1, OtherSlotGrant
  <2>2. HasRow(m) => HasRow(m)'
    BY DEF HasRow, database
  <2>3. failures > 0 => failures' > 0
    OBVIOUS
  <2>4. QED
    BY <1>1, <2>1, <2>2, <2>3
<1>2. CASE UNCHANGED <<mem, last>>
  BY <1>1, <1>2 DEF GrantInv, PlaceInv, First
<1>3. ASSUME NEW g \in Grant, AppendMembership(g),
             \A m \in mem' \ mem : AnswersForGrant(s, m)'
      PROVE  GrantInv' /\ PlaceInv'
  BY <1>1, <1>3, AppendPlace DEF GrantInv
<1>4. ASSUME NEW o \in Org, NEW u \in User, rbac_org_create(s, o, u)
      PROVE  GrantInv' /\ PlaceInv'
  <2> DEFINE g == [user |-> u, org |-> o, proj |-> NoProject, role |-> "owner"]
  <2>1. g \in Grant
    BY DEF Grant, Scope, RoleName, BuiltInName
  <2>2. AppendMembership(g)
    BY <1>4 DEF rbac_org_create
  <2>3. ASSUME NEW m \in mem' \ mem PROVE AnswersForGrant(s, m)'
    <3>1. SameKey(g, m) /\ m.at = last + 1
      BY <2>1, <2>2, <2>3, AppendPlace
    <3>2. \A n \in mem : n.org # o
      BY <1>4 DEF rbac_org_create, FreshOrgId, NoDanglingMembership
    <3>3. First(m)'
      BY <2>2, <3>1, <3>2 DEF First, AppendMembership, SameKey, TypeInv, TypeOK
    <3>4. req'[s] = [phase |-> "sent",
                     call |-> [stmt |-> "put_org", org |-> o, user |-> u],
                     before |-> failures]
      BY <1>4 DEF rbac_org_create, Send, TypeInv, TypeOK
    <3>5. QED
      BY <3>1, <3>3, <3>4 DEF AnswersForGrant, SameKey
  <2> HIDE DEF g
  <2>4. QED
    BY <1>3, <2>1, <2>2, <2>3
<1>5. ASSUME NEW g \in Grant, rbac_role_assign(s, g)
      PROVE  GrantInv' /\ PlaceInv'
  <2>1. AppendMembership(g)
    BY <1>5 DEF rbac_role_assign
  <2>2. ASSUME NEW m \in mem' \ mem PROVE AnswersForGrant(s, m)'
    <3>1. SameKey(g, m)
      BY <2>1, <2>2, AppendPlace
    <3>2. req'[s] = [phase |-> "sent", call |-> [stmt |-> "put_grant", grant |-> g],
                     before |-> failures]
      BY <1>5 DEF rbac_role_assign, Send, TypeInv, TypeOK
    <3>3. QED
      BY <3>1, <3>2 DEF AnswersForGrant, Sent
  <2>3. QED
    BY <1>3, <2>1, <2>2
<1>6. QED
  BY <1>2, <1>4, <1>5 DEF Begin, rbac_role_create, rbac_org_delete,
                          rbac_role_delete, rbac_membership_delete, memory

LEMMA GrantDbStep ==
    ASSUME TypeInv, GrantInv, NEW s \in Slot, DbStep(s)
    PROVE  GrantInv'
<1> DEFINE c == req[s].call
<1>1. UNCHANGED <<mem, failures>> /\ c \in Call
  BY DbShape DEF memory
<1>2. \A m : First(m) => First(m)'
  BY <1>1 DEF First
<1>3. \A t \in Slot \ {s}, m \in mem : AnswersForGrant(t, m) => AnswersForGrant(t, m)'
  BY <1>2, DbShape, OtherSlotGrant
<1>4. CASE req'[s].phase = "failed"
  <2>1. \A m \in mem : AnswersForGrant(s, m)'
    BY <1>4 DEF AnswersForGrant
  <2>2. QED
    BY <1>1, <2>1 DEF GrantInv
<1>5. CASE req'[s].phase = "done"
  <2>1. Effect(c)
    BY <1>5, DbShape
  <2>2. ASSUME NEW m \in mem, HasRow(m)
        PROVE  HasRow(m)' \/ AnswersForGrant(s, m)'
    <3>1. PICK g \in dbGrants : SameKey(g, m)
      BY <2>2 DEF HasRow
    <3>2. CASE g \in dbGrants'
      BY <3>1, <3>2 DEF HasRow, SameKey
    <3>3. CASE c.stmt = "put_grant" /\ SameKey(g, c.grant)
      <4>1. c.grant \in dbGrants'
        BY <2>1, <3>3 DEF Effect
      <4>2. QED
        BY <3>1, <3>3, <4>1 DEF HasRow, SameKey
    <3>4. CASE c.stmt = "del_grant" /\ SameKey(g, c)
      BY <1>5, <3>1, <3>4, DbShape DEF AnswersForGrant, SameKey
    <3>5. CASE c.stmt = "del_org" /\ g.org = c.org
      BY <1>5, <3>1, <3>5, DbShape DEF AnswersForGrant, SameKey
    <3>6. QED
      BY <1>1, <2>1, <3>2, <3>3, <3>4, <3>5, CallType DEF Effect, Revokes
  <2>3. ASSUME NEW m \in mem, AnswersForGrant(s, m)
        PROVE  HasRow(m)' \/ AnswersForGrant(s, m)'
    <3>1. CASE c.stmt = "put_grant"
      <4>1. c.grant \in dbGrants'
        BY <2>1, <3>1 DEF Effect
      <4>2. QED
        BY <2>3, <3>1, <4>1, DbShape DEF AnswersForGrant, Sent, HasRow, SameKey
    <3>2. CASE c.stmt = "put_org"
      BY <1>2, <1>5, <2>3, <3>2, DbShape DEF AnswersForGrant, Sent
    <3>3. QED
      BY <2>3, <3>1, <3>2, DbShape DEF AnswersForGrant, Sent
  <2>4. QED
    BY <1>1, <1>3, <2>2, <2>3 DEF GrantInv
<1>6. QED
  BY <1>4, <1>5, DbShape

LEMMA GrantResume ==
    ASSUME TypeInv, PlaceInv, GrantInv, NEW s \in Slot, Resume(s)
    PROVE  GrantInv' /\ PlaceInv'
<1> USE ResumeShape
<1> DEFINE c == req[s].call
<1>1. PlaceInv'
  BY DEF PlaceInv
<1>2. \A m \in mem : First(m) => First(m)'
  BY DEF First
<1>3. \A t \in Slot \ {s}, m \in mem : AnswersForGrant(t, m) => AnswersForGrant(t, m)'
  BY <1>2, OtherSlotGrant
<1>4. failures > 0 => failures' > 0
  BY DEF TypeInv, TypeOK
<1>5. \A m \in mem : HasRow(m) => HasRow(m)'
  BY DEF HasRow, database
<1>6. ASSUME NEW m \in mem', AnswersForGrant(s, m), req[s].phase = "done"
      PROVE  failures' > 0 \/ AnswersForGrant(s, m)'
  <2>1. CASE c.stmt = "put_org"
    <3>1. m \in OwnerMemberships(c) /\ First(m)
      BY <1>6, <2>1 DEF AnswersForGrant, Sent, OwnerMemberships
    <3>2. PICK n \in OwnerMemberships(c) :
             /\ \A x \in OwnerMemberships(c) : n.at <= x.at
             /\ req' = [req EXCEPT ![s] =
                          [phase |-> "sent",
                           call |-> [stmt |-> "put_grant", grant |-> Row(n)],
                           before |-> failures']]
      BY <2>1, <3>1, ResumeDispatch DEF rbac_org_create_persists_owner
    <3>3. n = m
      <4>1. n \in mem /\ n.at \in Nat /\ m.at \in Nat
        BY DEF OwnerMemberships, TypeInv, TypeOK, Membership
      <4>2. n.at <= m.at /\ m.at <= n.at
        BY <3>1, <3>2 DEF First, OwnerMemberships
      <4>3. QED
        BY <4>1, <4>2 DEF PlaceInv
    <3>4. req'[s] = [phase |-> "sent",
                     call |-> [stmt |-> "put_grant", grant |-> Row(m)],
                     before |-> failures']
      BY <3>2, <3>3 DEF TypeInv, TypeOK
    <3>5. QED
      BY <3>4 DEF AnswersForGrant, Sent, Row, SameKey
  <2>2. CASE c.stmt = "del_org"
    BY <1>6, <2>2, ResumeDispatch
       DEF AnswersForGrant, Sent, rbac_org_delete_returns, delete_org
  <2>3. CASE c.stmt = "del_grant"
    BY <1>6, <2>3, ResumeDispatch
       DEF AnswersForGrant, Sent, rbac_membership_delete_returns, remove_membership, SameKey
  <2>4. QED
    BY <1>6, <2>1, <2>2, <2>3 DEF AnswersForGrant, Sent
<1>7. GrantInv'
  BY <1>3, <1>4, <1>5, <1>6 DEF GrantInv
<1>8. QED
  BY <1>1, <1>7

LEMMA GrantRestart ==
    ASSUME TypeInv, RestartLoaded \/ RestartWithoutDatabase
    PROVE  GrantInv' /\ PlaceInv'
<1>1. CASE RestartLoaded
  <2>1. PICK f \in LoadOrder :
           mem' = {[user |-> g.user, org |-> g.org, proj |-> g.proj,
                    role |-> g.role, at |-> f[g]] : g \in dbGrants}
    BY <1>1 DEF RestartLoaded
  <2>2. dbGrants' = dbGrants /\ last' = Cardinality(dbGrants)
    BY <1>1 DEF RestartLoaded, Stop, database
  <2>3. GrantInv'
    BY <2>1, <2>2 DEF GrantInv, HasRow, SameKey
  <2>4. PlaceInv'
    <3>1. \A g \in dbGrants : f[g] <= Cardinality(dbGrants)
      BY <2>1, FS_CardinalityType DEF LoadOrder, TypeInv
    <3>2. \A g, h \in dbGrants : f[g] = f[h] => g = h
      BY <2>1 DEF LoadOrder
    <3>3. QED
      BY <2>1, <2>2, <3>1, <3>2 DEF PlaceInv
  <2>5. QED
    BY <2>3, <2>4
<1>2. CASE RestartWithoutDatabase
  BY <1>2 DEF RestartWithoutDatabase, GrantInv, PlaceInv
<1>3. QED
  BY <1>1, <1>2

LEMMA GrantNext ==
    ReuseOrgIds = FALSE /\ TypeInv /\ NoDanglingMembership /\ GrantInv /\ PlaceInv
        /\ [Next]_vars => GrantInv' /\ PlaceInv'
<1> SUFFICES ASSUME ReuseOrgIds = FALSE, TypeInv, NoDanglingMembership, GrantInv,
                    PlaceInv, [Next]_vars
             PROVE  GrantInv' /\ PlaceInv'
  OBVIOUS
<1>1. CASE UNCHANGED vars
  BY <1>1 DEF vars, GrantInv, PlaceInv, HasRow, AnswersForGrant, Sent, First
<1>2. ASSUME NEW s \in Slot, DbStep(s) PROVE GrantInv' /\ PlaceInv'
  BY <1>2, GrantDbStep, DbShape DEF PlaceInv, memory
<1>3. QED
  BY <1>1, <1>2, GrantBegin, GrantResume, GrantRestart DEF Next

\* When POST /rbac/orgs leaves the id to the server, a membership in memory
\* has a row under its key once nothing is in flight, unless the failure
\* metric has moved.
THEOREM GrantsPersisted ==
    ASSUME ReuseOrgIds = FALSE
    PROVE  Spec => []NoSilentGrantLoss
<1>1. Init => GrantInv /\ PlaceInv /\ NoDanglingMembership
  BY DEF Init, GrantInv, PlaceInv, NoDanglingMembership
<1>2. TypeInv /\ NoDanglingMembership /\ GrantInv /\ PlaceInv /\ [Next]_vars
        => GrantInv' /\ PlaceInv'
  BY GrantNext
<1>3. TypeInv /\ GrantInv => NoSilentGrantLoss
  BY DEF GrantInv, NoSilentGrantLoss, HasRow, Quiescent, IsIdle, AnswersForGrant, Sent
<1>4. QED
  BY <1>1, <1>2, <1>3, InitType, NextType, DanglingNext, PTL DEF Spec

=============================================================================
