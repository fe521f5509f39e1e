-------------------------------- MODULE Rbac --------------------------------
(***************************************************************************)
(* The RBAC control plane of services/orchestrator-agent: the in-memory    *)
(* engine (rbac/engine.py), its best-effort persistence (rbac_store.py)    *)
(* and the aiohttp handlers that drive both (webhook_server.py).           *)
(*                                                                         *)
(* The handlers are coroutines of one event loop.  Each runs without       *)
(* interruption up to the statement it sends to PostgreSQL; the statement  *)
(* takes effect (or fails) on the server some time later, and the handler  *)
(* resumes some time after that.  A request in flight occupies a slot, and *)
(* its three steps are three actions, so that handlers interleave exactly  *)
(* where the code awaits.                                                  *)
(***************************************************************************)
EXTENDS Integers, FiniteSets

CONSTANTS
    User,           \* user identifiers
    Org,            \* organization identifiers
    Project,        \* project identifiers; NoProject is the empty string
    NoProject,
    CustomRole,     \* role names that are not built in
    NoRole,         \* "no role of that name"
    RolePerms,      \* the permission sets a created role may carry
    Slot,           \* requests that may be in flight together
    ReuseOrgIds,    \* may POST /orgs name an id that is or was in use?
    MaxGrants,      \* bound: memberships appended to the list
    MaxFailures,    \* bound: statements the database fails
    MaxRestarts     \* bound: restarts of the process

\* The permissions a handler tests.  Operator, developer and billing carry
\* none of them and are represented by viewer.
Permission == {"org:delete", "org:manage", "member:remove"}

BUILT_IN_ROLES ==
    [owner  |-> Permission,
     admin  |-> Permission \ {"org:delete"},
     viewer |-> {}]

BuiltInName == {"owner", "admin", "viewer"}
RoleName == BuiltInName \cup CustomRole
Scope == Project \cup {NoProject}

ASSUME RbacAssumption ==
    /\ NoProject \notin Project
    /\ CustomRole \cap BuiltInName = {}
    /\ RolePerms \subseteq SUBSET Permission
    /\ \A ps \in SUBSET Permission :
         /\ NoRole # ps
         /\ \A b \in BOOLEAN : NoRole # [perms |-> ps, is_builtin |-> b]
    /\ ReuseOrgIds \in BOOLEAN
    /\ MaxGrants \in Nat /\ MaxFailures \in Nat /\ MaxRestarts \in Nat

VARIABLES
    orgs,       \* RBACEngine._orgs: the organizations in memory
    roles,      \* RBACEngine._roles: name -> role, NoRole when absent
    mem,        \* RBACEngine._memberships: the list, as a set of records
                \* that carry their place in it
    last,       \* the place of the last membership appended
    dbOrgs,     \* table organizations
    dbRoles,    \* table roles: name -> permissions, NoRole when absent
    dbGrants,   \* table role_assignments
    failures,   \* rbac_store.rbac_persist_failures
    req,        \* the requests in flight
    restarts    \* restarts so far

vars == <<orgs, roles, mem, last, dbOrgs, dbRoles, dbGrants, failures, req,
          restarts>>
memory == <<orgs, roles, mem, last>>
database == <<dbOrgs, dbRoles, dbGrants>>

Role == [perms : SUBSET Permission, is_builtin : BOOLEAN]
Grant == [user : User, org : Org, proj : Scope, role : RoleName]
Membership == [user : User, org : Org, proj : Scope, role : RoleName, at : Nat]

RowWithPlace(m) == m
Row(m) == [user |-> m.user, org |-> m.org, proj |-> m.proj, role |-> m.role]
\* uq_role_assignment: the columns that identify a row.
SameKey(a, b) == a.user = b.user /\ a.org = b.org /\ a.proj = b.proj

\* A request: its statement (stmt), the statement's arguments, the value of
\* the failure counter when it was sent, and how far it has come.
PutRole == [stmt : {"put_role"}, name : RoleName, perms : SUBSET Permission]
DelRole == [stmt : {"del_role"}, name : RoleName]
PutOrg == [stmt : {"put_org"}, org : Org, user : User]
DelOrg == [stmt : {"del_org"}, org : Org]
PutGrant == [stmt : {"put_grant"}, grant : Grant]
DelGrant == [stmt : {"del_grant"}, user : User, org : Org, proj : Scope]
Call == PutRole \cup DelRole \cup PutOrg \cup DelOrg \cup PutGrant \cup DelGrant

Idle == [phase |-> "idle"]
InFlight == [phase : {"sent", "done", "failed"}, call : Call, before : Nat]

IsIdle(s) == req[s].phase = "idle"
Sent(s, stmt) == req[s].phase = "sent" /\ req[s].call.stmt = stmt
\* The statement is over (phase done or failed) and the handler has not run.
Answered(s, stmt) == req[s].phase \in {"done", "failed"} /\ req[s].call.stmt = stmt
Quiescent == \A s \in Slot : IsIdle(s)

-----------------------------------------------------------------------------
(***************************************************************************)
(* The decision point.                                                     *)
(***************************************************************************)
\* _resolve_permissions with an org and no project: only the org-wide
\* memberships count, and one naming a role that is gone grants nothing.
resolve_permissions(u, o) ==
    UNION {roles[m.role].perms :
              m \in {n \in mem : /\ n.user = u /\ n.org = o
                                 /\ n.proj = NoProject
                                 /\ roles[n.role] # NoRole}}

has_permission(u, p, o) == p \in resolve_permissions(u, o)

list_orgs_for_user(u) == {m.org : m \in {n \in mem : n.user = u}} \cap orgs

-----------------------------------------------------------------------------
(***************************************************************************)
(* What a handler does before its first await.                             *)
(***************************************************************************)
Send(s, call) ==
    req' = [req EXCEPT ![s] = [phase |-> "sent", call |-> call,
                               before |-> failures]]

AppendMembership(g) ==
    /\ last < MaxGrants
    /\ last' = last + 1
    /\ mem' = mem \cup {[user |-> g.user, org |-> g.org, proj |-> g.proj,
                         role |-> g.role, at |-> last + 1]}

\* POST /rbac/roles: the engine takes the role under any name, a built-in
\* one included, and never as a built-in.
rbac_role_create(s, n, ps) ==
    /\ IsIdle(s)
    /\ roles' = [roles EXCEPT ![n] = [perms |-> ps, is_builtin |-> FALSE]]
    /\ Send(s, [stmt |-> "put_role", name |-> n, perms |-> ps])
    /\ UNCHANGED <<orgs, mem, last, database, failures, restarts>>

\* Does a request in flight name organization o?
Mentions(c, o) ==
    \/ c.stmt \in {"put_org", "del_org", "del_grant"} /\ c.org = o
    \/ c.stmt = "put_grant" /\ c.grant.org = o

\* The id a caller leaves out is a fresh uuid.
FreshOrgId(o) ==
    /\ o \notin orgs \cup dbOrgs
    /\ \A s \in Slot : ~IsIdle(s) => ~Mentions(req[s].call, o)

\* POST /rbac/orgs.
rbac_org_create(s, o, u) ==
    /\ IsIdle(s)
    /\ ReuseOrgIds \/ FreshOrgId(o)
    /\ orgs' = orgs \cup {o}
    /\ AppendMembership([user |-> u, org |-> o, proj |-> NoProject, role |-> "owner"])
    /\ Send(s, [stmt |-> "put_org", org |-> o, user |-> u])
    /\ UNCHANGED <<roles, database, failures, restarts>>

\* POST /rbac/assign: the membership is appended; one the user already has
\* under the same key stays in the list.
rbac_role_assign(s, g) ==
    /\ IsIdle(s)
    /\ roles[g.role] # NoRole
    /\ g.org \in orgs
    /\ AppendMembership(g)
    /\ Send(s, [stmt |-> "put_grant", grant |-> g])
    /\ UNCHANGED <<orgs, roles, database, failures, restarts>>

\* DELETE /rbac/orgs/{org_id}.
rbac_org_delete(s, o, actor) ==
    /\ IsIdle(s)
    /\ o \in orgs
    /\ has_permission(actor, "org:delete", o)
    /\ Send(s, [stmt |-> "del_org", org |-> o])
    /\ UNCHANGED <<memory, database, failures, restarts>>

\* DELETE /rbac/roles/{role_name}: any organization the actor manages will do.
rbac_role_delete(s, n, actor) ==
    /\ IsIdle(s)
    /\ roles[n] # NoRole
    /\ ~roles[n].is_builtin
    /\ \E o \in list_orgs_for_user(actor) : has_permission(actor, "org:manage", o)
    /\ Send(s, [stmt |-> "del_role", name |-> n])
    /\ UNCHANGED <<memory, database, failures, restarts>>

\* DELETE /rbac/assign: neither the organization nor the membership is
\* looked up before the row is deleted.
rbac_membership_delete(s, u, o, p, actor) ==
    /\ IsIdle(s)
    /\ has_permission(actor, "member:remove", o)
    /\ Send(s, [stmt |-> "del_grant", user |-> u, org |-> o, proj |-> p])
    /\ UNCHANGED <<memory, database, failures, restarts>>

-----------------------------------------------------------------------------
(***************************************************************************)
(* What a statement does in PostgreSQL.                                    *)
(***************************************************************************)
\* The foreign key of role_assignments refuses a row of no organization.
ViolatesForeignKey(c) == c.stmt = "put_grant" /\ c.grant.org \notin dbOrgs

\* The row DELETE FROM role_assignments removes: NULL is a project like any
\* other (IS NOT DISTINCT FROM).
RevokesAllScopes(g, c) == g.user = c.user /\ g.org = c.org
Revokes(g, c) == SameKey(g, c)

\* INSERT ... ON CONFLICT DO UPDATE, and DELETE; deleting an organization
\* cascades to its role assignments.
Effect(c) ==
    /\ dbOrgs' = CASE c.stmt = "put_org" -> dbOrgs \cup {c.org}
                   [] c.stmt = "del_org" -> dbOrgs \ {c.org}
                   [] OTHER -> dbOrgs
    /\ dbRoles' = CASE c.stmt = "put_role" -> [dbRoles EXCEPT ![c.name] = c.perms]
                    [] c.stmt = "del_role" -> [dbRoles EXCEPT ![c.name] = NoRole]
                    [] OTHER -> dbRoles
    /\ dbGrants' =
         CASE c.stmt = "put_grant" ->
                 {g \in dbGrants : ~SameKey(g, c.grant)} \cup {c.grant}
           [] c.stmt = "del_grant" -> {g \in dbGrants : ~Revokes(g, c)}
           [] c.stmt = "del_org" -> {g \in dbGrants : g.org # c.org}
           [] OTHER -> dbGrants

Answer(s, phase) == req' = [req EXCEPT ![s].phase = phase]

\* The failures the database may still produce, those not yet counted included.
MayFail == failures + Cardinality({s \in Slot : req[s].phase = "failed"}) < MaxFailures

\* The statement is committed and its result returned.
DbExecute(s) ==
    /\ req[s].phase = "sent"
    /\ ~ViolatesForeignKey(req[s].call)
    /\ Effect(req[s].call)
    /\ Answer(s, "done")
    /\ UNCHANGED <<memory, failures, restarts>>

\* The statement fails: always when it violates the foreign key, and at any
\* time because the database is away.
DbFail(s) ==
    /\ req[s].phase = "sent"
    /\ ViolatesForeignKey(req[s].call) \/ MayFail
    /\ Answer(s, "failed")
    /\ UNCHANGED <<memory, database, failures, restarts>>

\* The statement is committed and the connection lost before the answer.
DbLoseAnswer(s) ==
    /\ req[s].phase = "sent"
    /\ MayFail
    /\ ~ViolatesForeignKey(req[s].call)
    /\ Effect(req[s].call)
    /\ Answer(s, "failed")
    /\ UNCHANGED <<memory, failures, restarts>>

-----------------------------------------------------------------------------
(***************************************************************************)
(* What a handler does once its statement is answered.                     *)
(***************************************************************************)
Return(s) == req' = [req EXCEPT ![s] = Idle]

\* _record_persistence_failure, in the except clause of every helper.
CountNothing(s) == failures' = failures
CountFailure(s) ==
    failures' = failures + (IF req[s].phase = "failed" THEN 1 ELSE 0)

\* The test of every delete handler: has the counter moved since the
\* statement was sent?  The counter is the module's, not the request's.
PersistFailedBefore(s) == failures > req[s].before
PersistFailed(s) == failures' > req[s].before

\* rbac_role_create and rbac_role_assign end here, and so does
\* rbac_org_create after its second statement: 201 whatever the outcome.
PutReturns(s) ==
    /\ Answered(s, "put_role") \/ Answered(s, "put_grant")
    /\ CountFailure(s)
    /\ Return(s)
    /\ UNCHANGED <<memory, database, restarts>>

\* The rest of rbac_org_create: the first membership of the owner in the
\* organization, whichever it is by now, is the one persisted.
OwnerMemberships(c) == {m \in mem : m.org = c.org /\ m.user = c.user}

rbac_org_create_persists_owner(s) ==
    /\ Answered(s, "put_org")
    /\ CountFailure(s)
    /\ LET own == OwnerMemberships(req[s].call) IN
         IF own = {}
         THEN Return(s)
         ELSE \E m \in own :
                /\ \A n \in own : m.at <= n.at
                /\ req' = [req EXCEPT ![s] =
                             [phase |-> "sent",
                              call |-> [stmt |-> "put_grant", grant |-> Row(m)],
                              before |-> failures']]
    /\ UNCHANGED <<memory, database, restarts>>

\* RBACEngine.delete_org.
delete_org_only(o) == orgs' = orgs \ {o} /\ UNCHANGED mem
delete_org(o) ==
    /\ orgs' = orgs \ {o}
    /\ mem' = {m \in mem : m.org # o}

rbac_org_delete_returns(s) ==
    /\ Answered(s, "del_org")
    /\ CountFailure(s)
    /\ IF PersistFailed(s) THEN UNCHANGED <<orgs, mem>>
                           ELSE delete_org(req[s].call.org)
    /\ Return(s)
    /\ UNCHANGED <<roles, last, database, restarts>>

\* RBACEngine.delete_role: a built-in name is never removed.
delete_role_unguarded(n) == roles' = [roles EXCEPT ![n] = NoRole]
delete_role(n) ==
    roles' = IF n \in BuiltInName THEN roles ELSE [roles EXCEPT ![n] = NoRole]

rbac_role_delete_returns(s) ==
    /\ Answered(s, "del_role")
    /\ CountFailure(s)
    /\ IF PersistFailed(s) THEN UNCHANGED roles
                           ELSE delete_role(req[s].call.name)
    /\ Return(s)
    /\ UNCHANGED <<orgs, mem, last, database, restarts>>

\* RBACEngine.remove_membership: without a project, the memberships of the
\* user in every project of the organization go too.
remove_membership(u, o, p) ==
    mem' = {m \in mem : ~(/\ m.user = u /\ m.org = o
                          /\ p = NoProject \/ m.proj = p)}

rbac_membership_delete_returns(s) ==
    /\ Answered(s, "del_grant")
    /\ CountFailure(s)
    /\ LET c == req[s].call IN
         IF PersistFailed(s) THEN UNCHANGED mem
                             ELSE remove_membership(c.user, c.org, c.proj)
    /\ Return(s)
    /\ UNCHANGED <<orgs, roles, last, database, restarts>>

-----------------------------------------------------------------------------
(***************************************************************************)
(* The process stops, with whatever was in flight, and starts again:       *)
(* load_rbac_state runs before the server listens, and a database that is  *)
(* away leaves the engine with its built-in roles.                         *)
(***************************************************************************)
SeededRoles == [n \in RoleName |->
    IF n \in BuiltInName THEN [perms |-> BUILT_IN_ROLES[n], is_builtin |-> TRUE]
                         ELSE NoRole]

\* RBACEngine.restore: a persisted role replaces a seeded one of its name.
RestoredRoles == [n \in RoleName |->
    IF dbRoles[n] # NoRole THEN [perms |-> dbRoles[n], is_builtin |-> FALSE]
                           ELSE SeededRoles[n]]

\* The rows come back in whatever order the table holds them.
LoadOrder == {f \in [dbGrants -> 1..Cardinality(dbGrants)] :
                 \A g, h \in dbGrants : f[g] = f[h] => g = h}

Stop ==
    /\ restarts < MaxRestarts
    /\ restarts' = restarts + 1
    /\ req' = [s \in Slot |-> Idle]
    /\ failures' = 0
    /\ UNCHANGED database

RestartLoaded ==
    /\ Stop
    /\ orgs' = dbOrgs
    /\ roles' = RestoredRoles
    /\ \E f \in LoadOrder :
         mem' = {[user |-> g.user, org |-> g.org, proj |-> g.proj,
                  role |-> g.role, at |-> f[g]] : g \in dbGrants}
    /\ last' = Cardinality(dbGrants)

RestartWithoutDatabase ==
    /\ Stop
    /\ orgs' = {} /\ mem' = {} /\ last' = 0
    /\ roles' = SeededRoles

-----------------------------------------------------------------------------
Init ==
    /\ orgs = {} /\ mem = {} /\ last = 0
    /\ roles = SeededRoles
    /\ dbOrgs = {} /\ dbGrants = {}
    /\ dbRoles = [n \in RoleName |-> NoRole]
    /\ failures = 0 /\ restarts = 0
    /\ req = [s \in Slot |-> Idle]

Begin(s) ==
    \/ \E n \in RoleName, ps \in RolePerms : rbac_role_create(s, n, ps)
    \/ \E o \in Org, u \in User : rbac_org_create(s, o, u)
    \/ \E g \in Grant : rbac_role_assign(s, g)
    \/ \E o \in Org, a \in User : rbac_org_delete(s, o, a)
    \/ \E n \in RoleName, a \in User : rbac_role_delete(s, n, a)
    \/ \E u, a \in User, o \in Org, p \in Scope : rbac_membership_delete(s, u, o, p, a)

DbStep(s) == DbExecute(s) \/ DbFail(s) \/ DbLoseAnswer(s)

Resume(s) ==
    \/ PutReturns(s)
    \/ rbac_org_create_persists_owner(s)
    \/ rbac_org_delete_returns(s)
    \/ rbac_role_delete_returns(s)
    \/ rbac_membership_delete_returns(s)

Next ==
    \/ \E s \in Slot : Begin(s) \/ DbStep(s) \/ Resume(s)
    \/ RestartLoaded
    \/ RestartWithoutDatabase

Spec == Init /\ [][Next]_vars

-----------------------------------------------------------------------------
(***************************************************************************)
(* Properties.                                                             *)
(***************************************************************************)
TypeOK ==
    /\ orgs \subseteq Org
    /\ roles \in [RoleName -> {NoRole} \cup Role]
    /\ mem \subseteq Membership
    /\ last \in Nat
    /\ dbOrgs \subseteq Org
    /\ dbRoles \in [RoleName -> {NoRole} \cup SUBSET Permission]
    /\ dbGrants \subseteq Grant
    /\ failures \in Nat
    /\ req \in [Slot -> {Idle} \cup InFlight]
    /\ restarts \in Nat

\* A membership in memory always belongs to an organization in memory, and a
\* row to a row: what the permission checks of DELETE /rbac/assign rely on,
\* since they never look the organization up.
NoDanglingMembership ==
    /\ \A m \in mem : m.org \in orgs
    /\ \A g \in dbGrants : g.org \in dbOrgs

\* The built-in roles are there whatever custom roles are created under
\* their names, deleted, persisted and loaded.
BuiltinsPresent == \A n \in BuiltInName : roles[n] # NoRole

\* "Failures are counted so a database outage cannot silently degrade the API
\* into a no-persistence mode": when no request is in flight and no failure
\* has been counted since the start, a restart loses no organization.
NoSilentOrgLoss == Quiescent /\ failures = 0 => orgs \subseteq dbOrgs

\* The same of custom roles.
NoSilentRoleLoss ==
    Quiescent /\ failures = 0 =>
        \A n \in CustomRole : roles[n] # NoRole => dbRoles[n] # NoRole

\* The same of memberships: for each one in memory the table has a row under
\* its key (user, organization, project).
NoSilentGrantLoss ==
    Quiescent /\ failures = 0 =>
        \A m \in mem : \E g \in dbGrants : SameKey(g, m)

\* A delete that answers 500 because its own statement failed has changed
\* nothing in memory, whatever the other requests did to the counter.
FailedDeleteKeepsMemory ==
    [][\A s \in Slot :
        /\ req[s].phase = "failed"
        /\ req[s].call.stmt \in {"del_org", "del_role", "del_grant"}
        /\ req'[s] # req[s]
        /\ restarts' = restarts
        => UNCHANGED memory]_vars

\* A delete whose statement was committed takes effect in memory as well
\* ("if DB fails, do not mutate in-memory state (atomic)").
CommittedDeleteApplies ==
    [][\A s \in Slot :
        req[s].phase = "done" /\ req'[s] = Idle /\ restarts' = restarts =>
            /\ req[s].call.stmt = "del_org" => req[s].call.org \notin orgs'
            /\ req[s].call.stmt = "del_grant" =>
                 ~\E m \in mem' : SameKey(m, req[s].call)]_vars

\* "... so state survives restarts": with nothing in flight and no failure, the
\* rows are the memberships held in memory.
GrantsSurviveRestart == Quiescent /\ failures = 0 => dbGrants = {Row(m) : m \in mem}

=============================================================================
