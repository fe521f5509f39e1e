# A TLA+ verification project for infra-pilot

infra-pilot is a control plane for containers and virtual private servers
(VPSs) on one Docker host.  This directory models its stateful core in TLA+,
checks small instances of it with TLC, and proves the main properties for all
instances with TLAPS.  `PROJECT.json` is the machine-readable index: components,
runs, the source lines of every definition, findings, hazards and theorems.

Paths below are relative to the repository; `OA` stands for
`services/orchestrator-agent`, `DS` for `services/discord-service`, `MP` for
`services/management-panel`.

- [1. The system](#1-the-system)
- [2. The plan](#2-the-plan)
- [3. The modules](#3-the-modules)
- [4. The runs](#4-the-runs)
- [5. What is proved](#5-what-is-proved)
- [6. Where the code and its documents disagree](#6-where-the-code-and-its-documents-disagree)
- [7. What is not modelled](#7-what-is-not-modelled)
- [8. Running it](#8-running-it)

## 1. The system

Three services and two clients share one PostgreSQL database and one Docker
daemon:

    browser -- management panel (Express, Supabase) --+
    ipilot  -- command line client -------------------+--> orchestrator agent (aiohttp)
    Discord -- Discord service (discord.js) --+             |  RBAC engine, rate limiter,
                                              |             |  VPS manager, manifests,
                                              v             v  incidents, freeze gate
                                       Docker, PostgreSQL, JSON files

Each service is one process with one event loop.  There are no threads to
speak of: what interleaves are coroutines (Python) and async functions
(JavaScript), and they interleave only where the code awaits a statement, a
lock or a program.  In the orchestrator the Docker calls of the VPS manager
block the loop and so are atomic with what surrounds them; in the Discord
service every Docker call is a child process that is awaited.  Every module
below follows these boundaries: what runs between two awaits is one action.

### The orchestrator agent (`OA`)

| component | state | operations | what is hard | what makes it correct |
|---|---|---|---|---|
| RBAC engine, store and handlers (`rbac/engine.py`, `rbac/models.py`, `rbac_store.py`, `webhook_server.py`) | roles, organizations and a list of memberships in memory; three tables; one failure counter of the module | create and delete roles, organizations, assignments; load at start | memory is changed before the statement is sent (creations) or after it is answered (deletions); "did it fail?" is read off a counter all requests share; answers can be lost; best-effort persistence | memberships belong to organizations, built-in roles never vanish, nothing acknowledged is lost without a counted failure, a failed deletion changes nothing |
| connection pool (`db.py`, `/health`, `/ready`) | a lazily created global pool, connections out and in | acquire, query, release, lost connections | creation across an await; probes that take a raw connection | no connection handed out twice, all returned, every request answered |
| rate limiter (`rate_limiter.py`) | per rule a bounded table of ring buffers, least recently used first | check, evict | wrap-around, window boundary, clock set back, eviction | at most N admissions in a window, exact reset time, only the least recent client forgotten |
| VPS manager (`vps_manager.py`, `vps_container_lifecycle.py`, `vps_backup_snapshots.py`, `vps_instance_persistence.py`) | the inventory in memory, a JSON file, a table, Docker | create, delete, start, stop, resize, backup, restore, save, load | an await in the middle of every operation (the save), failures half-way, two stores read back with a preference | each VPS once, none forgotten, the file current, a failed resize does not leave a VPS down, requests end |
| manifest reconciliation and compute providers (`manifest/engine.py`, `compute/`) | the provider's networks, volumes and instances | detect drift, reconcile | the only registered provider raises AttributeError on every create and update (section 6), and a pass never suspends | what is missing is created once, the rest is reported |
| incidents (`incidents.py`) | a JSON file of incidents | create, status, notes, assign, escalate | handlers read the file twice; an unreadable file counts as empty and is then written over; the rota may change at a restart | an incident is what its timeline tells, levels go up one at a time and stay in the chain, a resolved incident is neither escalated nor re-timed |
| freeze gate (`deploy_freeze.py`) | weekly windows of the environment, a manual freeze | may this deployment go ahead now | windows that run over the end of the week, times at its boundary | a deployment is held up exactly when something freezes it |
| living fleet (`living_fleet.py`, `fleet_collect.py`) | a JSON file with a creature per workload | collect, refresh, rename, ghosts | the collector awaits its readings while a rename writes the file | a creature says what was last read of its workload, and keeps its name |
| feature flags (`feature_flags.py`) | a polled cache | refresh | staleness | the cache follows |
| secrets manager, resource monitor, health monitoring, playful endpoints, migrations, request authentication | files, Vault, probes of single containers | | I/O around single calls | |

### The Discord service (`DS/modules`)

| component | state | operations | what is hard | what makes it correct |
|---|---|---|---|---|
| VPS manager (`vpsManager.js`, `serverLimits.js`) | Docker containers, rows of `vps_containers`, backup images, rows of `backup_rotation` | create under a limit, delete, power, backup, retention, restore | nothing locks a VPS: retentions overlap each other and backups, restores and deletions; check then act at the limit; swallowed failures | the newest backups are always there, listed backups exist, retention is applied, the limit is exceeded by no more than the overlap allows |
| resource pools (`resourcePools.js`) | rows with a list of members | create, delete, add, remove | read, then conditional write, three attempts | a refusal for a conflict means that there was one |
| task scheduler (`taskScheduler.js`) | cron jobs in memory, rows | reload, create, fire, run | reloads share one promise; a creation joins a reload that has passed its SELECT | each row has one live job, and no job is out of the scheduler's sight |
| tickets (`ticketSystem.js`) | a counter and the open tickets in memory, channels | open, close, transcript | a rejected handler ends the process, and with it the memory; two presses of one button | numbers are distinct, a ticket is transcribed once |
| health checks, alerts, status (`healthChecks.js`, `monitoring.js`, `alertManager.js`, `serverStatus.js`) | timers, the time of the last alert, a widget message | check, collect, alert, attach, update | a timer fires while the last lap still awaits | one lap at a time, one alert per cooldown, one timer per widget |
| commands (`modules/*Commands.js`, `index.js`) | a deferred or replied interaction | every slash command | exits of a handler after a deferral, a failing call before and after it | each command ends with an answer, once, by a call that fits |
| templates, roles, maintenance, credits, bridges | rows; Docker | around the above | | |

### The management panel (`MP`) and the rest

The panel's server (`MP/server/index.ts`) keeps nearly everything in Supabase.
Two facts shape all of it: a Supabase call never throws (a failed one answers
an `error`, and many handlers take only `data`, so that failure looks like
"nothing there"), and `.single()` answers an error unless there is exactly one
row.

| component | state | operations | what is hard | what makes it correct |
|---|---|---|---|---|
| versions of settings | a row of `docker_apps`, rows of `config_versions` | save, patch, roll back, delete | number the next version, then insert it | the history grows at its end only, versions are distinct and immutable |
| JSON lists (tasks, databases, modpacks, themes, translations, dashboards, tags) | one JSON value each | add, edit, remove | read, edit, write back, with another request between | an item is lost only to a list read before it was there, or to a failed read |
| deployments and their freeze (`deploy-freeze.ts`) | deployments, windows, policy, signals, alerts | deploy, roll back, forward to the orchestrator | the gate reads its inputs one after the other | whoever a lasting reason freezes is kept out |
| audit log (webhooks, API keys, backup jobs, alert settings) | rows of five tables, rows of `audit_log` | create, change, delete, and log each | the entry is a second statement, which may fail or come after another request's | what a row holds is what an entry says that was made of it, unless that entry was given up |
| setup and seeding | setup rows, accounts, demo rows | complete, skip, seed | look, then insert, with no unique key | made once |
| apps | rows, a container, roles, snapshots, plugins and workspaces in memory | create, start, stop, restart, delete | the row is told after Docker has answered | the row says what the container does |
| secrets | a row and its history | rotate, restore | read, append to the history, change the row | the current value is the one its history names |
| flags | rows, sockets, a browser cache, a poll | change, announce, fetch, poll | an announcement overtakes an older fetch | a follower ends with the latest rule |
| shared terminal | rooms, a bounded output buffer | join, type, resize, leave | replay at joining against lines relayed meanwhile | all screens of a session agree |
| configuration advice (`config-advice-engine.ts`) | none | report | rules share one text, and one rule's advice can wake another; a recommendation need not cover what its rule tests for | advice that was followed falls silent, but for rules that can be named |

The user interface (`MP/src`) is not stateless: each of its screens fetches,
shows what an answer brought, and reloads after its own writes, and the answers
come late, in any order or not at all.  The command line client, the shell
scripts, the Helm chart and the compose file keep no state.

## 2. The plan

Most important behaviour first: access control and its persistence, then what
every request passes through (pool, limiter), then the two managers of VPSs,
then what is built on them.

| step | modules | abstract specification | runs | theorems | state |
|---|---|---|---|---|---|
| 1 | `Rbac`, `MCRbac`, `Rbac_proofs` | – | `rbac_orgs`, `rbac_grants`, `rbac_atomic`, `rbac_reassign` | 7 | done |
| 2 | `DbPool`, `MCDbPool`, `DbPool_proofs` | – | `pool_statements`, `pool_ready` | 2 | done |
| 3 | `SlidingWindowEntry`, `RateLimiter`, `AdmissionLog`, `MCRateLimiter`, `RateLimiter_proofs` | `AdmissionLog`: a complete log of admissions per client | `limiter_window` | 5, the refinement among them | done |
| 4 | `VpsManager`, `MCVpsManager`, `VpsManager_proofs` | – | `vps_inventory`, `vps_restart` | 4 | done |
| 5 | `DiscordVps`, `ResourcePools` with their MC modules, `DiscordVps_proofs` | – | `discord_vps`, `pool_conflict` | 3 | done |
| 6 | `ConfigVersions`, `SharedLists`, `Deployments`, `PanelSetup`, `PanelApps`, `PanelSecrets`, `AuditTrail`, `PanelFlags`, `Terminal`, `ConfigAdvice`; `Services`, `MCServices`, `Panel_proofs`, `Records_proofs` | `VersionLog`: a list that grows at its end until its app is deleted | `services` | 11, a refinement among them | done |
| 7 | `DiscordTasks`, `DiscordWatch`, `DiscordTickets`, `DiscordCommands`; `Bot_proofs` | – | `services` | 3, one of them the types of all the services | done |
| 8 | `PanelViews`: the user interface's screens (proofs in `Records_proofs`) | – | `services` | 1 | done |
| 9 | `Incidents`, `LivingFleet`, `FreezeWeek` (proofs in `Records_proofs` and `Panel_proofs`) | – | `services` | with those of step 6 | done |
| 10 | invariants strong enough for `ConnectionsReturned`, `FallbackCurrent`, `ListedBackupsExist`, `RetentionApplied` | – | (those of steps 2, 4, 5) | 4 | done |
| 11 | `ManifestEngine` with the freeze gate in front | – | – | – | dropped: with the one provider there is, a reconciliation is one uninterrupted pass whose instance actions all fail |

Left for later: liveness for the services of step 7.

Composition: `RateLimiter` extends `SlidingWindowEntry` (the ring of one
client) and instantiates `AdmissionLog` with a refinement mapping; the `MC`
modules extend their component with the values and symmetries TLC needs; the
`_proofs` modules extend it with the theorems.  The services of steps 6 to 9
share no state with each other; `Services` instantiates all of them and has one
at a time in focus, `MCServices` gives its constants their values, and
`Panel_proofs`, `Records_proofs` and `Bot_proofs` prove its properties.
`Services` also maps `ConfigVersions` to `VersionLog` (`HistoryIsALog`).  Where
two sides do interact they are in one module: the browser, the Discord poll and
the routes of `PanelFlags`, the rooms and the component of `Terminal`, the
panel and the orchestrator behind it in `Deployments`.  `Rbac` and `DbPool`
meet at the database: `DbPool` models how a statement of `rbac_store.py` gets and returns
its connection, `Rbac` what the statement does once it has one, and that it may
fail, which is all that `DbPool` shows of itself to a handler.  `VpsManager`
and `DiscordVps` share the table `vps_containers`: the rows of the Discord
service are the constant `Provisioned` of `VpsManager`.

## 3. The modules

### Rbac

| TLA+ | code |
|---|---|
| `orgs`, `roles`, `mem` | `RBACEngine._orgs`, `_roles`, `_memberships`; a membership carries its place (`at`) in the list, because one handler takes "the first" |
| `dbOrgs`, `dbRoles`, `dbGrants` | the tables `organizations`, `roles`, `role_assignments`, whose unique key is (user, organization, project) and which cascade from organizations |
| `failures` | `rbac_store.rbac_persist_failures`, counted in every `except` |
| `req` | the requests in flight: a handler up to its statement, the statement on the server, the rest of the handler |
| `rbac_role_create` ... `rbac_membership_delete` | the part of each handler before its await, with its checks in order |
| `DbExecute`, `DbFail`, `DbLoseAnswer` | the statement is committed; fails; is committed and the answer lost |
| `PutReturns`, `rbac_org_create_persists_owner`, `..._returns` | the part after the await, `PersistFailed` being the comparison of the counter |
| `RestartLoaded`, `RestartWithoutDatabase` | `load_rbac_state` at start, with and without a database |

Abstractions: permissions are the three that a handler tests, and the built-in
roles that carry none of them are one (`viewer`).  The engine's project and
team operations have no caller outside its tests.  Places in the list
(`MaxGrants`) bound the memberships appended over the whole run.

### DbPool

`get_pool`, `create`, `Take`, `Query` follow `db.py`; asyncpg's pool is
external: `Size` connections, waiting without limit when all are out, a lost
connection taken back once.  Kinds of tasks are `statement`
(`DatabasePool.execute`, `fetch`), `health` and `ready`.  `report` is what the
caller is told.  Two first requests may both create a pool (`create` overwrites
the global): the model keeps both.

### SlidingWindowEntry, RateLimiter, AdmissionLog

`SlidingWindowEntry` is the ring of one client as the code has it: a list of
fixed length overwritten in place, a start and a count.  `RateLimiter` is the
table: `check` finds or makes the entry (`_ensure_capacity` with its eviction),
prunes, admits or refuses, in one step, as `RateLimitRule.check` has no await.
`Tick` moves the clock to any value up to a bound, backwards as well:
`time.time()` is not monotonic.  `log`, `promised`, `since` and `setBack` are
history and never read by an action's guard (but for the bound `MaxAdmissions`).
`AdmissionLog` is the promise to a client: a request is admitted exactly when
fewer than `Capacity` were admitted in the last `Window` ticks.  The default
strategy is the sliding window; the others (token bucket, fixed window) and the
concurrency limiter are configured nowhere in the repository.

### VpsManager

Calls to Docker block the loop, so an operation is one step up to
`save_instances`; there it queues for the persistence lock (`queue`), opens the
file, which empties it (`Open`), writes it (`Write`) and goes on (`Resume`),
which for a restore means the second half of it (`Replace`).  `vps` names a VPS
by its first container across restores, and `saved` and `deleted` are history.
The statements of `save_instances` to the table never succeed (section 6), so
`rows` is only ever read and deleted from; the listed rows carry no
configuration, therefore a restore of one of them stops it and ends
(`instances[c].config`).

### DiscordVps

| TLA+ | code |
|---|---|
| `docker`, `images`, `based` | containers and images in Docker, and which image a container was made of (Docker refuses to remove that) |
| `owner` | `vps_containers`: the user of a container with a row |
| `backups`, `made` | `backup_rotation`, each row numbered within its container and type (the order of `created_at`) |
| `second` | the second in the name of the latest backup of a container; a later one gets a later second or the same (`Seconds`) |
| `inserted` | history: every row of `backup_rotation` there ever was |
| `cmd` | the commands in flight |
| `createVps`, `Run`, `Insert` | `createVps` and `/deploy`: limit, `docker run`, `addToDatabase` |
| `deleteVps`, `Rm`, `Unlist` | `/deletevps` |
| `createBackup`, `Commit`, `Record`, `Select`, `Rmi`, `Forget` | `createBackup` and `applyRetention`, await by await |
| `restoreBackup`, `Stop`, `Remove`, `Replace` | `restoreBackup` |
| `Power` | start, stop, restart and the restart of `/vpsupdate` |
| `Crash` | the process stops with what is in flight |

Every call may fail, with or without having taken effect.  A backup made in the
second of another takes its image's name over (`Committed`); Docker keeps an
image that has lost its name only for a container made of it (`Unnamed`).  The
rows that can lose their image to an expired one of the same name are `Past` and
`Shadowed`.  Abstractions: the
look-up that begins a command and the check it leads to are one step; the
`status` column and statistics, which are only shown, are left out; a raw image
id passed to a restore is not enumerated; a call whose effect comes only after
its timeout or a crash is not modelled; if the old container is still there
when a restore runs the new one, the new one is not followed further and only
keeps its image in use.  The type `scheduled` that the task scheduler gives
its backups is in no retention: in the model it is a member of `Type` outside
`Rotated`.

### ResourcePools

`Resolve`, `Read` and `Write` are the three queries of an addition or a removal.
`Read` computes both the new list and the list of the UPDATE's condition, as
`mutateMembers` does; the callbacks change the list in place, so that the two
are equal.  `overtaken` is history: the commands whose pool another command
changed while they were in flight.

### The panel's server

In all of these a handler's statements are its actions, `req` holds the requests
in flight (`Slot`), and `Error` is a statement that Supabase answers with an
error the handler does not look at, bounded by `MaxFailures`.  Slots are only
names, and the first free one is taken.

**ConfigVersions, VersionLog.**  `settings` is the row of `docker_apps`,
`versions` the rows of `config_versions`.  `createVersion` goes on
to `ReadMax`, which asks for the highest number and counts an error as none;
`InsertVersion` inserts the next one, and the unique key refuses a number that
was taken meanwhile.  `rollback` puts the old settings in force
(`ApplySnapshot`) before it does the same two steps.  `Update`, `patchJava` and
`WriteJava` change the row.  `VersionLog` promises a list that grows by one at its end until
the app is deleted; the refinement maps the rows to it in the order of their
numbers.

**SharedLists.**  The seven lists kept as one JSON value each.  A request is `read
whole`, `edit in memory`, `write back`; an installation of a modpack goes on
after its request (`hooks`) and writes back the list it captured.  The file of
the dashboards may be cut off by a stop.  `DropsOnlyStale` says which entries a
write may drop; the exception for themes is the code's: a request that reads
its own user's themes writes only those back.

**Deployments.**  `getFreezeWindows`, `getFreezePolicy` and
`getStoredFreezeSignals` are the gate's first three reads, which go out together;
once all are back, `getAlertConfigs` reads the ids of the user's alert
configurations, and `enforceDeployFreeze` counts the open alerts of those ids and
decides; then come the list and the call to the orchestrator.  Other requests may
change what is read in between each of these.  `alerts` says which of a user's
configurations (`ConfigsOf`) have open alerts; one that is made after the ids
were read is not counted.  `lasting` is history:
the reasons to freeze that were in force at every moment since the request
reached the gate, each configuration with open alerts being one.  A read that
fails is an empty value, and the request is then `blind`.

**PanelSetup.**  `setup/init`, the seeding of demo data and of apps: each looks
for something with `.single()` and inserts it.  `excused` names what was looked
for while another request was about to insert it, or in vain.

**PanelApps.**  Start, stop and restart ask the row for the container, run
Docker, then tell the row; creation, deletion, clones, roles, snapshots and
plugins around them.  `unsure` is history: since the last command that ran on
its own and was told, commands overlapped, failed, came from a stranger, or the
container stopped by itself.

**PanelSecrets.**  `POST`, `rotate`, `rotate-all` and deletion of one secret
against its history; `lost` are the values whose row of history could not be
inserted.

**AuditTrail.**  Five tables of rows that users keep for themselves (webhooks,
API keys, backup jobs, alert configurations, notification channels), one chosen
initially, and the audit log.  A handler changes its row in one statement and
logs it in another (`req` is what it goes on to log): the entry may be refused,
which nobody notices (`excused`), or come after the entry of a later change,
and a restart loses what has not been logged.  A deletion that matched nothing
is logged as well.  The deletion of an app removes its backup jobs, whoever made
them, by a cascade that no entry tells of (`deleteApp`; `excused`).  The log is
a set: what it says, not in which order.

**PanelFlags.**  The routes that change a flag, and its two followers.  The
browser is told by a socket (`nudges`) and fetches; answers may come in any
order.  The Discord service polls.  `excused` is where the code gives up on a
browser: a closed socket, an expired flag, a failed or overtaken fetch.

**Terminal.**  Rooms and the component that shows one.  The server's handlers
do not wait, messages of one socket keep their order, sockets open and close at
any time; a component takes what has arrived (`inbox`) one message at a time, and
shows the last `ScreenCap` lines, as the room keeps the last `OutputCap`.
`doubled` are the components whose button was pressed twice before
the connection was there.

**ConfigAdvice.**  A rule is a record: what satisfies it, what it objects to,
what its recommendation adds and removes, as marks in the row and the files, and
what following it may bring about or end by the way (`sways`: the layout of the
lines that are written or rewritten).  A mark per way to set a rule off: where
the test is wider than the recommendation (`-enableassertions`, of which "Remove
`-ea`" says nothing; a flag that is mentioned in a comment; a fourth level of
indentation), the wider part is a mark of its own that following leaves there
(`LeftAlone`).  An operator reads a report and follows it item by item, in any
order, to the letter and wherever it applies; what is to go into files goes into
one that the route reads (a start-up script is none).  `heeded` are the rules that
were followed, `woken` those that following another one gave a reason to speak
that they had not had (`GivesReason`).  A report is of the row and the files, or,
when the container does not run, of the row alone.  `scope` is every single rule
and every pair, since rules meet only through a shared mark.  The sets `Restless`,
`LeftAlone` and `Wakeable` are facts about the code that the property thus states.

### The Discord service's bookkeeping

**DiscordTasks.**  A reload reads the rows, stops all jobs and makes new ones
(`reloads`); callers that come meanwhile join it.  `live` are the jobs node-cron
fires, `registeredTasks` those the scheduler knows; `missed` are the tasks whose
command joined a reload that had read the rows before.  Deletion and toggling
change nothing (section 6).

**DiscordWatch.**  The four loops, one to a behaviour.  A timer may fire while
laps are under way; `loopRunning` is the guard of the health checks,
`alertState` the cooldown of the alerts, `timers` and `tracked` the interval of
a widget and the one its channel knows.

**DiscordTickets.**  `handler` follows the handlers of the two buttons from
await to await.  A refused reply or welcome rejects a promise nobody catches:
the process ends, `tickets` and `counter` are lost, the channels stay.

**DiscordCommands.**  Each handler is the sequence of its steps: a reply, a
deferral, an edit, a call that may fail, an early return.  There is one table of
handlers per command module (`COMMAND_MODULES`, which the dispatcher guards, and
`Unguarded`), and `Handlers` looks a command up in them.  The machine plays one
command, with its catch and the dispatcher's fallback, against an interaction
that accepts what Discord accepts.

### The user interface: PanelViews

A screen is a record of the choices its code makes: when it fetches (when
mounted, by a timer, when its subject changes, at a press), what it does with a
failed answer, whether it cancels what it no longer wants, and what its buttons
disable and reload.  There is one definition per screen (the modpack browser's
two lists are two), 44 of them, and one machine that plays them against a server
answering in any order or not at all.

A button's guard says what its request disables: nothing ("free"), every button
("flag"), those of its row ("row"), every button until an earlier press's callback
enables them ("late"), or every button but itself ("input": the freeze's error
budget is sent when its input is left, disabled or not, and its `finally` enables
the rest while another request is under way).  `shown` is what the latest answer
the screen took brought (`from` that question, `about` that subject); a screen
that has changed what it shows since, or took an older answer last, is not
`UpToDate`, and of it the property says nothing.  `Asking` are the screens that
ask again after a write, `Filtering` those none of whose handlers asks about the
subject of the moment its button was pressed; both sets, and the exception in
`Exclusive`, are facts about the code (section 6).  Left out: the polling of an
app's logs (`AppDetail`) and the check of the token before the form (`AppForm`).

### The orchestrator's smaller services

**Incidents.**  A handler reads the file twice and awaits nothing in between, so
it is one step; each read may fail by itself.  `unread` are the incidents that
were in the file when it was read in vain (a later write drops them).  The rota
may change between restarts, the clock of the quiet hours is any.

**LivingFleet.**  The collector awaits what it reads of a container (`reading`),
then refreshes the file; a rename may come between.  `seenUp` is history.

**FreezeWeek.**  Minutes count from Monday 0:00, a window that ends before it
starts goes over the end of the week, an entry with the time 24:00 is ignored.
`FreezeExact` compares the code's modular arithmetic with a definition by
distances; the length of the day and of the week are constants.

### Services, MCServices

The services above share no state, and so their product says no more than each
alone.  `Services` starts in any of them (`focus`) and stays there; their
variables are the places `s1` to `s18`, empty where a service needs fewer.  Its
properties speak of the service in focus.  `MCServices` gives the constants of
all of them their values.

## 4. The runs

Passing runs (TLC explores the instance completely):

| run | what it shows | bounds and why they are enough |
|---|---|---|
| `rbac_orgs` | `TypeOK`, `NoDanglingMembership`, `NoSilentOrgLoss`, `FailedDeleteKeepsMemory` | two users, one organization whose id is reused, two requests in flight, three memberships, one failure, one restart: enough for a creation, an assignment and a deletion to cross, fail and be reloaded (704 thousand states) |
| `rbac_grants` | `BuiltinsPresent`, `NoSilentRoleLoss`, `NoSilentGrantLoss` | one user, one project besides "none", one custom role, two memberships: the same key twice, or two keys of one user (fresh organization ids) |
| `pool_statements` | `TypeOK`, `NoExtraConnection`, `ConnectionsReturned`, `RequestsAnswered` | two connections, three tasks so that one waits, five requests, one loss of all connections, pools created side by side |
| `limiter_window` | `TypeOK`, `WindowBound`, `ResetTimeHonoured`, `EvictsLeastRecent`, `KeepsPromise` | two requests per window of two ticks, three clients in a table of two, three admissions per client: the ring wraps, the table evicts, the clock goes to 5 and back (940 thousand states) |
| `vps_inventory` | `TypeOK`, `EachVpsOnce`, `FallbackCurrent`, `NoVpsForgotten`, `ResizeKeepsRunning`, `RequestsEnd` | three containers, two coroutines, four requests, one failure, one restart: two restores of one VPS, or a restore and a deletion, with their saves (291 thousand states) |
| `services` | `ServicesTypeOK`, `LastingFreezeHolds`, `MadeOnce`, `StatusTold`, `RecordsAgree`, `FollowersCatchUp`, `ScreensAgree`, `BotKeepsTrack`, `CommandsAnswered`, `AdviceHeeded`, `ViewsCurrent`, `HistoryIsALog`, `LostOnlyToStaleReads` | the table below; 4.2 million states |
| `discord_vps` | `TypeOK`, `NewestBackupsKept`, `ListedBackupsExist`, `RetentionApplied`, `LimitExceededAtMost` | two commands in flight on two VPSs of one user with limit 1, two types that keep one backup each, five commands, one failure, one crash: up to five backups, in seconds of their own or in the same, so that two retentions work on overlapping lists (1.0 million states) |

The instances of `services`, each a property of its own in effect:

| focus | property | instance |
|---|---|---|
| settings | `HistoryIsALog` | two requests in flight, four in all, one failure: two roll-backs take the same number |
| lists | `LostOnlyToStaleReads` | each of the seven lists, two users, three requests, one restart (of a half-written file) |
| deploys | `LastingFreezeHolds` | two users, one of them admin and with two alert configurations, one window, two values of signals, two requests: a gate and a change of what it reads; the alerts go from one configuration to the other between the two reads about them |
| setup | `MadeOnce` | one customer and one app, two failures: two rows, which `single()` takes for none |
| apps | `StatusTold` | the owner and a stranger, three requests, one failure, one restart |
| secrets | `RecordsAgree` | two of four changes in flight, one failure |
| audit | `RecordsAgree` | each of the five tables, two users, three requests, one failure, one restart: a change whose entry is overtaken or lost; backup jobs that go with their app |
| flags | `FollowersCatchUp` | two changes, two fetches, one component: an answer overtakes another |
| terminal | `ScreensAgree` | two components, three sockets, two commands; the room keeps two lines and a screen one, so that both are cut |
| tasks | `BotKeepsTrack` | three tasks, six jobs, two runs, two commands in flight |
| watch | `BotKeepsTrack` | two containers, two laps, two widgets, a cooldown of two in a time of three |
| tickets | `BotKeepsTrack` | four presses, two handlers at work, one restart |
| commands | `CommandsAnswered` | every command, one failure, the three seconds over at any step |
| advice | `AdviceHeeded` | every rule and every pair of rules, every text of their marks |
| views | `ViewsCurrent` | each of the 44 screens, three questions, two writes, two subjects: an answer overtakes another, a subject changes under a request, two requests overlap |
| incidents | `RecordsAgree` | two incidents, four events, two rotas, the first with a second level |
| fleet | `RecordsAgree` | two workloads, ghosts after two ticks |
| gate | `LastingFreezeHolds` | a week of two days of two minutes, every set of one or two entries, every minute and request |

Runs that TLC refutes, each against a sentence of the repository (section 6):
`rbac_atomic` (`CommittedDeleteApplies`), `rbac_reassign`
(`GrantsSurviveRestart`), `pool_ready` (`RequestsAnswered`), `vps_restart`
(`InstancesSurviveRestart`), `pool_conflict` (`ConflictMeansChange`).

`services` is one run of eighteen machines rather than eighteen runs because
the question is the same for each: what it keeps beside what it stores, is it
true?  A property that is only about one focus is an implication from it.

Symmetry is used where the module never compares or orders the values:
`Slot` and `User` in `MCRbac`, the clients other than `Client` in
`MCRateLimiter`, `Slot`, `Container` and `Type` in `MCDiscordVps` (every type
keeps the same number there).  The runs with liveness or refinement properties
use none, except `limiter_window`, whose refinement is a safety property.
Deadlock is not checked: with the counters of requests, failures and restarts
used up, every model stops (and a screen, a command or a report of `services`
is simply over).

Every property of a passing run is broken by at least one mutant of a mapped
definition (the definitions named `...Late`, `...Inclusive`, `...Unguarded`
and so on, which nothing else uses).

**Fairness.**  Only `DbPool` and `VpsManager` state liveness; of the services only what
is true at rest is stated (`FollowersCatchUp`, `EndsAnswered`, `JobsKept`): a request of theirs ends if Supabase, Docker or Discord answers,
which the code does not see to.  `DbPool!FairSpec`
has weak fairness of every coroutine's step: the event loop runs what is ready
and the database answers or fails every query (it is not assumed to answer with
success, and requests need not arrive).  Weak fairness is enough for
`RequestsAnswered` on `statement` tasks because a bounded number of requests
competes; it is not strong fairness of the waiters, which asyncpg does not
promise to late-comers.  `VpsManager!FairSpec` has weak fairness of `Save(t)`:
opening and writing a local file ends, with or without an error.  Nothing is
assumed about Docker.

**Bounds.**  All counters that only bound the search are constants named
`Max...`; the theorems hold for every value of them.

## 5. What is proved

All theorems are proved for every value of the constants that satisfies the
named assumption of the module, with TLAPS (SMT, Zenon, PTL).

| module | theorems | inductive invariant and why it is needed |
|---|---|---|
| `Rbac_proofs` | `TypeCorrect`, `MembershipsBelong`, `BuiltinsStay`, `OrgsPersisted`, `RolesPersisted`, `FailedDeletesKeepMemory`, `GrantsPersisted` | `TypeInv` adds that `dbGrants` is finite (the loaded places need its cardinality). That nothing is lost silently is not inductive: for each thing in memory without a row, `OrgInv`, `RoleInv` and `GrantInv` name the request in flight that answers for it (it will write the row, or count a failure, or is deleting it), or a failure is counted already. `BeforeInv` (a request's snapshot of the counter is at most the counter) makes a failure always visible to its own handler. `GrantsPersisted` assumes `ReuseOrgIds = FALSE`; with reuse it is false, since the owner's first membership is the one persisted |
| `DbPool_proofs` | `PoolTypeCorrect`, `NoConnectionTwice`, `StatementsReturnAll`, `WaitingEnds` | `TypeOK`, `PoolsMade` (nobody refers to a pool not yet created) and `NoExtraConnection` itself; lemmas count the holders when one more or one less holds. `StatementsReturnAll` needs `Balanced`: in each pool, idle connections and holders make up its size. `WaitingEnds` follows from it too: a statement that waits with no connection free waits for one that another statement holds. Both assume `Kind = {"statement"}`; with probes they are false (section 6) |
| `RateLimiter_proofs` | `LimiterTypeCorrect`, `LimitHolds`, `ResetTimeExact`, `EvictionIsLeastRecent`, `Refinement` | `TableInv` (the order is the table's keys in the order of their latest checks) and per client `Good`: the ring is the tail of the log, what the log has before it has left the window, and a refusal's time is the oldest entry's. Pruning, adding and refusing each preserve `Good`, and the ring's arithmetic is in `DroppedTracks` and `AddedTracks` |
| `VpsManager_proofs` | `InventoryTypeCorrect`, `VpsOnce`, `VpsKept`, `FileIsCurrent`, `LockAlwaysMoves`, `ResizeRecovers` | the inventory, the file and the content being written are each `Proper` (no VPS twice, only containers Docker gave out), since a restart may load any of them; deleted VPSs are in no inventory. `FileIsCurrent` rests on `FileInv`: the queue of the lock is exactly who waits to save (`Queued`), and the last in it is yet to copy the inventory or has copied it as it is (`LastCurrent`). `LockAlwaysMoves` needs the converse, that who waits to save is in the queue (`LineInv`): its first is then a request that can open or write the file |
| `DiscordVps_proofs` | `VpsTypeCorrect`, `NewestKept`, `ListedExist`, `RetentionEnds`, `VpsLimitHolds` | a retention holds rows it read some time ago: `OnlyPast` says that each of them was inserted and already had as many younger rows as are to be kept, which stays true; `Recorded` says that a committed image not yet recorded is there unless such a row shares it. `ListedExist` adds `Listed` (an image that a row or a finished commit wants is there, or a retention is about to forget, or has forgotten, a row of that image), `RetentionEnds` adds `Swept` (expired rows are covered by a retention under way) and `Numbered` (a place is one row's). All three hold with backups of the same second; the history `inserted` names the row an image was lost to. `LimitInv` counts a user's rows and commands together |
| `Panel_proofs` | `SettingsAlways`, `HistoryKept`, `FreezeHolds`, `StatusAlwaysTold`, `SetupMadeOnce`, `FlagsCatchUp`, `OnlyStaleReadsLose`, `AdviceAlwaysHeeded`, `AdviceHeededOfAnyRules` | see below |
| `Records_proofs` | `RecordsAlwaysAgree`, `ScreensCurrent`, `ScreensOfASession` | see below |
| `Bot_proofs` | `BotAlwaysKeepsTrack`, `CommandsAlwaysAnswered`, `ServicesTypes` | see below |

The last three are about `ServicesSpec`.  Each theorem has two lemmas per
service, that `Services` starts it (`...Starts`) and that a step of `Services`
is one of its steps or leaves it alone (`...Goes`); what remains is an invariant
of the service alone:

- *settings* (`SettingsInv`): the numbers of the versions are `1..n` without a
  gap and a request about to insert has a number at most one above them, so that
  an insertion that succeeds is at the end.  Every step is a step of `VersionLog`
  or a stutter.
- *deploys* (`DeploysInv`): each of windows, policy, signals and ids of
  configurations, once read, still has its part of every reason in `lasting` (a
  reason that is not in force any more has left that set).  The reasons are
  independent of the order of the reads, and each rests on one configuration at
  most (`ReasonCases`): a reason about the alerts in general would last while none
  of the configurations counted has any.
- *gate* (`GateInv`): nothing beyond the type, as the property is about the last
  answer; the argument is the arithmetic of remainders for every length of day
  and week.
- *apps* (`AppsInv`): a command that is to be told to the row next is `Clean` (it
  is the only one, and the container is as it says) or leaves the row in doubt
  (`Accounted`); a clone never takes the first app's place (`Apart`).
- *setup* (`SetupInv`): of each thing that is not excused there is at most one
  row, and a request that is about to insert one is the only one and was right to
  find none (`SetupOnce`, `ItemsOnce`).
- *flags* (`FlagsInv`): what is being fetched is what is stored unless a change
  came since (`ReadsTrue`); a browser whose view is not right has something
  under way (`ViewKept`); the bot's copy, once it was told of the last change, is
  the stored rule or nothing (`CopyKept`).
- *lists* (`ListsInv`): every entry a request has read is in what it is about to
  write, but for those it was told to change and other users' themes
  (`KeepsOf`).  `LostOnlyToStaleReads` then follows step by step.
- *secrets* (`SecretsInv`): the history or `lost` knows the value a request is
  about to put in the row (`Noted`), and ids are new (`IdUnseen`).
- *audit* (`AuditInv`): of every row listed an entry tells, or a request is about
  to tell, that it was made and what it holds, and nothing tells of its deletion
  (`RowsTold`); of one that is gone the deletion is told (`GoneTold`); ids are
  those of requests (`RowIds`).
- *incidents* (`DutyInv`): the property itself is inductive with the types; the
  proof is about the timeline, to which a handler adds one event or two.
- *fleet* (`FleetInv`): how a creature may feel given when it was last seen
  running (`Feels`), and what was named or seen is in the file or was lost to a
  failed read.
- *views* (`ViewsInv`): questions are numbered, and none is newer than `asked`
  (`Numbered`), so that what is shown, and what is under way, can be compared with
  the latest; that one holds what the user was told of on a screen that asks after
  every success (`OwnKept`: the write was carried out before the user was told, and
  the question is read after it was asked); on a filtering screen the latest
  question is about the present subject (`SubjectKept`), as nothing but the change
  itself asks about another; the activity feed's stale questions are all cancelled
  (`FeedKept`).  A flag is up from the press until its own request is over
  (`HeldOnce`), which is shown of every screen whose buttons are free or flagged
  (`Guarded`), and fails where an input enables what a request disabled.
- *terminal* (`SharedInv`): what a component will show once it has received all
  that was sent to it ends as the room's lines end (`WillAgree`); a room's
  members are those who are in it (`Members`), and of the sockets of a component
  all but one are gone (`OneLeft`).
- *watch* (`WatchInv`): the guard of the health checks is up exactly while there
  is a lap, and the last alert is the last of those sent.
- *tasks* (`TasksInv`): a reload under way has no jobs and has read every task
  but the missed ones and those whose command will ask again (`ReloadRead`);
  with none under way every task has its job, with the same exceptions.
- *tickets* (`TicketsInv`): a number or channel belongs to one ticket or to the
  one handler that is opening it; who removed a channel is the only one to post
  its transcript (`RemovedOk`).
- *commands* (`CommandsInv`): a handler that runs has answered exactly if it is
  past the step it answers first at.  That such a step exists is shown of each
  table of handlers (`DefersAt`, `RepliesLast`): a handler defers, before which
  nothing is changed, and then only edits; or it replies at its last step, its
  exits before it being replies too; or it does nothing.  A change of a handler
  that breaks this form shows at once in the lemma of its table.

- *advice* (`AdviceInv`): every rule that was followed is at rest (`AtRest`: it is
  satisfied, and of what it objects to the text holds at most what its
  recommendation leaves alone), or was given a new reason since, or is one of
  `Restless`.  What is needed of a rule is `Sound`, proved of each rule of the
  table, group by group: it removes nothing that a rule wants to find (`Wished`), so
  that a satisfied rule stays so; what it adds or brings about is wished for, or is
  a matter of the layout, to which only the wakeable rules object (`Harmless`,
  `Plain`); and its recommendation is what it tests for, up to `LeftAlone`
  (`Heals`).  What following one rule does to another is argued from `Sound` alone,
  for any two of them; hence `AdviceHeededOfAnyRules`, where the run takes one or
  two rules at a time.

`ServicesTypes` takes the types of the services from these invariants, of which
they are a part.  Three services keep theirs apart from what was to be proved:
the deployments (`DeploysTyped`: what is about to be written has the type of the
place it goes to, and a reason names a window or a budget), the flags
(`FlagsTyped`, beside `FlagsInv`) and the advisor, whose types are inductive.

Only model-checked:

- liveness (`RequestsAnswered`, `RequestsEnd`), as ENABLED and fairness are
  beyond the prover.  That nobody waits for ever on others that wait as well is
  the part of it that is an invariant, and proved: `WaitingEnds` for the pool,
  `LockAlwaysMoves` for the lock of the inventory;
- what a recursive definition computes for every input (induction over data needs
  an operator as a parameter); no module here has a RECURSIVE operator.  Where a
  theorem needs such a fact it is argued by a least counterexample instead, as
  for the selections of `SharedLists` (`LeastNumber`, `Selected`).

Assumptions of the proofs: `RbacAssumption`, `DbPoolAssumption`,
`WindowAssumption`, `RateLimiterAssumption`, `VpsManagerAssumption`,
`DiscordVpsAssumption`, `ServicesAssumption`, each with its module and evaluated
by TLC in its runs; and in the theorems themselves `ReuseOrgIds = FALSE`
and `Kind = {"statement"}` as the table says.  `ServicesAssumption` says that the day and
the week have a positive length, that bounds are natural numbers, that containers
include their places `1..n`, that the seeded names, the rotas, and the windows,
policies, signals and rules an admin may send are of the right kind (what
`validateFreezePolicy`, `validateFreezeSignals`, `validateFreezeWindow` and
`validateRule` let through), and that `None` is none of the values it stands apart
from.

## 6. Where the code and its documents disagree

Shown by a run:

1. `rbac_atomic`: a deletion committed by the database answers 500 and stays in
   memory when another request's statement fails meanwhile
   (`OA/webhook_server.py:287`; the comment above it promises atomicity).
2. `rbac_reassign`: re-assigning a role adds to the permissions in memory and
   replaces the row, so that a restart changes what a user may do
   (`OA/rbac/engine.py:222`, `OA/rbac_store.py:5`).
3. `pool_ready`: each probe of `/ready` keeps a connection; after ten the
   service answers no probe and no statement (`OA/webhook_server.py:921`).
4. `vps_restart`: `save_instances` never reaches the table and a start with the
   database up never looks at the file, so instances are gone after a restart
   (`OA/vps_instance_persistence.py:41,60`).
5. `pool_conflict`: no VPS can ever be added to a resource pool; the answer is
   a conflict that did not happen (`DS/modules/resourcePools.js:88`).

Seen while reading, and built into the models rather than checked by a run:
`/health` always reports the database as down; the orchestrator's retention of
backups fails on every call (`cursor(dictionary=True)` is not psycopg2's);
`DockerProvider.create` and `update` use an attribute the VPS manager does not
have, so that each of them ends in an error of the result;
a restore of the orchestrator does
not look at whether the old container stopped; a backup row whose DELETE failed
after its image was removed can never be expired; backups of a VPS named in the
same second share one image (`DS/modules/vpsManager.js:241`), so that a daily and a
weekly backup begun together are two rows of one image, the next daily backup
expires the image of both, and the weekly row stays listed, cannot be restored
and is never expired.  `DiscordVps` lets two backups fall into one second; this
loss is the one exception of `NewestBackupsKept`, `ListedBackupsExist` and
`RetentionApplied`, and without it TLC refutes each of the three.

The orchestrator's smaller services: a creature of the fleet is kept under the
container's id, so that a rebuild or restore gives birth to a new one
(`living_fleet.py` speaks of workloads); a store that cannot be read counts as
empty and the next write drops the rest; `resolved_at` stays when an incident is
opened again; a window with the time 24:00 is ignored, one that starts when it
ends covers the whole week.

The panel's server: a deployment may pass although the panel was frozen at
every instant, when the reason changes between the gate's reads (hence
`lasting` speaks of one reason), and although the user always had an open critical
alert, when it is one of another configuration, made after the ids were read;
the backup jobs of a deleted app vanish without an entry in the audit log
(`ON DELETE CASCADE`, `MP/db/schema.sql:204`); a policy `PUT` or a window `POST` after a failed
read drops what was stored; a snapshot that is `restoring` never becomes `ready`
again; deleting an app leaves its container and what is in memory; `POST
secrets/:key/access` always answers 404, and so does applying a suggestion of
the advisor, whose ids are random per report; what the advisor recommends need not
quiet the rule that recommends it (`Restless`, `LeftAlone`): it goes on about
`-enableassertions`, a health check in a Dockerfile, a Java version there is no
column for, or whatever a comment mentions; an API key's `expires_at` is never
checked; a dropped announcement of a flag is not made good by polling
(`MP/src/lib/feature-flags.ts:59` says that it is).

The user interface: two pages look for the token under another name than the
one it is stored under (`GlobalSearch`, `AuditLog`).  Nine screens have buttons
after which they do not ask again, so that an answer asked for before the write
may hide it from then on (`AIConfigAdvisor`, `AlertHistory`, `AppDetail`,
`BillingDashboard`, `ConfigEditor`, `Customers`, `MetricsConfig`,
`ServerOperationsHub`, `TwoFactorSetup`; `ModpackBrowser` asks a second later).
The handlers of five ask about the subject they were begun with, so that a reload
may bring another one's records (`ChangeApproval`, `ConfigVersionControl`,
`Customers`, `DeployFreeze`, which then shows another environment's state, and
`ModpackBrowser`).  On `DeployFreeze` two requests overlap that the flag `busy` was
to keep apart (`MP/src/pages/DeployFreeze.tsx:258`).  And
`ConfigEditor` may save one file's content under another's name
while that loads; `CollaborativeTerminal` and `AIConfigAdvisor` are not used by
any page.

The Discord service: `index.js:211` uses `vpsManager`, which it does not import,
so that the loops and the task scheduler are never started (they are modelled as
started); `messages.fetch` asks for 1000 messages where Discord gives 100, so
that closing a ticket always fails (modelled as succeeding); `name = $1 OR id =
$1` is refused by PostgreSQL, so that deleting and toggling a task change
nothing; the table `scheduled_tasks` lacks `error_message`, so that a task's
last status stays `running`; a failed alert uses up its cooldown;
`/addstaff` reports success whatever happened.

## 7. What is not modelled

`PROJECT.json` lists every component with what was left out of it.

- *Manifests and compute providers.*  The one registered provider fails every
  creation and update of an instance, and a pass never suspends: what would be
  worth checking (two reconciliations side by side) cannot happen in this code.
- *Decisions about one request*: the orchestrator's authentication, schema
  validation, statistics, the playful endpoints, resource limits, the panel's
  read-only routes.
- *I/O around single calls*: Vault and secret files, probes of one container,
  SSH, the inventory, webhooks, the plugin marketplace.
- *Rows written one at a time* with nothing kept beside them: the panel's
  accounts, templates, maintenance windows, billing and metrics; the bot's roles, credits and messages.
- *Sequential programs without state of their own*: the command line client,
  the backup and update scripts, migrations, the Helm chart and compose file.
- *Code that nothing runs*: the other strategies of the limiter, the engine's
  projects and teams.

In the modelled components, what is left out is said in section 3 and in the
`note` of the component.

## 8. Running it

    tlc -workers 2 -config MCRbac_orgs.cfg MCRbac.tla
    tlapm Rbac_proofs.tla

The longest runs are `rbac_grants` (about three minutes), `services` (two to
four) and `discord_vps` (two); `Panel_proofs`,
`Records_proofs` and `Bot_proofs` take ten to sixteen minutes each,
`DiscordVps_proofs` a few minutes, each other proof module less.
