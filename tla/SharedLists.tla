---------------------------- MODULE SharedLists -----------------------------
(***************************************************************************)
(* The lists the management panel (server/index.ts) keeps as one JSON      *)
(* value each: scheduled tasks, databases, modpack installations, themes   *)
(* and translations as rows of shared_config, dashboards as a file, the    *)
(* tags of a server as a column of its row in the inventory.  Every change *)
(* reads the whole list, edits it in memory and writes it back, and        *)
(* nothing keeps another request from doing the same in between.  The list *)
(* in question is chosen initially; no request touches two.                *)
(*                                                                         *)
(* Supabase answers a failed statement with an error that none of these    *)
(* handlers looks at: a failed read is an empty list, and a failed write   *)
(* is answered as a success (of tags, as a failure).                       *)
(***************************************************************************)
EXTENDS Naturals, SequencesExt

CONSTANTS
    User, Nobody,
    Kind,           \* the lists: tasks, databases, modpacks, themes, dashboards, translations, tags
    Slot,           \* requests that may be handled together
    MaxRequests,    \* bound: requests begun
    MaxFailures,    \* bound: reads and writes that fail
    MaxRestarts     \* bound: restarts of the server

VARIABLES
    kind,           \* the list in question
    list,           \* its stored value
    file,           \* whether the text of the dashboards' file is whole
    req,            \* the requests being handled
    hooks,          \* installations that go on after their request
    requests, failures, restarts

vars == <<kind, list, file, req, hooks, requests, failures, restarts>>

\* on: a task's enabled, a theme's published, what a PATCH or PUT sets.
Entry ==
    [id : Nat, user : User \cup {Nobody}, on : BOOLEAN,
     status : {"none", "pending", "downloading", "completed", "failed"}]

Idle == [at |-> "idle"]
Request ==
    [at : {"write", "fill"}, user : User, read : Seq(Entry), edited : Seq(Entry),
     changes : SUBSET Nat]
Hook == [at : {"fetch", "timer"}, id : Nat, captured : Seq(Entry)]

\* A new id is one that no request has had.
NewId == requests + 1
New(user, status) == [id |-> NewId, user |-> user, on |-> FALSE, status |-> status]

Ok == UNCHANGED failures
Error == failures < MaxFailures /\ failures' = failures + 1

-----------------------------------------------------------------------------
\* Every handler begins by reading the list, and answers 404 when the entry
\* it is about is not in it (when Edit gives no list).  changes is what it
\* means to change or remove.
Stored == IF file = "whole" THEN list ELSE <<>>

Handle(r, k, user, changes, Edit(_)) ==
    /\ kind = k
    /\ req[r] = Idle
    /\ requests < MaxRequests /\ requests' = requests + 1
    /\ \E read \in {Stored, <<>>} :
         /\ IF read = Stored THEN Ok ELSE Error
         /\ \/ Edit(read) = {} /\ UNCHANGED req
            \/ \E edited \in Edit(read) :
                 req' = [req EXCEPT ![r] = [at |-> "write", user |-> user, read |-> read,
                                            edited |-> edited, changes |-> changes]]
    /\ UNCHANGED <<kind, list, file, hooks, restarts>>

\* findIndex: the first entry with the id, of the user where there is one.
At(read, id, user) == {i \in DOMAIN read : read[i].id = id /\ read[i].user = user}

Found(read, id, user) == {Min(i) : i \in {At(read, id, user)} \ {{}}}

\* Without the test for -1 a splice takes the last entry.
WithoutUnchecked(read, id, user) ==
    IF Found(read, id, user) = {} /\ read # <<>> THEN {Front(read)}
    ELSE {RemoveAt(read, i) : i \in Found(read, id, user)}
Without(read, id, user) == {RemoveAt(read, i) : i \in Found(read, id, user)}

Switched(read, id, user, on) ==
    {ReplaceAt(read, i, [read[i] EXCEPT !.on = on]) : i \in Found(read, id, user)}

Toggled(read, id, user) ==
    {ReplaceAt(read, i, [read[i] EXCEPT !.on = ~@]) : i \in Found(read, id, user)}

-----------------------------------------------------------------------------
\* /api/scheduled-tasks
createTask(r, u) ==
    Handle(r, "tasks", u, {}, LAMBDA read : {Append(read, [New(u, "none") EXCEPT !.on = TRUE])})

patchTask(r, u, id, on) ==
    Handle(r, "tasks", u, {id}, LAMBDA read : Switched(read, id, u, on))

deleteTask(r, u, id) ==
    Handle(r, "tasks", u, {id}, LAMBDA read : Without(read, id, u))

toggleTask(r, u, id) ==
    Handle(r, "tasks", u, {id}, LAMBDA read : Toggled(read, id, u))

\* /api/databases
createDatabase(r, u) ==
    Handle(r, "databases", u, {}, LAMBDA read : {Append(read, New(u, "none"))})

deleteDatabase(r, u, id) ==
    Handle(r, "databases", u, {id}, LAMBDA read : Without(read, id, u))

\* filter: the entries of s that are in S, in their order.
Only(s, S) ==
    LET only[i \in 0..Len(s)] ==
            IF i = 0 THEN <<>>
            ELSE IF s[i] \in S THEN Append(only[i - 1], s[i]) ELSE only[i - 1]
    IN  only[Len(s)]
Except(s, id) == Only(s, {t \in Range(s) : t.id # id})

\* /api/themes: getThemes keeps only the caller's, and setThemes stores that.
Themes(read, u) == Only(read, {t \in Range(read) : t.user = u})

\* A theme of the same name is replaced, its id too.
saveTheme(r, u, replaced) ==
    Handle(r, "themes", u, {replaced},
           LAMBDA read : LET mine == Themes(read, u) IN
               IF Found(mine, replaced, u) = {} THEN {Append(mine, New(u, "none"))}
               ELSE {ReplaceAt(mine, i, New(u, "none")) : i \in Found(mine, replaced, u)})

deleteTheme(r, u, id) ==
    Handle(r, "themes", u, {id},
           LAMBDA read : {Except(Themes(read, u), id)})

publishTheme(r, u, id) ==
    Handle(r, "themes", u, {id}, LAMBDA read : Toggled(Themes(read, u), id, u))

\* /api/dashboards belong to nobody, and a client may bring the id along.
createDashboard(r, u, id) ==
    Handle(r, "dashboards", u, {},
           LAMBDA read : {Append(read, [New(Nobody, "none") EXCEPT !.id = id])})

putDashboard(r, u, id, on) ==
    Handle(r, "dashboards", u, {id}, LAMBDA read : Switched(read, id, Nobody, on))

deleteDashboard(r, u, id) ==
    Handle(r, "dashboards", u, {id}, LAMBDA read : Without(read, id, Nobody))

\* /api/i18n/translations: an entry for each locale and key.
submitTranslation(r, u, id, value) ==
    Handle(r, "translations", u, {id},
           LAMBDA read : IF Found(read, id, Nobody) # {} THEN Switched(read, id, Nobody, value)
                         ELSE {Append(read, [New(Nobody, "none") EXCEPT !.id = id, !.on = value])})

\* /api/inventory/:serverId/tags, of a server whose owner asks.
addTag(r, u, id) ==
    Handle(r, "tags", u, {},
           LAMBDA read : IF Found(read, id, Nobody) # {} THEN {read}
                         ELSE {Append(read, [New(Nobody, "none") EXCEPT !.id = id])})

removeTag(r, u, id) ==
    Handle(r, "tags", u, {id}, LAMBDA read : {Except(read, id)})

\* POST /api/apps/:appId/modpacks/install, of an app that has a container.
installModpack(r, u) ==
    Handle(r, "modpacks", u, {}, LAMBDA read : {Append(read, New(Nobody, "pending"))})

-----------------------------------------------------------------------------
\* The upsert of the row, with which the request ends.  An installation goes on.
Write(r) ==
    /\ req[r].at = "write" /\ kind # "dashboards"
    /\ \/ list' = req[r].edited /\ Ok
       \/ UNCHANGED list /\ Error
    /\ req' = [req EXCEPT ![r] = Idle]
    /\ hooks' = IF kind # "modpacks" THEN hooks
                ELSE hooks \cup {[at |-> "fetch", id |-> Last(req[r].edited).id,
                                  captured |-> req[r].edited]}
    /\ UNCHANGED <<kind, file, requests, restarts>>

\* fs.writeFile empties the file and then fills it.
Empty(r) ==
    /\ req[r].at = "write" /\ kind = "dashboards"
    /\ \/ file' = "empty" /\ Ok /\ req' = [req EXCEPT ![r].at = "fill"]
       \/ UNCHANGED file /\ Error /\ req' = [req EXCEPT ![r] = Idle]
    /\ UNCHANGED <<kind, list, hooks, requests, restarts>>

\* A text that is shorter than one filled in since leaves the end of that.
Fill(r) ==
    /\ req[r].at = "fill"
    /\ \/ /\ list' = req[r].edited /\ Ok
          /\ file' \in IF file = "empty" THEN {"whole"} ELSE {"whole", "mixed"}
       \/ UNCHANGED <<list, file>> /\ Error
    /\ req' = [req EXCEPT ![r] = Idle]
    /\ UNCHANGED <<kind, hooks, requests, restarts>>

-----------------------------------------------------------------------------
\* What follows an installation's answer sets the status in the array its
\* request had read, and stores that array again.
Marked(h, status) ==
    [i \in DOMAIN h.captured |->
        IF h.captured[i].id = h.id THEN [h.captured[i] EXCEPT !.status = status]
        ELSE h.captured[i]]

Store(h, status, next) ==
    /\ \/ list' = Marked(h, status) /\ Ok
       \/ UNCHANGED list /\ Error
    /\ hooks' = (hooks \ {h}) \cup next
    /\ UNCHANGED <<kind, file, req, requests, restarts>>

\* The integration service knows the modpack, or not, or does not answer.
Fetched(h) ==
    /\ h.at = "fetch"
    /\ \/ Store(h, "failed", {})
       \/ Store(h, "downloading",
                {[h EXCEPT !.at = "timer", !.captured = Marked(h, "downloading")]})

\* Five seconds later.
Completed(h) == h.at = "timer" /\ Store(h, "completed", {})

\* Requests and installations end with the process; a file it had emptied
\* stays empty.
Restart ==
    /\ restarts < MaxRestarts /\ restarts' = restarts + 1
    /\ req' = [r \in Slot |-> Idle]
    /\ hooks' = {}
    /\ UNCHANGED <<kind, list, file, requests, failures>>

-----------------------------------------------------------------------------
Init ==
    /\ kind \in Kind
    /\ list = <<>> /\ file = "whole"
    /\ req = [r \in Slot |-> Idle]
    /\ hooks = {}
    /\ requests = 0 /\ failures = 0 /\ restarts = 0

Ids == 1..requests

Next ==
    \/ \E r \in Slot, u \in User :
        \/ createTask(r, u) \/ createDatabase(r, u) \/ installModpack(r, u)
        \/ \E id \in Ids :
            \/ deleteTask(r, u, id) \/ toggleTask(r, u, id)
            \/ deleteDatabase(r, u, id) \/ deleteDashboard(r, u, id)
            \/ deleteTheme(r, u, id) \/ publishTheme(r, u, id)
        \/ \E id \in Ids \cup {NewId} :
            \/ saveTheme(r, u, id)
            \/ createDashboard(r, u, id)
        \/ \E id \in Ids, on \in BOOLEAN : patchTask(r, u, id, on) \/ putDashboard(r, u, id, on)
        \/ \E id \in {1, 2} :
            \/ \E value \in BOOLEAN : submitTranslation(r, u, id, value)
            \/ addTag(r, u, id) \/ removeTag(r, u, id)
    \/ \E r \in Slot : Write(r) \/ Empty(r) \/ Fill(r)
    \/ \E h \in hooks : Fetched(h) \/ Completed(h)
    \/ Restart

Spec == Init /\ [][Next]_vars

-----------------------------------------------------------------------------
\* The list, the requests and the installations under way have their types.
TypeOK ==
    /\ kind \in Kind
    /\ list \in Seq(Entry)
    /\ file \in {"whole", "empty", "mixed"}
    /\ req \in [Slot -> {Idle} \cup Request]
    /\ hooks \subseteq Hook

\* What the request or installation that writes in this step had read, and
\* what it was to change.
WrittenBy(r) == req[r] # Idle /\ req'[r] = Idle
MayReplace(r, e) ==
    \/ e.id \in req[r].changes
    \/ e \notin Range(req[r].read)
    \/ kind = "themes" /\ e.user # req[r].user

\* What a step of the handlers may drop from the list.
DropsOnlyStale ==
    \A e \in Range(list) \ Range(list') :
        \/ \E r \in Slot : WrittenBy(r) /\ MayReplace(r, e)
        \/ \E h \in hooks \ hooks' : e.id = h.id \/ e \notin Range(h.captured)

\* An entry goes away or changes only by the write of a request told to do
\* that to it, or of one that read the list before the entry was as it is, or
\* could not read it: no handler loses what it has read (all the handlers of
\* the JSON lists).  Themes are the exception: there a request also drops every
\* theme of the other users.
LostOnlyToStaleReads == [][DropsOnlyStale]_vars

=============================================================================
