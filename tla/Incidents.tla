----------------------------- MODULE Incidents ------------------------------
(***************************************************************************)
(* The incidents of the orchestrator (incidents.py).  They are one JSON    *)
(* file, which every handler reads and writes whole; the handlers await    *)
(* nothing once they have the body, so that each is one step.  A handler   *)
(* of one incident reads the file twice: for the incident, and for the     *)
(* rest that it writes back.                                               *)
(***************************************************************************)
EXTENDS Naturals, SequencesExt

CONSTANTS
    None,           \* nobody
    Rotas,          \* the rotas a start may configure, each the owners of its levels
    Person,         \* whom an incident may be assigned to
    MaxIncidents,   \* bound: incidents created
    MaxEvents,      \* bound: handlers that change something
    MaxFailures     \* bound: reads and writes that fail

VARIABLES
    rota,           \* INCIDENTS_ESCALATION: the first of each level
    store,          \* the file: the incidents by their number
    created,        \* history: the incidents written when they were created
    unread,         \* history: those in the file when a handler read it in vain
    events, failures

vars == <<rota, store, created, unread, events, failures>>

STATUSES == {"open", "acknowledged", "resolved"}
Owner == Person \cup UNION {Range(r) : r \in Rotas}
Event ==
    [kind : {"created", "note", "highest", "deferred"}]
    \cup [kind : {"assigned", "escalated"}, owner : Owner]
    \cup [kind : {"status"}, status : STATUSES]
Incident ==
    [status : STATUSES, owner : Owner \cup {None}, escalation_level : Nat,
     acknowledged_at : BOOLEAN, resolved_at : BOOLEAN, timeline : Seq(Event)]

-----------------------------------------------------------------------------
\* _load_all and _save_all at the end of every handler.  A file that cannot be
\* read counts as empty.  The new file is written beside the old one and then
\* takes its place: when that fails, or the process ends before, the old one
\* is whole.
Put(data, id, incident) ==
    [i \in DOMAIN data \cup {id} |-> IF i = id THEN incident ELSE data[i]]

Fails == failures < MaxFailures /\ failures' = failures + 1
\* Unsaved, were the file written in place.
UnsavedInPlace == store' = <<>> /\ UNCHANGED <<created, unread>>
Unsaved == UNCHANGED <<store, created, unread>>

_store(id, incident) ==
    /\ events < MaxEvents /\ events' = events + 1
    /\ \/ /\ store' = Put(store, id, incident)
          /\ UNCHANGED <<unread, failures>>
          /\ created' = created \cup {id}
       \/ /\ store' = Put(<<>>, id, incident) /\ Fails
          /\ unread' = unread \cup DOMAIN store
          /\ created' = created \cup {id}
       \/ Unsaved /\ Fails
    /\ UNCHANGED rota

\* _event.
Noted(incident, happened) == [incident EXCEPT !.timeline = @ \o happened]
Plain(kind) == [kind |-> kind]
Owned(kind, owner) == [kind |-> kind, owner |-> owner]

-----------------------------------------------------------------------------
_duty_owner == IF rota = <<>> THEN None ELSE Head(rota)

create_incident ==
    /\ \E id \in 1..MaxIncidents :
        /\ id \notin created /\ \A other \in 1..(id - 1) : other \in created
        /\ _store(id,
               [status |-> "open", owner |-> _duty_owner, escalation_level |-> 0,
                acknowledged_at |-> FALSE, resolved_at |-> FALSE,
                timeline |->
                    <<Plain("created")>>
                    \o IF rota = <<>> THEN <<>> ELSE <<Owned("assigned", _duty_owner)>>])

\* A resolution needs a note, which is part of its event; another status may
\* come with one.
set_status(id, status, note) ==
    LET incident == store[id] IN
    /\ status = "resolved" => note
    /\ _store(id,
           [Noted(incident,
                  <<[kind |-> "status", status |-> status]>>
                  \o IF note /\ status # "resolved" THEN <<Plain("note")>> ELSE <<>>)
            EXCEPT !.status = status,
                   !.acknowledged_at = @ \/ status = "acknowledged",
                   !.resolved_at = @ \/ status = "resolved"])

\* What a resolved incident refuses.
Ongoing(incident) == incident.status # "resolved"

add_note(id) ==
    /\ Ongoing(store[id])
    /\ _store(id, Noted(store[id], <<Plain("note")>>))

assign(id, person) ==
    _store(id, [Noted(store[id], <<Owned("assigned", person)>>) EXCEPT !.owner = person])

\* _in_quiet_hours is the clock's to say.
escalate(id, quiet, force) ==
    LET incident == store[id]
        next == incident.escalation_level + 1
    IN /\ Ongoing(incident)
       /\ \/ /\ next >= Len(rota)
             /\ _store(id, Noted(incident, <<Plain("highest")>>))
          \/ /\ next < Len(rota) /\ quiet /\ ~force
             /\ _store(id, Noted(incident, <<Plain("deferred")>>))
          \/ /\ next < Len(rota) /\ (quiet => force)
             /\ _store(id,
                    [Noted(incident, <<Owned("escalated", rota[next + 1])>>)
                     EXCEPT !.escalation_level = next, !.owner = rota[next + 1]])

\* The process starts again, perhaps with another rota.
Restart ==
    /\ rota' \in Rotas \ {rota}
    /\ UNCHANGED <<store, created, unread, events, failures>>

-----------------------------------------------------------------------------
Init ==
    /\ rota \in Rotas
    /\ store = <<>>
    /\ created = {} /\ unread = {}
    /\ events = 0 /\ failures = 0

Next ==
    \/ create_incident
    \/ \E id \in DOMAIN store :
        \/ \E status \in STATUSES, note \in BOOLEAN : set_status(id, status, note)
        \/ add_note(id)
        \/ \E person \in Person : assign(id, person)
        \/ \E quiet, force \in BOOLEAN : escalate(id, quiet, force)
    \/ Restart

Spec == Init /\ [][Next]_vars

-----------------------------------------------------------------------------
\* The file holds incidents, and the rota is a configured one.
TypeOK ==
    /\ rota \in Rotas
    /\ DOMAIN store \subseteq 1..MaxIncidents
    /\ \A id \in DOMAIN store : store[id] \in Incident

\* Where a timeline tells of events of these kinds before the n-th, and the
\* latest of them.
Before(incident, kinds, n) ==
    {k \in 1..(n - 1) : incident.timeline[k].kind \in kinds}
Latest(incident, kinds, n) ==
    {k \in Before(incident, kinds, n) : \A j \in Before(incident, kinds, n) : j <= k}

\* An incident is what its timeline tells, whatever rota was configured in the
\* meantime: its status and its owner are the last ones told, its level counts
\* the escalations, and nothing was noted or escalated while it was resolved.
Told(incident) ==
    LET end == Len(incident.timeline) + 1
        owning == {"assigned", "escalated"} IN
    /\ Before(incident, {"status"}, end) = {} => incident.status = "open"
    /\ \A k \in Latest(incident, {"status"}, end) :
         incident.status = incident.timeline[k].status
    /\ Before(incident, owning, end) = {} => incident.owner = None
    /\ \A k \in Latest(incident, owning, end) :
         incident.owner = incident.timeline[k].owner
    /\ incident.escalation_level = Cardinality(Before(incident, {"escalated"}, end))
    /\ \A n \in DOMAIN incident.timeline :
         (\E k \in Latest(incident, {"status"}, n) :
             incident.timeline[k].status = "resolved") =>
                 incident.timeline[n].kind \in {"status", "assigned"}

\* The timelines tell the truth, and an incident that was once in the file is
\* still there unless a handler could not read it.
TimelinesTell ==
    /\ \A id \in DOMAIN store : Told(store[id])
    /\ created \subseteq DOMAIN store \cup unread

=============================================================================
