---------------------------- MODULE PanelSecrets ----------------------------
(***************************************************************************)
(* One secret of a user of the management panel (server/index.ts): its row *)
(* in secrets, which holds the current value, and its history in           *)
(* secret_versions, which has no unique key.  A handler reads the row,     *)
(* adds to the history, and then changes the row; between these, other     *)
(* requests go on.                                                         *)
(***************************************************************************)
EXTENDS Naturals, FiniteSets

CONSTANTS
    None,           \* no row
    Slot,           \* requests that may be handled together: 1..n
    MaxRequests,    \* bound: requests begun
    MaxFailures     \* bound: statements that fail

VARIABLES
    secret,         \* the row in secrets: its id, value and version, and
                    \* whether it is rotated and due
    history,        \* secret_versions: the rows of this secret
    req,            \* the requests being handled
    lost,           \* history: values whose row in secret_versions was not inserted
    requests, failures

vars == <<secret, history, req, lost, requests, failures>>

Row == [id : Nat, value : Nat, version : Nat, rotate : BOOLEAN, due : BOOLEAN]
Version == [value : Nat, version : Nat]

Idle == [at |-> "idle"]
Change ==
    [at : {"record", "update"}, id : Nat, value : Nat, version : Nat,
     rotate : BOOLEAN \cup {None}]
Request == Change \cup [at : {"insert"}, value : Nat, rotate : BOOLEAN]

\* The slots are names: the first that is free is taken.
Begin(r) ==
    /\ req[r] = Idle /\ \A other \in Slot : other < r => req[other] # Idle
    /\ requests < MaxRequests /\ requests' = requests + 1
Goto(r, next) == req' = [req EXCEPT ![r] = next]

Ok == UNCHANGED failures
Error == failures < MaxFailures /\ failures' = failures + 1
Answered(seen) == IF seen THEN Ok ELSE Error

Rows == <<secret, history, lost>>

\* Every value is new: the body's, or random.
NewValue == requests + 1

-----------------------------------------------------------------------------
\* What the three handlers do to a secret they have read; a rotation leaves
\* rotate alone.
ChangeOf(row, rotate) ==
    [at |-> "record", id |-> row.id, value |-> NewValue, version |-> row.version + 1,
     rotate |-> rotate]

\* POST /api/secrets: a secret that is not there, or cannot be read, is new.
postSecret(r, rotate) ==
    /\ Begin(r)
    /\ \E seen \in BOOLEAN :
         /\ Answered(seen)
         /\ Goto(r, IF seen /\ secret # None THEN ChangeOf(secret, rotate)
                    ELSE [at |-> "insert", value |-> NewValue, rotate |-> rotate])
    /\ UNCHANGED Rows

\* UNIQUE(user_id, key).  The first version goes into no history.
insertSecret(r) ==
    /\ req[r].at = "insert"
    /\ \/ /\ secret = None /\ Ok
          /\ secret' = [id |-> req[r].value, value |-> req[r].value, version |-> 1,
                        rotate |-> req[r].rotate, due |-> FALSE]
       \/ secret # None /\ UNCHANGED secret /\ Ok
       \/ UNCHANGED secret /\ Error
    /\ Goto(r, Idle)
    /\ UNCHANGED <<history, lost, requests>>

\* POST /api/secrets/:key/rotate, 404 without a secret; rotate-all takes those
\* that are due.
rotate(r, all) ==
    /\ Begin(r)
    /\ \E seen \in BOOLEAN :
         /\ Answered(seen)
         /\ Goto(r, IF seen /\ secret # None /\ (all => secret.rotate /\ secret.due)
                    THEN ChangeOf(secret, None) ELSE Idle)
    /\ UNCHANGED Rows

\* Whether the history took the row is not looked at.
OldVersion(q) == [value |-> q.value, version |-> q.version - 1]
NewVersion(q) == [value |-> q.value, version |-> q.version]

recordVersion(r) ==
    /\ req[r].at = "record"
    /\ \/ /\ secret # None /\ secret.id = req[r].id /\ Ok
          /\ history' = history \cup {NewVersion(req[r])}
          /\ UNCHANGED lost
       \/ /\ IF secret # None /\ secret.id = req[r].id THEN Error ELSE Ok
          /\ lost' = lost \cup {req[r].value}
          /\ UNCHANGED history
    /\ req' = [req EXCEPT ![r].at = "update"]
    /\ UNCHANGED <<secret, requests>>

\* The row of that id, whatever its version is by now.
updateSecret(r) ==
    /\ req[r].at = "update"
    /\ \/ /\ secret # None /\ secret.id = req[r].id /\ Ok
          /\ secret' = [secret EXCEPT
                 !.value = req[r].value, !.version = req[r].version, !.due = FALSE,
                 !.rotate = IF req[r].rotate = None THEN @ ELSE req[r].rotate]
       \/ UNCHANGED secret /\ (IF secret # None /\ secret.id = req[r].id THEN Error ELSE Ok)
    /\ Goto(r, Idle)
    /\ UNCHANGED <<history, lost, requests>>

\* DELETE /api/secrets/:key; the history goes with the row.
deleteSecret(r) ==
    /\ Begin(r)
    /\ \/ secret' = None /\ history' = {} /\ Ok
       \/ UNCHANGED <<secret, history>> /\ Error
    /\ UNCHANGED <<req, lost>>

\* next_rotation passes.
BecomesDue ==
    /\ secret # None /\ secret.rotate
    /\ secret' = [secret EXCEPT !.due = TRUE]
    /\ UNCHANGED <<history, req, lost, requests, failures>>

-----------------------------------------------------------------------------
Init ==
    /\ secret = None /\ history = {}
    /\ req = [r \in Slot |-> Idle]
    /\ lost = {}
    /\ requests = 0 /\ failures = 0

Next ==
    \/ \E r \in Slot :
        \/ \E on \in BOOLEAN : postSecret(r, on)
        \/ insertSecret(r)
        \/ \E all \in BOOLEAN : rotate(r, all)
        \/ recordVersion(r) \/ updateSecret(r)
        \/ deleteSecret(r)
    \/ BecomesDue

Spec == Init /\ [][Next]_vars

-----------------------------------------------------------------------------
\* The row, the history and the requests have their types.
TypeOK ==
    /\ secret \in {None} \cup Row
    /\ history \subseteq Version
    /\ req \in [Slot -> {Idle} \cup Request]
    /\ lost \subseteq Nat

\* Whichever changes overlap (POST, rotate, rotate-all, delete), the history
\* holds the current value under the current version, once the secret has been
\* changed at all, except when that very row could not be inserted: the value
\* in use is never one the history gives to another version or does not know.
CurrentRecorded ==
    (secret # None /\ secret.version > 1) =>
        \/ [value |-> secret.value, version |-> secret.version] \in history
        \/ secret.value \in lost

=============================================================================
