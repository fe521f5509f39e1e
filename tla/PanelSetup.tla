----------------------------- MODULE PanelSetup -----------------------------
(***************************************************************************)
(* The first setup of the management panel (server/index.ts), and what it  *)
(* seeds: setup_config, the first admin, demo customers and demo apps.     *)
(* Each is looked for and then inserted, in two statements, and no unique  *)
(* key backs that up.                                                      *)
(*                                                                         *)
(* Supabase's single() answers an error unless there is exactly one row,   *)
(* and a handler that asks "is there one?" takes every error for a no.     *)
(***************************************************************************)
EXTENDS Naturals, Sequences, FiniteSets, SequencesExt

CONSTANTS
    Customers, Apps,    \* what is seeded: names of customers and of apps
    Slot,           \* requests that may be handled together: 1..n
    MaxRequests,    \* bound: requests begun
    MaxFailures     \* bound: statements that fail

VARIABLES
    accounts,       \* auth.users that a setup has made
    admins,         \* user_profiles, all with the role admin
    setups,         \* setup_config
    rows,           \* how many customers and apps of each name a user has
    req,            \* the requests being handled
    excused,        \* history: what was looked for while another was about to
                    \* insert it, could not be looked for, or was named by hand
    requests, failures

vars == <<accounts, admins, setups, rows, req, excused, requests, failures>>

Mode == {"personal", "business"}
Item == Customers \cup Apps
Setup == "setup"

Idle == [at |-> "idle"]
Request ==
    [at : {"signUp", "profile", "cleanup", "setup"}, mode : Mode, user : Nat]
    \cup [at : {"exists", "insert"}, seeds : Seq(Item), demo : BOOLEAN]

\* The slots are names: the first that is free is taken.
Begin(r) ==
    /\ req[r] = Idle /\ \A other \in Slot : other < r => req[other] # Idle
    /\ requests < MaxRequests /\ requests' = requests + 1
Goto(r, next) == req' = [req EXCEPT ![r] = next]

Ok == UNCHANGED failures
Error == failures < MaxFailures /\ failures' = failures + 1

\* single(): there is one row, and the statement is answered.
Single(n) == n = 1

\* A look for something that is about to be inserted, or that fails.
About(q) == IF q.at = "insert" THEN Head(q.seeds)
            ELSE IF q.at \in {"signUp", "profile", "setup"} THEN Setup ELSE "nothing"
Excuse(r, what, failed) ==
    excused' = excused \cup
        (IF failed \/ \E other \in Slot \ {r} : About(req[other]) = what THEN {what} ELSE {})

-----------------------------------------------------------------------------
\* POST /api/setup/init: 409 when a setup is found.
init(r, mode) ==
    /\ Begin(r)
    /\ \E failed \in BOOLEAN :
         /\ IF failed THEN Error ELSE Ok
         /\ Goto(r, IF ~failed /\ Single(Cardinality(setups)) THEN Idle
                    ELSE [at |-> "signUp", mode |-> mode, user |-> requests + 1])
         /\ Excuse(r, Setup, failed)
    /\ UNCHANGED <<accounts, admins, setups, rows>>

signUp(r) ==
    /\ req[r].at = "signUp"
    /\ \/ /\ accounts' = accounts \cup {req[r].user} /\ Ok
          /\ req' = [req EXCEPT ![r].at = "profile"]
       \/ UNCHANGED accounts /\ Error /\ Goto(r, Idle)
    /\ UNCHANGED <<admins, setups, rows, excused, requests>>

insertProfile(r) ==
    /\ req[r].at = "profile"
    /\ \/ admins' = admins \cup {req[r].user} /\ Ok /\ req' = [req EXCEPT ![r].at = "setup"]
       \/ UNCHANGED admins /\ Error /\ req' = [req EXCEPT ![r].at = "cleanup"]
    /\ UNCHANGED <<accounts, setups, rows, excused, requests>>

\* Whether the account can be deleted is not looked at.
deleteUser(r) ==
    /\ req[r].at = "cleanup"
    /\ \/ accounts' = accounts \ {req[r].user} /\ Ok
       \/ UNCHANGED accounts /\ Error
    /\ Goto(r, Idle)
    /\ UNCHANGED <<admins, setups, rows, excused, requests>>

\* The admin stays when this fails.
insertSetup(r) ==
    /\ req[r].at = "setup"
    /\ \/ setups' = setups \cup {[admin |-> req[r].user, mode |-> req[r].mode]} /\ Ok
       \/ UNCHANGED setups /\ Error
    /\ Goto(r, Idle)
    /\ UNCHANGED <<accounts, admins, rows, excused, requests>>

-----------------------------------------------------------------------------
\* The mode the customers' routes go by: personal unless one setup is found.
Business(failed) == ~failed /\ Single(Cardinality(setups)) /\ \A s \in setups : s.mode = "business"

Seed(r, seeds, demo) ==
    Goto(r, IF seeds = <<>> THEN Idle ELSE [at |-> "exists", seeds |-> seeds, demo |-> demo])

\* POST /api/seed-demo: 403 in personal mode.
seedDemo(r) ==
    /\ Begin(r)
    /\ \E failed \in BOOLEAN :
         /\ IF failed THEN Error ELSE Ok
         /\ IF Business(failed) THEN Seed(r, SetToSeq(Customers) \o SetToSeq(Apps), TRUE)
            ELSE UNCHANGED req
    /\ UNCHANGED <<accounts, admins, setups, rows, excused>>

\* GET /api/customers seeds when the user has no customers.
getCustomers(r) ==
    /\ Begin(r)
    /\ \E failed \in BOOLEAN :
         /\ IF failed THEN Error ELSE Ok
         /\ IF Business(FALSE) /\ (failed \/ \A c \in Customers : rows[c] = 0)
            THEN Seed(r, SetToSeq(Customers), FALSE)
            ELSE UNCHANGED req
    /\ UNCHANGED <<accounts, admins, setups, rows, excused>>

\* The demo asks for a single row, the seeding of GET for any.
FoundOffByOne(demo, n) == IF demo THEN Single(n) ELSE n > 1
Found(demo, n) == IF demo THEN Single(n) ELSE n > 0

seedExists(r) ==
    /\ req[r].at = "exists"
    /\ LET item == Head(req[r].seeds) IN
           \E failed \in BOOLEAN :
             /\ IF failed THEN Error ELSE Ok
             /\ IF Found(req[r].demo, rows[item]) /\ ~failed THEN Seed(r, Tail(req[r].seeds), req[r].demo)
                ELSE req' = [req EXCEPT ![r].at = "insert"]
             /\ Excuse(r, item, failed)
    /\ UNCHANGED <<accounts, admins, setups, rows, requests>>

seedInsert(r) ==
    /\ req[r].at = "insert"
    /\ \/ rows' = [rows EXCEPT ![Head(req[r].seeds)] = @ + 1] /\ Ok
       \/ UNCHANGED rows /\ Error
    /\ Seed(r, Tail(req[r].seeds), req[r].demo)
    /\ UNCHANGED <<accounts, admins, setups, excused, requests>>

\* POST, PATCH and DELETE of customers; PATCH and DELETE in any mode.
Changed(from, to) ==
    [i \in Item |-> IF i = to /\ i # from THEN rows[i] + 1
                    ELSE IF i = from /\ i # to THEN rows[i] - 1 ELSE rows[i]]

changeCustomer(r, from, to) ==
    /\ Begin(r)
    /\ from = "nothing" => Business(FALSE)
    /\ from # "nothing" => rows[from] > 0
    /\ \/ rows' = Changed(from, to) /\ Ok
       \/ UNCHANGED rows /\ Error
    /\ excused' = excused \cup ({to} \ {"nothing"})
    /\ UNCHANGED <<accounts, admins, setups, req>>

-----------------------------------------------------------------------------
Init ==
    /\ accounts = {} /\ admins = {} /\ setups = {}
    /\ rows = [i \in Item |-> 0]
    /\ req = [r \in Slot |-> Idle]
    /\ excused = {}
    /\ requests = 0 /\ failures = 0

Next == \E r \in Slot :
    \/ \E mode \in Mode : init(r, mode)
    \/ signUp(r) \/ insertProfile(r) \/ deleteUser(r) \/ insertSetup(r)
    \/ seedDemo(r) \/ getCustomers(r) \/ seedExists(r) \/ seedInsert(r)
    \/ \E from, to \in Customers \cup {"nothing"} : changeCustomer(r, from, to)

Spec == Init /\ [][Next]_vars

-----------------------------------------------------------------------------
\* The tables, the requests and the history have their types.
TypeOK ==
    /\ accounts \subseteq Nat /\ admins \subseteq Nat
    /\ setups \subseteq [admin : Nat, mode : Mode]
    /\ rows \in [Item -> Nat]
    /\ req \in [Slot -> {Idle} \cup Request]
    /\ excused \subseteq Item \cup {Setup}

\* A second setup, customer or app of a name comes about only after something
\* went wrong with the look for it: another request was just about to insert
\* it, the look failed, or somebody named a customer so (setup/init,
\* seed-demo, GET /api/customers).  After that, a single() that finds two
\* keeps letting in more.
MadeOnce ==
    /\ Cardinality(setups) > 1 => Setup \in excused
    /\ \A i \in Item : rows[i] > 1 => i \in excused

=============================================================================
