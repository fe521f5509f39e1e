----------------------------- MODULE VersionLog -----------------------------
(***************************************************************************)
(* What the version history of an app promises: a list of snapshots that   *)
(* only grows, one at a time and at its end, until the app is deleted.     *)
(***************************************************************************)
EXTENDS Sequences

CONSTANT Snapshot

VARIABLES log, open

Init == log = <<>> /\ open = TRUE

Record(s) == open /\ log' = Append(log, s) /\ UNCHANGED open

Close == open /\ open' = FALSE /\ log' = <<>>

Next == Close \/ \E s \in Snapshot : Record(s)

Spec == Init /\ [][Next]_<<log, open>>

=============================================================================
