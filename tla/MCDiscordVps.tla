---------------------------- MODULE MCDiscordVps ----------------------------
(***************************************************************************)
(* A small instance of DiscordVps for TLC: one backup is kept of each of   *)
(* two types.                                                              *)
(***************************************************************************)
EXTENDS DiscordVps, TLC

KeepOne == [t \in Type |-> 1]

\* Nothing tells commands, VPSs or types apart.
Symmetry == Permutations(Slot) \cup Permutations(Container) \cup Permutations(Type)

=============================================================================
