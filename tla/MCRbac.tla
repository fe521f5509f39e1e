------------------------------- MODULE MCRbac -------------------------------
(***************************************************************************)
(* Small instances of Rbac for TLC.                                        *)
(***************************************************************************)
EXTENDS Rbac, TLC


OneRolePerms == {{"org:manage"}}

Symmetry == Permutations(Slot) \cup Permutations(User)
=============================================================================
