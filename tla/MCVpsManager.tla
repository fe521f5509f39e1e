---------------------------- MODULE MCVpsManager ----------------------------
(***************************************************************************)
(* A small instance of VpsManager for TLC.                                 *)
(***************************************************************************)
EXTENDS VpsManager
=============================================================================
