---------------------------- MODULE MCDesticker ----------------------------
(***************************************************************************)
(* Instances of Desticker for TLC.                                         *)
(***************************************************************************)
EXTENDS Desticker

=============================================================================
