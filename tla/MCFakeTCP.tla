----------------------------- MODULE MCFakeTCP -----------------------------
(***************************************************************************)
(* Instances of FakeTCP for TLC.                                           *)
(***************************************************************************)
EXTENDS FakeTCP

=============================================================================
