----------------------------- MODULE MCFragment -----------------------------
(***************************************************************************)
(* Instances of Fragment for TLC.                                          *)
(***************************************************************************)
EXTENDS Fragment

\* Payloads that need no, one and several fragments.
SmallPayloads == 0 .. 90

\* From the smallest room for a fragment on, through every alignment.
SmallSizes == 56 .. 76

=============================================================================
