------------------------------ MODULE MCStatus ------------------------------
(***************************************************************************)
(* Instances of Status for TLC.                                            *)
(***************************************************************************)
EXTENDS Status

CONSTANTS a1, a2, n1, n2

\* Two names for one address, one of them for two.
MCAnswers == {[name |-> n1, ips |-> {a1, a2}], [name |-> n2, ips |-> {a2}],
              [name |-> n2, ips |-> {}]}

=============================================================================
