---------------------------- MODULE MCServerNAT ----------------------------
(***************************************************************************)
(* Instances of ServerNAT for TLC.  A quintuple is only compared with      *)
(* others, so quintuples of one protocol may be permuted.                  *)
(***************************************************************************)
EXTENDS ServerNAT, TLC

CONSTANTS a1, a2, a3, c1, c2, c3

\* Three UDP quintuples, one per client, compete for two ports.
UDPProtocol == {"UDP"}

UDPFlow == [src : {a1}, dst : {c1, c2, c3}, protocol : {"UDP"}]

UDPPool == [p \in {"UDP"} |-> 2]

UDPSymmetry == Permutations({c1, c2, c3})

\* Two sources share one TCP port, a third uses ICMPv4; errors about packets
\* of both protocols occur.
MixedProtocol == {"TCP", "ICMPv4"}

MixedFlow == [src : {a1, a2}, dst : {c1}, protocol : {"TCP"}]
               \cup [src : {a3}, dst : {c1}, protocol : {"ICMPv4"}]

MixedPool == [p \in {"TCP", "ICMPv4"} |-> IF p = "TCP" THEN 1 ELSE 2]

MixedSymmetry == Permutations({a1, a2})

=============================================================================
