------------------------------ MODULE MCClient ------------------------------
(***************************************************************************)
(* Instances of Client for TLC.                                            *)
(***************************************************************************)
EXTENDS Client

CONSTANTS i1, i2, h1, h2, zero, eth0, eth1, lo

\* A source that changes its hardware address and its device, one that may
\* use the same address on another device, a request of ARP, and what cannot
\* be parsed.
MCFrame ==
  {[ip |-> i1, hw |-> h1, conn |-> eth0, kind |-> "ip"],
   [ip |-> i1, hw |-> h2, conn |-> eth0, kind |-> "ip"],
   [ip |-> i1, hw |-> h1, conn |-> eth1, kind |-> "ip"],
   [ip |-> i2, hw |-> zero, conn |-> lo, kind |-> "ip"],
   [ip |-> i2, hw |-> h2, conn |-> eth1, kind |-> "arp"],
   [ip |-> i2, hw |-> h2, conn |-> eth1, kind |-> "bad"]}

=============================================================================
