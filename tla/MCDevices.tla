----------------------------- MODULE MCDevices -----------------------------
(***************************************************************************)
(* Instances of Devices for TLC.                                           *)
(***************************************************************************)
EXTENDS Devices

CONSTANTS a, b

\* Lists of two interfaces, with any addresses, loopback or not, and one that
\* is down.
MCInterfaces ==
  LET Inter == [addrs : SUBSET Address, loop : BOOLEAN, up : {TRUE}]
                 \cup {[addrs |-> {a}, loop |-> FALSE, up |-> FALSE]}
  IN {<<i, j>> : i, j \in Inter}

\* Lists of up to three devices, with up to two addresses each.
MCPcapDevs ==
  LET Dev == {[addrs |-> s, loop |-> FALSE] : s \in {<<>>, <<a>>, <<b>>, <<a, b>>, <<b, a>>}}
               \cup {[addrs |-> <<a>>, loop |-> TRUE]}
  IN {<<p, q, r>> : p, q, r \in Dev}

=============================================================================
