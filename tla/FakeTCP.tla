------------------------------ MODULE FakeTCP ------------------------------
(***************************************************************************)
(* The FakeTCP connection between one client and the server                *)
(* (internal/pcap/faketcpconn.go): the simulated handshake, sequence       *)
(* numbers, acknowledgements and IPv4 Ids of FakeTCPConn, FakeTCPListener, *)
(* and the network, kernels and restarts around them.                      *)
(*                                                                         *)
(* handshakeSYN, handshakeSYNACK, handshakeACK and WriteTo hold c.lock from *)
(* their first to their last access, so each of them is atomic.  ReadFrom  *)
(* has one caller.  What happens on its own accord (writes, reconnects,    *)
(* restarts, losses, duplicates, resets, answers that cannot be written)   *)
(* is counted in "events" up to MaxEvents; a packet that never arrives is  *)
(* lost without being counted.                                             *)
(***************************************************************************)
EXTENDS Integers, Sequences

CONSTANTS
  Length,       \* lengths of the encrypted messages
  Mss,          \* the payload that fits a packet of size mtu
  SeqWrap,      \* values of the uint32 seq and ack
  IdWrap,       \* values of the uint16 id
  Faults,       \* what goes wrong, of FaultKind
  Restartable,  \* the endpoints whose process is restarted
  Multicast,    \* values of "multicast" to check
  MaxEvents,    \* bound on "events"
  NoConn

Endpoint == {"client", "server"}

FaultKind == {"lose", "reorder", "duplicate", "writeError", "reset"}

ASSUME SizeAssumption ==
  /\ Mss \in Nat \ {0} /\ Length \subseteq 1 .. 2 * Mss
  /\ SeqWrap \in Nat \ {0} /\ \A l \in Length : l < SeqWrap
  /\ IdWrap \in Nat \ {0}

ASSUME FaultAssumption ==
  /\ Faults \subseteq FaultKind
  /\ Restartable \subseteq Endpoint
  /\ Multicast \subseteq BOOLEAN
  /\ MaxEvents \in Nat

ASSUME NoConnAssumption ==
  NoConn \notin [seq : Nat, ack : Nat, id : Nat, isConnected : BOOLEAN, isReconnected : BOOLEAN]

VARIABLES
  multicast,\* KCP: one FakeTCPConn serves all clients, without a listener
  process,  \* the server: "running" or "panicked"
  conn,     \* clientIndicator, id and flags of an endpoint's FakeTCPConn
  backlog,  \* SYNs that the listener captured and Accept did not take yet
  net,      \* packets on their way
  events,   \* how much happened
  inc,      \* history: the incarnation of an endpoint's process
  total,    \* history: sequence numbers it used, without wrapping
  count,    \* history: packets it sent in messages that were written
  newest    \* history: the newest sequence number it read, and whose packet
            \* set its ack

vars == <<multicast, process, conn, backlog, net, events, inc, total, count, newest>>

-----------------------------------------------------------------------------

Peer(e) == IF e = "client" THEN "server" ELSE "client"

\* seq, ack and id are the zero values.
Fresh == [seq |-> 0, ack |-> 0, id |-> 0, isConnected |-> FALSE, isReconnected |-> FALSE]

\* A SYN, with or without ACK, takes one sequence number.
Size(kind, len) == IF kind \in {"SYN", "SYN+ACK"} THEN 1 ELSE len

\* Packet k, from 0 on, of a message of endpoint e with the connection state c.
\* The last five fields are history: who sent it, as which packet, up to where,
\* which packet is the first of its message, and how the write of the message
\* ended.
Packet(e, c, kind, k, len) ==
  [to |-> Peer(e), kind |-> kind, seq |-> c.seq, ack |-> c.ack, id |-> (c.id + k) % IdWrap,
   len |-> len,
   inc |-> inc[e], n |-> count[e] + k, end |-> total[e] + Size(kind, len),
   first |-> count[e], write |-> "done"]

\* What a kernel that knows nothing of the connection answers.
Reset(e) ==
  [to |-> e, kind |-> "RST", seq |-> 0, ack |-> 0, id |-> 0, len |-> 0,
   inc |-> 0, n |-> 0, end |-> 0, first |-> 0, write |-> "done"]

NothingRead == [inc |-> 0, end |-> 0, ackOf |-> 0]

\* The history of having read pkt, and of having set ack from it; ackOf is 0
\* when the write of pkt's message failed.
Newest(h, pkt, acked) ==
  [inc   |-> IF pkt.inc > h.inc THEN pkt.inc ELSE h.inc,
   end   |-> IF pkt.inc > h.inc \/ (pkt.inc = h.inc /\ pkt.end > h.end) THEN pkt.end ELSE h.end,
   ackOf |-> IF acked THEN IF pkt.write = "failed" THEN 0 ELSE pkt.inc ELSE h.ackOf]

Init ==
  /\ multicast \in Multicast
  /\ process = "running"
  /\ conn = [e \in Endpoint |-> NoConn]
  /\ backlog = <<>>
  /\ net = {}
  /\ events = 0
  /\ inc = [e \in Endpoint |-> 1]
  /\ total = [e \in Endpoint |-> 0]
  /\ count = [e \in Endpoint |-> 0]
  /\ newest = [e \in Endpoint |-> NothingRead]

Happens(cost) == events + cost <= MaxEvents /\ events' = events + cost

-----------------------------------------------------------------------------
(* The handshakes.  The state c of the connection of e is what the code    *)
(* computes before it writes; "seq" and "id" advance after a write that    *)
(* succeeds.  "rest" is what else is on its way.                           *)

\* Mutant: "c.id++" is forgotten.
WrittenSameId(e, c, kind, rest) ==
  /\ net' = rest \cup {Packet(e, c, kind, 0, 0)}
  /\ conn' = [conn EXCEPT ![e] = [c EXCEPT !.seq = (@ + Size(kind, 0)) % SeqWrap]]
  /\ total' = [total EXCEPT ![e] = @ + Size(kind, 0)]
  /\ count' = [count EXCEPT ![e] = @ + 1]

Written(e, c, kind, rest) ==
  /\ net' = rest \cup {Packet(e, c, kind, 0, 0)}
  /\ conn' = [conn EXCEPT ![e] =
       [c EXCEPT !.seq = (@ + Size(kind, 0)) % SeqWrap, !.id = (@ + 1) % IdWrap]]
  /\ total' = [total EXCEPT ![e] = @ + Size(kind, 0)]
  /\ count' = [count EXCEPT ![e] = @ + 1]

NotWritten(e, c, rest) ==
  /\ "writeError" \in Faults
  /\ net' = rest
  /\ conn' = [conn EXCEPT ![e] = c]
  /\ UNCHANGED <<total, count>>

\* "r" is what else is on its way then, and how much has happened.
Handshake(e, c, kind, r) ==
  \/ Happens(r.cost) /\ Written(e, c, kind, r.net)
  \/ Happens(r.cost + 1) /\ NotWritten(e, c, r.net)

\* The same connection state goes on: a SYN repeats neither seq nor id.
handshakeSYN(e, c, r) == Handshake(e, c, "SYN", r)

\* Mutant: the acknowledgement counts the SYN twice.
SYNReceivedTwice(c, pkt) == [c EXCEPT !.ack = (pkt.seq + 2) % SeqWrap]

\* The state with which a SYN is answered.
SYNReceived(c, pkt) == [c EXCEPT !.ack = (pkt.seq + 1) % SeqWrap]

handshakeSYNACK(e, c, pkt, r) == Handshake(e, SYNReceived(c, pkt), "SYN+ACK", r)

handshakeACK(e, pkt, r) ==
  Handshake(e, [SYNReceived(conn[e], pkt) EXCEPT !.isConnected = TRUE, !.isReconnected = TRUE],
            "ACK", r)

\* Reconnect: on a RST, and when a device joins the client's network.
Reconnect(e, r) == handshakeSYN(e, [conn[e] EXCEPT !.isReconnected = FALSE], r)

\* DialFakeTCP maps a new client indicator; the program ends when the SYN
\* cannot be written.
DialFakeTCP ==
  /\ conn["client"] = NoConn
  /\ Written("client", Fresh, "SYN", net)
  /\ UNCHANGED <<multicast, process, backlog, events, inc, newest>>

\* The last call of publish, which answers an ARP request.
Publish ==
  /\ conn["client"] # NoConn
  /\ Reconnect("client", [net |-> net, cost |-> 1])
  /\ UNCHANGED <<multicast, process, backlog, inc, newest>>

-----------------------------------------------------------------------------
(* WriteTo.                                                                *)

Segments(l) == IF l > Mss THEN 2 ELSE 1

\* CreateFragmentPackets: segments of Mss and the rest, all with the sequence
\* number of the message (see module Fragment).
Fragments(e, l) ==
  {Packet(e, conn[e], "DATA", k,
          IF l <= Mss THEN l ELSE IF k = 0 THEN Mss ELSE l - Mss) :
     k \in 0 .. Segments(l) - 1}

\* seq and id advance when every fragment was written.
WriteTo(e, l) ==
  /\ Happens(1)
  /\ conn[e] # NoConn
  /\ net' = net \cup Fragments(e, l)
  /\ conn' = [conn EXCEPT ![e].seq = (@ + l) % SeqWrap, ![e].id = (@ + Segments(l)) % IdWrap]
  /\ total' = [total EXCEPT ![e] = @ + l]
  /\ count' = [count EXCEPT ![e] = @ + Segments(l)]
  /\ UNCHANGED <<multicast, process, backlog, inc, newest>>

\* The write of fragment k fails; those before it are on their way, and the
\* next message uses their numbers again.
WriteToError(e, l, k) ==
  /\ "writeError" \in Faults
  /\ Happens(1)
  /\ conn[e] # NoConn
  /\ net' = net \cup {[p EXCEPT !.write = "failed"] :
                       p \in {f \in Fragments(e, l) : f.n < count[e] + k}}
  /\ UNCHANGED <<multicast, process, conn, backlog, inc, total, count, newest>>

-----------------------------------------------------------------------------
(* Packets that arrive.                                                    *)

\* An orderly network keeps the order of a sender's packets.
InOrder(pkt) ==
  "reorder" \in Faults \/ \A p \in net : p.to = pkt.to =>
    p.inc > pkt.inc \/ (p.inc = pkt.inc /\ p.n >= pkt.n)

\* What is on its way once pkt has arrived: it may come again, and the kernel,
\* which knows nothing of the connection, may answer it with a RST.
After(pkt) ==
  {[net |-> net \ {pkt}, cost |-> 0]}
    \cup {r \in {[net |-> net, cost |-> 1]} : "duplicate" \in Faults /\ events < MaxEvents}
    \cup {r \in {[net |-> (net \ {pkt}) \cup {Reset(Peer(pkt.to))}, cost |-> 1]} :
            "reset" \in Faults /\ pkt.kind # "RST" /\ events < MaxEvents}

Lose(pkt) ==
  /\ "lose" \in Faults
  /\ Happens(1)
  /\ net' = net \ {pkt}
  /\ UNCHANGED <<multicast, process, conn, backlog, inc, total, count, newest>>

\* "Re-establish connection".
ReadRST(e, pkt, r) ==
  /\ pkt.kind = "RST"
  /\ ~multicast \/ e = "client"
  /\ Reconnect(e, r)
  /\ UNCHANGED <<multicast, process, backlog, inc, newest>>

ReadSYNACK(e, pkt, r) ==
  /\ pkt.kind = "SYN+ACK"
  /\ handshakeACK(e, pkt, r)
  /\ newest' = [newest EXCEPT ![e] = Newest(@, pkt, TRUE)]
  /\ UNCHANGED <<multicast, process, backlog, inc>>

ReadSYN(e, pkt, r) ==
  /\ pkt.kind = "SYN"
  /\ handshakeSYNACK(e, conn[e], pkt, r)
  /\ newest' = [newest EXCEPT ![e] = Newest(@, pkt, TRUE)]
  /\ UNCHANGED <<multicast, process, backlog, inc>>

\* No payload: the third packet of a handshake.
ReadACK(e, pkt, r) ==
  /\ pkt.kind = "ACK"
  /\ Happens(r.cost)
  /\ net' = r.net
  /\ UNCHANGED <<multicast, process, conn, backlog, inc, total, count, newest>>

\* Mutant: the wrap of sequence numbers is forgotten.
AckAdvancesUnwrapped(c, pkt) == (pkt.seq + pkt.len) % SeqWrap > c.ack

\* The test that decides about ack, on uint32.
AckAdvances(c, pkt) ==
  \/ (pkt.seq + pkt.len) % SeqWrap > c.ack
  \/ SeqWrap - 1 - pkt.seq < pkt.len

\* "TCP Ack, always use the expected one".
ReadData(e, pkt, r) ==
  /\ pkt.kind = "DATA"
  /\ Happens(r.cost)
  /\ net' = r.net
  /\ conn' = IF AckAdvances(conn[e], pkt)
             THEN [conn EXCEPT ![e].ack = (pkt.seq + pkt.len) % SeqWrap]
             ELSE conn
  /\ newest' = [newest EXCEPT ![e] = Newest(@, pkt, AckAdvances(conn[e], pkt))]
  /\ UNCHANGED <<multicast, process, backlog, inc, total, count>>

\* ReadFrom of a FakeTCPConn.  The listener sees a SYN, too, and takes it for
\* a duplicate.
ReadFrom(e, pkt) ==
  /\ pkt.to = e
  /\ conn[e] # NoConn
  /\ InOrder(pkt)
  /\ \E r \in After(pkt) :
       \/ ReadRST(e, pkt, r)
       \/ ReadSYNACK(e, pkt, r)
       \/ ReadSYN(e, pkt, r)
       \/ ReadACK(e, pkt, r)
       \/ ReadData(e, pkt, r)

\* The process of e ends: its connection is gone, and what its listener has.
Ends(e, rest) ==
  /\ conn' = [conn EXCEPT ![e] = NoConn]
  /\ backlog' = IF e = "server" THEN <<>> ELSE backlog
  /\ net' = rest
  /\ inc' = [inc EXCEPT ![e] = @ + 1]
  /\ total' = [total EXCEPT ![e] = 0]
  /\ count' = [count EXCEPT ![e] = 0]
  /\ newest' = [newest EXCEPT ![e] = NothingRead]

\* handshakeSYN dereferences dstAddr, which is nil in a FakeTCPConn that
\* serves all clients.
MulticastRST(pkt) ==
  /\ process = "running" /\ multicast
  /\ pkt.to = "server" /\ pkt.kind = "RST"
  /\ Ends("server", net \ {pkt})
  /\ process' = "panicked"
  /\ UNCHANGED <<multicast, events>>

\* The one FakeTCPConn of the server reads the first packet of a client: a
\* SYN maps it, other packets are refused as unauthorized.
MulticastSYN(pkt) ==
  /\ process = "running" /\ multicast /\ conn["server"] = NoConn
  /\ pkt.to = "server" /\ pkt.kind = "SYN"
  /\ InOrder(pkt)
  /\ \E r \in After(pkt) : handshakeSYNACK("server", Fresh, pkt, r)
  /\ newest' = [newest EXCEPT !["server"] = Newest(@, pkt, TRUE)]
  /\ UNCHANGED <<multicast, process, backlog, inc>>

\* Nobody reads the packet, but its kernel may reset the connection.
Ignored(pkt) ==
  /\ conn[pkt.to] = NoConn
  /\ InOrder(pkt)
  /\ \/ pkt.to = "client"
     \/ process # "running"
     \/ multicast /\ pkt.kind \notin {"SYN", "RST"}
     \/ ~multicast /\ pkt.kind \notin {"SYN", "SYN+ACK"}
  /\ \E r \in After(pkt) : Happens(r.cost) /\ net' = r.net
  /\ UNCHANGED <<multicast, process, conn, backlog, inc, total, count, newest>>

-----------------------------------------------------------------------------
(* FakeTCPListener.                                                        *)

\* The listener's handle captures what has the SYN flag.
Capture(pkt) ==
  /\ process = "running" /\ ~multicast /\ conn["server"] = NoConn
  /\ pkt.to = "server" /\ pkt.kind \in {"SYN", "SYN+ACK"}
  /\ InOrder(pkt)
  /\ \E r \in After(pkt) : Happens(r.cost) /\ net' = r.net
  /\ backlog' = Append(backlog, pkt)
  /\ UNCHANGED <<multicast, process, conn, inc, total, count, newest>>

\* Mutant: Accept maps the client and leaves the answer to ReadFrom.
AcceptSilent ==
  /\ backlog # <<>>
  /\ conn["server"] = NoConn
  /\ conn' = [conn EXCEPT !["server"] = SYNReceived(Fresh, Head(backlog))]
  /\ newest' = [newest EXCEPT !["server"] = Newest(@, Head(backlog), TRUE)]
  /\ backlog' = Tail(backlog)
  /\ UNCHANGED <<multicast, process, net, events, inc, total, count>>

\* Accept makes a connection, answers and maps the client.
Accept ==
  /\ backlog # <<>>
  /\ conn["server"] = NoConn
  /\ Written("server", SYNReceived(Fresh, Head(backlog)), "SYN+ACK", net)
  /\ newest' = [newest EXCEPT !["server"] = Newest(@, Head(backlog), TRUE)]
  /\ backlog' = Tail(backlog)
  /\ UNCHANGED <<multicast, process, events, inc>>

\* Accept fails to answer, and forgets the connection.
AcceptError ==
  /\ "writeError" \in Faults
  /\ backlog # <<>>
  /\ conn["server"] = NoConn
  /\ backlog' = Tail(backlog)
  /\ UNCHANGED <<multicast, process, conn, net, events, inc, total, count, newest>>

\* "Duplicate": Accept returns nothing.
AcceptDuplicate ==
  /\ backlog # <<>>
  /\ conn["server"] # NoConn
  /\ backlog' = Tail(backlog)
  /\ UNCHANGED <<multicast, process, conn, net, events, inc, total, count, newest>>

-----------------------------------------------------------------------------

\* closeAll, and the operator starts the program again.
Restart(e) ==
  /\ e \in Restartable
  /\ e = "client" => conn["client"] # NoConn
  /\ Happens(1)
  /\ Ends(e, net)
  /\ process' = IF e = "server" THEN "running" ELSE process
  /\ UNCHANGED multicast

Next ==
  \/ DialFakeTCP
  \/ Publish
  \/ \E e \in Endpoint, l \in Length : WriteTo(e, l)
  \/ \E e \in Endpoint, l \in Length : \E k \in 0 .. Segments(l) - 1 : WriteToError(e, l, k)
  \/ \E pkt \in net : Lose(pkt)
  \/ \E e \in Endpoint, pkt \in net : ReadFrom(e, pkt)
  \/ \E pkt \in net : MulticastRST(pkt)
  \/ \E pkt \in net : MulticastSYN(pkt)
  \/ \E pkt \in net : Ignored(pkt)
  \/ \E pkt \in net : Capture(pkt)
  \/ Accept
  \/ AcceptError
  \/ AcceptDuplicate
  \/ \E e \in Endpoint : Restart(e)

\* Dial is called when the program starts; the loops that read and accept go
\* on for ever.
Fairness ==
  /\ WF_vars(DialFakeTCP)
  /\ WF_vars(\E e \in Endpoint, pkt \in net : ReadFrom(e, pkt))
  /\ WF_vars(\E pkt \in net : Capture(pkt) \/ MulticastSYN(pkt) \/ Ignored(pkt))
  /\ WF_vars(Accept)

Spec == Init /\ [][Next]_vars /\ Fairness

-----------------------------------------------------------------------------
(* Properties.                                                             *)

\* No endpoint acknowledges what its peer, since it was started, has not
\* sent, whatever is lost, repeated or reordered and whoever restarts: an ack
\* that was set by a packet of this incarnation is no higher than its seq.  (The
\* packets of a write that failed midway are acknowledged, too, though their
\* sender's seq stays.)
AckWithinSent ==
  \A e \in Endpoint :
    conn[e] # NoConn /\ conn[Peer(e)] # NoConn /\ newest[e].ackOf = inc[Peer(e)] =>
      conn[e].ack <= conn[Peer(e)].seq

\* Two packets that a process sent share no IPv4 Id, by which a receiver tells
\* fragments apart, and two messages no sequence number, whoever of the
\* handler, the reader and publish wrote them.  The segments of one message do
\* share its sequence number, and the packets of a write that failed midway
\* share theirs with the message that follows.
PacketsAreDistinguishable ==
  \A p, q \in net :
    p.to = q.to /\ p.inc = q.inc /\ p.n # q.n /\ p.write = "done" /\ q.write = "done" =>
      /\ p.id # q.id
      /\ \/ p.first = q.first
         \/ p.seq + Size(p.kind, p.len) <= q.seq
         \/ q.seq + Size(q.kind, q.len) <= p.seq

\* "always use the expected one": an endpoint acknowledges exactly up to the
\* newest packet that it read, also when sequence numbers wrap.
AckIsNewestRead ==
  \A e \in Endpoint :
    conn[e] # NoConn /\ newest[e].inc > 0 => conn[e].ack = newest[e].end % SeqWrap

\* The three-way handshake completes when nothing goes wrong, although the
\* listener swallows the SYNs that come before it accepts the first.
Connects ==
  conn["client"] # NoConn ~> conn["client"] # NoConn /\ conn["client"].isConnected

=============================================================================
