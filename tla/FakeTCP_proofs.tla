--------------------------- MODULE FakeTCP_proofs ---------------------------
(***************************************************************************)
(* Proofs about FakeTCP, for any number of events: first for messages of   *)
(* one or two packets, with all faults of the network and of writes and    *)
(* all restarts, as long as the numbers of a process do not wrap; then     *)
(* for messages that fit a packet, without faults, however often the       *)
(* numbers wrap.                                                           *)
(***************************************************************************)
EXTENDS FakeTCP, SequenceTheorems, TLAPS

-----------------------------------------------------------------------------
(* What is assumed.                                                        *)

\* No message is split into segments (which all have its sequence number).
MessagesFit == \A l \in Length : l <= Mss

\* The uint32 seq and the uint16 id of a process do not wrap.
NumbersLast == \A e \in Endpoint : total[e] < SeqWrap /\ count[e] < IdWrap

-----------------------------------------------------------------------------
(* The inductive invariant.                                                *)

Conn == [seq : Nat, ack : Nat, id : Nat, isConnected : BOOLEAN, isReconnected : BOOLEAN]

Pkt == [to : Endpoint, kind : {"SYN", "SYN+ACK", "ACK", "DATA", "RST"}, seq : Nat, ack : Nat,
        id : Nat, len : Nat, inc : Nat, n : Nat, end : Nat, first : Nat,
        write : {"done", "failed"}]

TypeOK ==
  /\ conn \in [Endpoint -> Conn \cup {NoConn}]
  /\ backlog \in Seq(Pkt)
  /\ net \in SUBSET Pkt
  /\ inc \in [Endpoint -> Nat \ {0}]
  /\ total \in [Endpoint -> Nat]
  /\ count \in [Endpoint -> Nat]
  /\ newest \in [Endpoint -> [inc : Nat, end : Nat, ackOf : Nat]]

\* seq and id are what was sent since the process was started.
InStep ==
  \A e \in Endpoint :
    IF conn[e] = NoConn THEN total[e] = 0 /\ count[e] = 0
    ELSE conn[e].seq = total[e] /\ conn[e].id = count[e]

\* A packet of a process is numbered by what it had sent before, and no
\* further than what it has sent now, unless its write failed midway.  A RST of
\* a kernel has no incarnation.
Sent(p) ==
  /\ p.inc <= inc[Peer(p.to)]
  /\ p.inc > 0 /\ p.write = "done" => p.seq + Size(p.kind, p.len) = p.end /\ p.id = p.n
  /\ p.inc = inc[Peer(p.to)] /\ p.write = "done" =>
       p.first < count[Peer(p.to)] /\ p.end <= total[Peer(p.to)]
  /\ p.inc = 0 => p.n = 0 /\ p.first = 0 /\ p.kind = "RST"
  /\ p.write = "failed" => p.kind = "DATA"

\* Of the packets of two messages, the one that was sent later starts where the
\* other one ends, or after that.
InTurn(p, q) ==
  p.to = q.to /\ p.inc = q.inc /\ p.write = "done" /\ q.write = "done" /\ p.first < q.first =>
    p.end <= q.seq

AllSent ==
  /\ \A p \in net : Sent(p)
  /\ \A k \in 1 .. Len(backlog) :
       Sent(backlog[k]) /\ backlog[k].to = "server" /\ backlog[k].kind \in {"SYN", "SYN+ACK"}
  /\ \A p, q \in net : InTurn(p, q)

\* An ack of the peer's packets is no higher than what the peer has sent.
AckIsOfSent ==
  \A e \in Endpoint :
    /\ newest[e].ackOf <= inc[Peer(e)]
    /\ conn[e] # NoConn /\ newest[e].ackOf = inc[Peer(e)] => conn[e].ack <= total[Peer(e)]

IInv == TypeOK /\ InStep /\ AllSent /\ AckIsOfSent

-----------------------------------------------------------------------------
(* Lemmas.                                                                 *)

LEMMA PeerOfPeer ==
  ASSUME NEW e \in Endpoint
  PROVE  Peer(e) \in Endpoint /\ Peer(e) # e /\ Peer(Peer(e)) = e
BY DEF Endpoint, Peer

LEMMA NoWrap ==
  ASSUME NEW a \in Nat, NEW w \in Nat \ {0}, a < w
  PROVE  a % w = a
OBVIOUS

LEMMA SizeType ==
  ASSUME NEW kind, NEW len \in Nat
  PROVE  Size(kind, len) \in Nat
BY DEF Size

\* What is left of a write that failed midway.
Torn == {p \in Pkt : p.write = "failed" /\ p.kind = "DATA" /\ p.inc = inc[Peer(p.to)]}

\* What may be on its way when an endpoint writes: packets that were, what is
\* left of a write, and a RST of a kernel.
Wire == net \cup Torn \cup {Reset(e) : e \in Endpoint}

LEMMA WireIsSent ==
  ASSUME IInv
  PROVE  Wire \in SUBSET Pkt /\ (\A p \in Wire : Sent(p)) /\ (\A p, q \in Wire : InTurn(p, q))
<1>0. TypeOK /\ AllSent
  BY DEF IInv
<1>1. \A e \in Endpoint : inc[e] \in Nat /\ inc[e] > 0
  BY <1>0 DEF TypeOK
<1>2. ASSUME NEW e \in Endpoint PROVE Reset(e) \in Pkt
  BY DEF Reset, Pkt
<1>3. ASSUME NEW e \in Endpoint PROVE Sent(Reset(e))
  <2>1. Peer(e) \in Endpoint
    BY PeerOfPeer
  <2>2. /\ Reset(e).to = e /\ Reset(e).inc = 0 /\ Reset(e).n = 0 /\ Reset(e).kind = "RST"
        /\ Reset(e).first = 0 /\ Reset(e).write = "done"
    BY DEF Reset
  <2>3. 0 <= inc[Peer(e)] /\ 0 # inc[Peer(e)]
    BY <1>1, <2>1
  <2> QED BY <2>2, <2>3 DEF Sent
<1>4. Wire \in SUBSET Pkt
  BY <1>0, <1>2 DEF Wire, TypeOK, Torn
<1>5. ASSUME NEW p \in Torn PROVE Sent(p)
  <2>1. p \in Pkt /\ p.write = "failed" /\ p.kind = "DATA" /\ p.inc = inc[Peer(p.to)]
    BY DEF Torn
  <2>2. inc[Peer(p.to)] \in Nat /\ inc[Peer(p.to)] > 0
    BY <1>1, <2>1, PeerOfPeer DEF Pkt
  <2> QED BY <2>1, <2>2 DEF Sent
<1>6. \A p \in Wire : Sent(p)
  BY <1>0, <1>3, <1>5 DEF Wire, AllSent
<1>7. ASSUME NEW p \in Wire, NEW q \in Wire PROVE InTurn(p, q)
  <2>1. CASE p \in net /\ q \in net
    BY <1>0, <2>1 DEF AllSent
  <2>2. CASE p \in Torn \/ q \in Torn
    BY <2>2 DEF InTurn, Torn
  <2>3. CASE p \notin net \cup Torn \/ q \notin net \cup Torn
    <3>1. p.inc = 0 \/ q.inc = 0
      BY <2>3 DEF Wire, Reset
    <3>2. p.inc = q.inc => p.first = 0 /\ q.first = 0
      BY <1>6, <3>1 DEF Sent
    <3> QED BY <3>2 DEF InTurn
  <2> QED BY <2>1, <2>2, <2>3
<1> QED BY <1>4, <1>6, <1>7

\* What was sent stays sent while the numbers grow.
LEMMA SentStays ==
  ASSUME TypeOK, UNCHANGED inc, NEW p \in Pkt, Sent(p),
         total' \in [Endpoint -> Nat], count' \in [Endpoint -> Nat],
         \A e \in Endpoint : total[e] <= total'[e] /\ count[e] <= count'[e]
  PROVE  Sent(p)'
<1> DEFINE e == Peer(p.to)
<1>1. e \in Endpoint /\ p.first \in Nat /\ p.end \in Nat
  BY PeerOfPeer DEF Pkt
<1>2. /\ total[e] \in Nat /\ count[e] \in Nat /\ total'[e] \in Nat /\ count'[e] \in Nat
      /\ total[e] <= total'[e] /\ count[e] <= count'[e]
  BY <1>1 DEF TypeOK
<1> HIDE DEF e
<1>3. p.inc = inc[e] /\ p.write = "done" => p.first < count'[e] /\ p.end <= total'[e]
  <2>1. p.inc = inc[e] /\ p.write = "done" => p.first < count[e] /\ p.end <= total[e]
    BY DEF Sent, e
  <2> QED BY <1>1, <1>2, <2>1
<1> QED BY <1>3 DEF Sent, e

\* A packet of a message that an endpoint writes with seq and id in step.
LEMMA PacketIsSent ==
  ASSUME TypeOK, NEW e \in Endpoint, NEW c \in Conn, c.seq = total[e], c.id = count[e],
         NEW kind \in {"SYN", "SYN+ACK", "ACK", "DATA"}, NEW len \in Nat, NEW k \in Nat
  PROVE  LET p == Packet(e, c, kind, k, len)
         IN /\ p \in Pkt /\ p.to = Peer(e) /\ p.inc = inc[e] /\ p.n = count[e] + k
            /\ count[e] + k < IdWrap => p.id = p.n
            /\ p.seq = total[e] /\ p.kind = kind /\ p.len = len
            /\ p.end = total[e] + Size(kind, len)
            /\ p.first = count[e] /\ p.write = "done"
<1> DEFINE p == Packet(e, c, kind, k, len)
<1>1. total[e] \in Nat /\ count[e] \in Nat /\ inc[e] \in Nat /\ count[e] + k \in Nat
  BY DEF TypeOK
<1>2. /\ (c.id + k) % IdWrap \in Nat
      /\ count[e] + k < IdWrap => (c.id + k) % IdWrap = count[e] + k
  BY <1>1, NoWrap, SizeAssumption
<1>3. Size(kind, len) \in Nat
  BY SizeType
<1>4. p = [to |-> Peer(e), kind |-> kind, seq |-> total[e], ack |-> c.ack,
           id |-> (c.id + k) % IdWrap, len |-> len, inc |-> inc[e], n |-> count[e] + k,
           end |-> total[e] + Size(kind, len), first |-> count[e], write |-> "done"]
  BY <1>1 DEF Packet
<1>5. c.ack \in Nat /\ Peer(e) \in Endpoint
  BY PeerOfPeer DEF Conn
<1>6. p \in Pkt
  BY <1>1, <1>2, <1>3, <1>4, <1>5 DEF Pkt
<1> QED BY <1>2, <1>4, <1>6

\* What a packet of a new message is like, if the message takes s sequence
\* numbers.
NewOf(w, e, s) ==
  /\ w \in Pkt /\ w.to = Peer(e) /\ w.inc = inc[e] /\ w.write = "done"
  /\ w.kind # "RST" /\ w.id = w.n /\ w.first = count[e] /\ w.seq = total[e]
  /\ w.end = w.seq + Size(w.kind, w.len) /\ w.end <= total[e] + s

\* Whatever an endpoint with seq and id in step writes is sent in turn.
LEMMA Sends ==
  ASSUME IInv, NumbersLast', NEW e \in Endpoint, NEW c \in Conn,
         c.seq = total[e], c.id = count[e],
         NEW s \in Nat, NEW m \in Nat \ {0}, NEW W, \A w \in W : NewOf(w, e, s),
         NEW rest \in SUBSET Wire,
         net' = rest \cup W,
         conn' = [conn EXCEPT ![e] = [c EXCEPT !.seq = (c.seq + s) % SeqWrap,
                                               !.id = (c.id + m) % IdWrap]],
         total' = [total EXCEPT ![e] = total[e] + s],
         count' = [count EXCEPT ![e] = count[e] + m],
         UNCHANGED inc
  PROVE  /\ conn' \in [Endpoint -> Conn \cup {NoConn}] /\ conn'[e] \in Conn /\ conn'[e].ack = c.ack
         /\ \A f \in Endpoint : f # e => conn'[f] = conn[f]
         /\ net' \in SUBSET Pkt /\ total' \in [Endpoint -> Nat] /\ count' \in [Endpoint -> Nat]
         /\ \A f \in Endpoint : total[f] <= total'[f] /\ count[f] <= count'[f]
         /\ InStep'
         /\ \A p \in net' : Sent(p)'
         /\ \A p, q \in net' : InTurn(p, q)
<1>0. TypeOK /\ InStep
  BY DEF IInv
<1>1. /\ total[e] \in Nat /\ count[e] \in Nat /\ inc[e] \in Nat /\ inc[e] > 0
      /\ \A f \in Endpoint : total[f] \in Nat /\ count[f] \in Nat
  BY <1>0 DEF TypeOK
<1>2. /\ total' \in [Endpoint -> Nat] /\ total'[e] = total[e] + s
      /\ \A f \in Endpoint : f # e => total'[f] = total[f]
  BY <1>0, <1>1 DEF TypeOK
<1>3. /\ count' \in [Endpoint -> Nat] /\ count'[e] = count[e] + m
      /\ \A f \in Endpoint : f # e => count'[f] = count[f]
  BY <1>0, <1>1 DEF TypeOK
<1>4. \A f \in Endpoint : total[f] <= total'[f] /\ count[f] <= count'[f]
  BY <1>0, <1>1, <1>2, <1>3
<1>5. /\ (c.seq + s) % SeqWrap = total'[e] /\ (c.id + m) % IdWrap = count'[e]
  <2>1. total'[e] \in Nat /\ total'[e] < SeqWrap /\ count'[e] \in Nat /\ count'[e] < IdWrap
    BY <1>2, <1>3 DEF NumbersLast
  <2> QED BY <1>2, <1>3, <2>1, NoWrap, SizeAssumption
<1>6. /\ conn'[e] = [c EXCEPT !.seq = total'[e], !.id = count'[e]]
      /\ conn' \in [Endpoint -> Conn \cup {NoConn}]
      /\ \A f \in Endpoint : f # e => conn'[f] = conn[f]
  <2>1. [c EXCEPT !.seq = total'[e], !.id = count'[e]] \in Conn
    BY <1>2, <1>3 DEF Conn
  <2> QED BY <1>0, <1>5, <2>1 DEF TypeOK
<1>7. /\ conn'[e] \in Conn /\ conn'[e].ack = c.ack /\ conn'[e].seq = total'[e]
      /\ conn'[e].id = count'[e] /\ conn'[e] # NoConn
  <2>1. conn'[e] \in Conn
    BY <1>2, <1>3, <1>6 DEF Conn
  <2>2. conn'[e] # NoConn
    BY <2>1, NoConnAssumption DEF Conn
  <2>3. /\ conn'[e].ack = c.ack /\ conn'[e].seq = total'[e] /\ conn'[e].id = count'[e]
    BY <1>6 DEF Conn
  <2> QED BY <2>1, <2>2, <2>3
<1>8. InStep'
  BY <1>0, <1>2, <1>3, <1>6, <1>7 DEF InStep
<1>9. ASSUME NEW w \in W PROVE w \in Pkt /\ Sent(w)'
  <2>1. Peer(w.to) = e /\ w.end <= total'[e] /\ w.first < count'[e]
    BY <1>1, <1>2, <1>3, PeerOfPeer DEF NewOf
  <2>2. w \in Pkt /\ w.inc = inc'[e] /\ w.inc # 0 /\ w.inc <= inc'[e] /\ w.write # "failed"
    BY <1>1 DEF NewOf
  <2>3. w.seq + Size(w.kind, w.len) = w.end /\ w.id = w.n
    BY DEF NewOf
  <2> QED BY <2>1, <2>2, <2>3 DEF Sent
<1>10. /\ rest \in SUBSET Pkt /\ (\A p \in rest : Sent(p)) /\ \A p, q \in rest : InTurn(p, q)
  BY WireIsSent
<1>11. \A p \in rest : Sent(p)'
  BY <1>0, <1>2, <1>3, <1>4, <1>10, SentStays
<1>12. ASSUME NEW p \in rest, NEW w \in W PROVE InTurn(p, w) /\ InTurn(w, p)
  <2> SUFFICES ASSUME p.to = Peer(e), p.inc = inc[e], p.write = "done"
               PROVE  p.end <= total[e] /\ ~(count[e] < p.first)
    BY DEF InTurn, NewOf
  <2>1. Peer(p.to) = e
    BY PeerOfPeer
  <2>2. p.first < count[e] /\ p.end <= total[e] /\ p.first \in Nat
    BY <1>10, <2>1 DEF Sent, Pkt
  <2> QED BY <1>1, <2>2
<1>13. ASSUME NEW v \in W, NEW w \in W PROVE InTurn(v, w)
  BY <1>1 DEF InTurn, NewOf
<1> QED BY <1>2, <1>3, <1>4, <1>6, <1>7, <1>8, <1>9, <1>10, <1>11, <1>12, <1>13

\* Packets arrive or are lost, and nothing is written.
LEMMA NothingIsSent ==
  ASSUME IInv, net' \in SUBSET Wire, UNCHANGED <<inc, total, count>>
  PROVE  /\ net' \in SUBSET Pkt
         /\ \A p \in net' : Sent(p)'
         /\ \A p, q \in net' : InTurn(p, q)
BY WireIsSent DEF Sent

\* Accept takes from the backlog.
LEMMA BacklogStays ==
  ASSUME TypeOK, AllSent, UNCHANGED inc,
         total' \in [Endpoint -> Nat], count' \in [Endpoint -> Nat],
         \A e \in Endpoint : total[e] <= total'[e] /\ count[e] <= count'[e],
         \A k \in 1 .. Len(backlog') : \E j \in 1 .. Len(backlog) : backlog'[k] = backlog[j]
  PROVE  \A k \in 1 .. Len(backlog') :
           Sent(backlog[k])' /\ backlog'[k].to = "server" /\ backlog'[k].kind \in {"SYN", "SYN+ACK"}
<1> TAKE k \in 1 .. Len(backlog')
<1>1. PICK j \in 1 .. Len(backlog) : backlog'[k] = backlog[j]
  OBVIOUS
<1>2. PICK p : p = backlog[j]
  OBVIOUS
<1>3. p \in Pkt /\ Sent(p) /\ p.to = "server" /\ p.kind \in {"SYN", "SYN+ACK"}
  <2>1. backlog \in Seq(Pkt)
    BY DEF TypeOK
  <2>2. backlog[j] \in Pkt
    BY <2>1, ElementOfSeq
  <2> QED BY <1>2, <2>2 DEF AllSent
<1>4. Sent(p)'
  BY <1>3, SentStays
<1>5. Sent(backlog[k])'
  BY <1>1, <1>2, <1>4
<1> QED BY <1>1, <1>2, <1>3, <1>5

\* Of an endpoint's ack, while the other one's stays.
LEMMA AckStays ==
  ASSUME IInv, UNCHANGED inc, NEW e \in Endpoint, total' \in [Endpoint -> Nat],
         \A f \in Endpoint : total[f] <= total'[f],
         \A f \in Endpoint : f # e => conn'[f] = conn[f] /\ newest'[f] = newest[f],
         newest'[e].ackOf <= inc[Peer(e)],
         conn'[e] # NoConn => conn'[e] \in Conn,
         conn'[e] # NoConn /\ newest'[e].ackOf = inc[Peer(e)] => conn'[e].ack <= total[Peer(e)]
  PROVE  AckIsOfSent'
<1>1. TypeOK
  BY DEF IInv
<1> SUFFICES ASSUME NEW f \in Endpoint
             PROVE  /\ newest'[f].ackOf <= inc[Peer(f)]
                    /\ conn'[f] # NoConn /\ newest'[f].ackOf = inc[Peer(f)] =>
                         conn'[f].ack <= total'[Peer(f)]
  BY DEF AckIsOfSent
<1>2. /\ Peer(f) \in Endpoint /\ total[Peer(f)] \in Nat /\ total'[Peer(f)] \in Nat
      /\ total[Peer(f)] <= total'[Peer(f)] /\ conn'[f] # NoConn => conn'[f].ack \in Nat
  <2>1. Peer(f) \in Endpoint
    BY PeerOfPeer
  <2>2. conn'[f] # NoConn => conn'[f] \in Conn
    BY <1>1 DEF TypeOK
  <2>3. conn'[f] # NoConn => conn'[f].ack \in Nat
    BY <2>2 DEF Conn
  <2> QED BY <1>1, <2>1, <2>3 DEF TypeOK
<1>3. CASE f = e
  BY <1>2, <1>3
<1>4. CASE f # e
  <2>1. /\ newest[f].ackOf <= inc[Peer(f)]
        /\ conn[f] # NoConn /\ newest[f].ackOf = inc[Peer(f)] => conn[f].ack <= total[Peer(f)]
    BY DEF IInv, AckIsOfSent
  <2> QED BY <1>2, <1>4, <2>1
<1> QED BY <1>3, <1>4

\* An endpoint that sets ack from a packet of the peer, as it runs now,
\* acknowledges what the peer has sent.
LEMMA AckOfPacket ==
  ASSUME IInv, NumbersLast, NEW e \in Endpoint, NEW p \in Pkt, Sent(p), p.to = e, p.inc > 0,
         p.write = "done"
  PROVE  /\ p.inc <= inc[Peer(e)]
         /\ (p.seq + Size(p.kind, p.len)) % SeqWrap \in Nat
         /\ p.inc = inc[Peer(e)] => (p.seq + Size(p.kind, p.len)) % SeqWrap <= total[Peer(e)]
<1>1. TypeOK
  BY DEF IInv
<1>2. p.seq \in Nat /\ p.len \in Nat /\ p.end \in Nat /\ Peer(e) \in Endpoint
  BY PeerOfPeer DEF Pkt
<1>3. p.seq + Size(p.kind, p.len) \in Nat /\ p.seq + Size(p.kind, p.len) = p.end
  BY <1>2, SizeType DEF Sent
<1>4. p.end % SeqWrap \in Nat
  BY <1>2, SizeAssumption
<1>5. p.inc = inc[Peer(e)] => p.end <= total[Peer(e)]
  BY DEF Sent
<1>6. p.inc = inc[Peer(e)] => p.end % SeqWrap <= total[Peer(e)]
  <2>1. total[Peer(e)] \in Nat /\ total[Peer(e)] < SeqWrap
    BY <1>1, <1>2 DEF TypeOK, NumbersLast
  <2>2. p.inc = inc[Peer(e)] => p.end < SeqWrap
    BY <1>2, <1>5, <2>1, SizeAssumption
  <2> QED BY <1>2, <1>5, <2>2, NoWrap, SizeAssumption
<1> QED BY <1>3, <1>4, <1>6 DEF Sent

\* A packet of a handshake takes the next numbers.
LEMMA HandshakeIsNew ==
  ASSUME TypeOK, NumbersLast, NEW e \in Endpoint, NEW c \in Conn,
         c.seq = total[e], c.id = count[e], NEW kind \in {"SYN", "SYN+ACK", "ACK"}
  PROVE  NewOf(Packet(e, c, kind, 0, 0), e, Size(kind, 0))
<1>1. kind \in {"SYN", "SYN+ACK", "ACK", "DATA"} /\ 0 \in Nat /\ Size(kind, 0) \in Nat
  BY SizeType
<1>2. count[e] \in Nat /\ count[e] < IdWrap /\ total[e] \in Nat
  BY DEF TypeOK, NumbersLast
<1>3. PICK z \in Nat : z = 0
  OBVIOUS
<1>4. PICK w : w = Packet(e, c, kind, z, z)
  OBVIOUS
<1>5. /\ w \in Pkt /\ w.to = Peer(e) /\ w.inc = inc[e] /\ w.n = count[e] + z
      /\ count[e] + z < IdWrap => w.id = w.n
      /\ w.seq = total[e] /\ w.kind = kind /\ w.len = z
      /\ w.end = total[e] + Size(kind, z)
      /\ w.first = count[e] /\ w.write = "done"
  BY <1>1, <1>4, PacketIsSent
<1>6. total[e] + Size(kind, 0) <= total[e] + Size(kind, 0)
  BY <1>1, <1>2
<1>7. count[e] + z = count[e]
  BY <1>2, <1>3
<1>8. NewOf(w, e, Size(kind, 0))
  BY <1>1, <1>2, <1>3, <1>5, <1>6, <1>7 DEF NewOf
<1> QED BY <1>3, <1>4, <1>8

\* A packet of a handshake is written, or not.
Shakes(e, c, kind, rest) == Written(e, c, kind, rest) \/ NotWritten(e, c, rest)

LEMMA HandshakeStep ==
  ASSUME IInv, NumbersLast, NumbersLast', NEW e \in Endpoint, NEW c \in Conn,
         c.seq = total[e], c.id = count[e],
         NEW kind \in {"SYN", "SYN+ACK", "ACK"}, NEW rest \in SUBSET Wire,
         Shakes(e, c, kind, rest), UNCHANGED inc,
         backlog' \in Seq(Pkt),
         \A k \in 1 .. Len(backlog') : \E j \in 1 .. Len(backlog) : backlog'[k] = backlog[j],
         newest' \in [Endpoint -> [inc : Nat, end : Nat, ackOf : Nat]],
         \A f \in Endpoint : f # e => newest'[f] = newest[f],
         newest'[e].ackOf <= inc[Peer(e)],
         newest'[e].ackOf = inc[Peer(e)] => c.ack <= total[Peer(e)]
  PROVE  IInv'
<1>0. TypeOK /\ InStep /\ AllSent
  BY DEF IInv
<1>1. /\ conn' \in [Endpoint -> Conn \cup {NoConn}] /\ conn'[e] \in Conn /\ conn'[e].ack = c.ack
      /\ \A f \in Endpoint : f # e => conn'[f] = conn[f]
      /\ net' \in SUBSET Pkt /\ total' \in [Endpoint -> Nat] /\ count' \in [Endpoint -> Nat]
      /\ \A f \in Endpoint : total[f] <= total'[f] /\ count[f] <= count'[f]
      /\ InStep'
      /\ \A p \in net' : Sent(p)'
      /\ \A p, q \in net' : InTurn(p, q)
  <2>1. CASE Written(e, c, kind, rest)
    <3>1. /\ net' = rest \cup {Packet(e, c, kind, 0, 0)}
          /\ conn' = [conn EXCEPT ![e] = [c EXCEPT !.seq = (c.seq + Size(kind, 0)) % SeqWrap,
                                                   !.id = (c.id + 1) % IdWrap]]
          /\ total' = [total EXCEPT ![e] = total[e] + Size(kind, 0)]
          /\ count' = [count EXCEPT ![e] = count[e] + 1]
      BY <2>1 DEF Written
    <3>2. /\ kind \in {"SYN", "SYN+ACK", "ACK", "DATA"} /\ 0 \in Nat /\ 1 \in Nat \ {0}
          /\ Size(kind, 0) \in Nat
      BY SizeType
    <3>3. PICK w : w = Packet(e, c, kind, 0, 0)
      OBVIOUS
    <3>4. NewOf(w, e, Size(kind, 0))
      BY <1>0, <3>3, HandshakeIsNew
    <3>5. PICK W : W = {w}
      OBVIOUS
    <3>6. \A v \in W : NewOf(v, e, Size(kind, 0))
      BY <3>4, <3>5
    <3>7. net' = rest \cup W
      BY <3>1, <3>3, <3>5
    <3>8. PICK z \in Nat : z = Size(kind, 0)
      BY <3>2
    <3> QED BY <3>1, <3>2, <3>6, <3>7, <3>8, Sends
  <2>2. CASE NotWritten(e, c, rest)
    <3>1. net' = rest /\ conn' = [conn EXCEPT ![e] = c] /\ UNCHANGED <<total, count>>
      BY <2>2 DEF NotWritten
    <3>2. /\ conn' \in [Endpoint -> Conn \cup {NoConn}] /\ conn'[e] = c
          /\ \A f \in Endpoint : f # e => conn'[f] = conn[f]
      BY <1>0, <3>1 DEF TypeOK
    <3>3. \A f \in Endpoint : total[f] <= total'[f] /\ count[f] <= count'[f]
      <4>1. \A f \in Endpoint : total[f] \in Nat /\ count[f] \in Nat
        BY <1>0 DEF TypeOK
      <4> QED BY <3>1, <4>1
    <3>4. c # NoConn
      BY NoConnAssumption DEF Conn
    <3>5. InStep'
      BY <1>0, <3>1, <3>2, <3>4 DEF InStep
    <3>6. total' \in [Endpoint -> Nat] /\ count' \in [Endpoint -> Nat]
      BY <1>0, <3>1 DEF TypeOK
    <3> QED BY <3>1, <3>2, <3>3, <3>5, <3>6, NothingIsSent
  <2> QED BY <2>1, <2>2 DEF Shakes
<1>2. TypeOK'
  BY <1>0, <1>1 DEF TypeOK
<1>3. AllSent'
  <2>1. \A k \in 1 .. Len(backlog') :
           Sent(backlog[k])' /\ backlog'[k].to = "server" /\ backlog'[k].kind \in {"SYN", "SYN+ACK"}
    BY <1>0, <1>1, BacklogStays
  <2> QED BY <1>1, <2>1 DEF AllSent, InTurn
<1>4. AckIsOfSent'
  BY <1>1, AckStays
<1> QED BY <1>1, <1>2, <1>3, <1>4 DEF IInv

\* Nothing is written, and no ack is set.
LEMMA NothingIsWritten ==
  ASSUME IInv, net' \in SUBSET Wire, UNCHANGED <<conn, inc, total, count, newest>>,
         backlog' \in Seq(Pkt),
         \A k \in 1 .. Len(backlog') : \E j \in 1 .. Len(backlog) : backlog'[k] = backlog[j]
  PROVE  IInv'
<1>0. TypeOK /\ InStep /\ AllSent /\ AckIsOfSent
  BY DEF IInv
<1>1. \A f \in Endpoint : total[f] <= total'[f] /\ count[f] <= count'[f]
  <2>1. \A f \in Endpoint : total[f] \in Nat /\ count[f] \in Nat
    BY <1>0 DEF TypeOK
  <2> QED BY <2>1
<1>2. /\ net' \in SUBSET Pkt /\ (\A p \in net' : Sent(p)') /\ \A p, q \in net' : InTurn(p, q)
  BY NothingIsSent
<1>3. TypeOK'
  BY <1>0, <1>2 DEF TypeOK
<1>4. InStep' /\ AckIsOfSent'
  BY <1>0 DEF InStep, AckIsOfSent
<1>5. AllSent'
  <2>1. total' \in [Endpoint -> Nat] /\ count' \in [Endpoint -> Nat]
    BY <1>0 DEF TypeOK
  <2>2. \A k \in 1 .. Len(backlog') :
          Sent(backlog[k])' /\ backlog'[k].to = "server" /\ backlog'[k].kind \in {"SYN", "SYN+ACK"}
    BY <1>0, <1>1, <2>1, BacklogStays
  <2> QED BY <1>2, <2>2 DEF AllSent, InTurn
<1> QED BY <1>3, <1>4, <1>5 DEF IInv

\* A backlog that stays, and one from which the first SYN is taken.
LEMMA BacklogTail ==
  ASSUME TypeOK
  PROVE  /\ backlog \in Seq(Pkt)
         /\ \A k \in 1 .. Len(backlog) : \E j \in 1 .. Len(backlog) : backlog[k] = backlog[j]
         /\ backlog # <<>> =>
              /\ Head(backlog) \in Pkt /\ 1 \in 1 .. Len(backlog) /\ Head(backlog) = backlog[1]
              /\ Tail(backlog) \in Seq(Pkt)
              /\ \A k \in 1 .. Len(Tail(backlog)) :
                   \E j \in 1 .. Len(backlog) : Tail(backlog)[k] = backlog[j]
<1>1. backlog \in Seq(Pkt)
  BY DEF TypeOK
<1>2. ASSUME backlog # <<>>
      PROVE  /\ Head(backlog) \in Pkt /\ 1 \in 1 .. Len(backlog) /\ Head(backlog) = backlog[1]
             /\ Tail(backlog) \in Seq(Pkt)
             /\ \A k \in 1 .. Len(Tail(backlog)) :
                  \E j \in 1 .. Len(backlog) : Tail(backlog)[k] = backlog[j]
  <2>1. /\ Head(backlog) \in Pkt /\ Tail(backlog) \in Seq(Pkt) /\ Head(backlog) = backlog[1]
        /\ Len(Tail(backlog)) = Len(backlog) - 1
        /\ \A i \in 1 .. Len(Tail(backlog)) : Tail(backlog)[i] = backlog[i + 1]
    BY <1>1, <1>2, HeadTailProperties
  <2>2. Len(backlog) \in Nat /\ Len(backlog) # 0
    BY <1>1, <1>2, LenProperties, EmptySeq
  <2>3. 1 \in 1 .. Len(backlog)
    BY <2>2
  <2>4. ASSUME NEW k \in 1 .. Len(Tail(backlog))
        PROVE  \E j \in 1 .. Len(backlog) : Tail(backlog)[k] = backlog[j]
    <3>1. k + 1 \in 1 .. Len(backlog)
      BY <2>1, <2>2
    <3> QED BY <2>1, <3>1
  <2> QED BY <2>1, <2>3, <2>4
<1> QED BY <1>1, <1>2

LEMMA AfterIsWire ==
  ASSUME IInv, NEW pkt \in net, NEW r \in After(pkt)
  PROVE  r.net \in SUBSET Wire
<1>1. pkt \in Pkt
  BY DEF IInv, TypeOK
<1>2. Peer(pkt.to) \in Endpoint
  BY <1>1, PeerOfPeer DEF Pkt
<1>3. Reset(Peer(pkt.to)) \in Wire
  BY <1>2 DEF Wire
<1>4. net \subseteq Wire
  BY DEF Wire
<1> QED BY <1>3, <1>4 DEF After

-----------------------------------------------------------------------------
(* The steps.                                                              *)

\* What is known of an endpoint's connection, and of none.
LEMMA ConnFacts ==
  ASSUME IInv, NEW e \in Endpoint
  PROVE  /\ conn[e] # NoConn => /\ conn[e] \in Conn /\ conn[e].seq = total[e]
                                /\ conn[e].id = count[e]
         /\ conn[e] = NoConn => /\ Fresh \in Conn /\ Fresh.seq = total[e] /\ Fresh.id = count[e]
         /\ newest \in [Endpoint -> [inc : Nat, end : Nat, ackOf : Nat]]
         /\ newest[e].ackOf <= inc[Peer(e)]
         /\ conn[e] # NoConn /\ newest[e].ackOf = inc[Peer(e)] => conn[e].ack <= total[Peer(e)]
         /\ total[Peer(e)] \in Nat
<1>1. TypeOK /\ InStep /\ AckIsOfSent
  BY DEF IInv
<1>2. conn[e] # NoConn => conn[e] \in Conn /\ conn[e].seq = total[e] /\ conn[e].id = count[e]
  BY <1>1 DEF TypeOK, InStep
<1>3. conn[e] = NoConn => Fresh \in Conn /\ Fresh.seq = total[e] /\ Fresh.id = count[e]
  BY <1>1 DEF InStep, Fresh, Conn
<1>4. newest \in [Endpoint -> [inc : Nat, end : Nat, ackOf : Nat]] /\ total[Peer(e)] \in Nat
  BY <1>1, PeerOfPeer DEF TypeOK
<1> QED BY <1>1, <1>2, <1>3, <1>4 DEF AckIsOfSent

LEMMA DialStep ==
  ASSUME IInv, NumbersLast, NumbersLast', DialFakeTCP
  PROVE  IInv'
<1>1. /\ conn["client"] = NoConn /\ Shakes("client", Fresh, "SYN", net)
      /\ UNCHANGED <<backlog, inc, newest>>
  BY DEF DialFakeTCP, Shakes
<1>2. "client" \in Endpoint /\ net \in SUBSET Wire /\ Fresh.ack = 0
  BY DEF Endpoint, Wire, Fresh
<1>3. /\ Fresh \in Conn /\ Fresh.seq = total["client"] /\ Fresh.id = count["client"]
      /\ newest \in [Endpoint -> [inc : Nat, end : Nat, ackOf : Nat]]
      /\ newest["client"].ackOf <= inc[Peer("client")] /\ total[Peer("client")] \in Nat
  BY <1>1, <1>2, ConnFacts
<1>4. /\ backlog \in Seq(Pkt)
      /\ \A k \in 1 .. Len(backlog) : \E j \in 1 .. Len(backlog) : backlog[k] = backlog[j]
  BY BacklogTail DEF IInv
<1>5. Fresh.ack <= total[Peer("client")]
  BY <1>2, <1>3
<1> QED BY <1>1, <1>2, <1>3, <1>4, <1>5, HandshakeStep

LEMMA ReconnectStep ==
  ASSUME IInv, NumbersLast, NumbersLast', NEW e \in Endpoint, NEW r, r.net \in SUBSET Wire,
         conn[e] # NoConn, Reconnect(e, r), UNCHANGED <<backlog, inc, newest>>
  PROVE  IInv'
<1> DEFINE c == [conn[e] EXCEPT !.isReconnected = FALSE]
<1>1. Shakes(e, c, "SYN", r.net)
  BY DEF Reconnect, handshakeSYN, Handshake, Shakes
<1>2. /\ conn[e] \in Conn /\ conn[e].seq = total[e] /\ conn[e].id = count[e]
      /\ newest \in [Endpoint -> [inc : Nat, end : Nat, ackOf : Nat]]
      /\ newest[e].ackOf <= inc[Peer(e)]
      /\ newest[e].ackOf = inc[Peer(e)] => conn[e].ack <= total[Peer(e)]
  BY ConnFacts
<1>3. c \in Conn /\ c.seq = conn[e].seq /\ c.id = conn[e].id /\ c.ack = conn[e].ack
  BY <1>2 DEF Conn
<1>4. /\ backlog \in Seq(Pkt)
      /\ \A k \in 1 .. Len(backlog) : \E j \in 1 .. Len(backlog) : backlog[k] = backlog[j]
  BY BacklogTail DEF IInv
<1> HIDE DEF c
<1> QED BY <1>1, <1>2, <1>3, <1>4, HandshakeStep

\* How many packets a message is split into, and how long they are.
LEMMA SegmentsOf ==
  ASSUME NEW l \in Length
  PROVE  /\ l \in Nat /\ Segments(l) \in Nat \ {0}
         /\ \A k \in 0 .. Segments(l) - 1 :
              /\ k \in Nat
              /\ (IF l <= Mss THEN l ELSE IF k = 0 THEN Mss ELSE l - Mss) \in 0 .. l
<1>1. l \in 1 .. 2 * Mss /\ Mss \in Nat
  BY SizeAssumption
<1> QED BY <1>1 DEF Segments

LEMMA WriteToStep ==
  ASSUME IInv, NumbersLast, NumbersLast', NEW e \in Endpoint, NEW l \in Length,
         WriteTo(e, l)
  PROVE  IInv'
<1>0. TypeOK /\ AllSent
  BY DEF IInv
<1>1. conn[e] # NoConn /\ UNCHANGED <<backlog, inc, newest>>
  BY DEF WriteTo
<1>2. l \in Nat /\ Segments(l) \in Nat \ {0}
  BY SegmentsOf
<1>3. PICK m \in Nat \ {0} : m = Segments(l)
  BY <1>2
<1>4. /\ conn[e] \in Conn /\ conn[e].seq = total[e] /\ conn[e].id = count[e]
      /\ newest \in [Endpoint -> [inc : Nat, end : Nat, ackOf : Nat]]
      /\ newest[e].ackOf <= inc[Peer(e)]
      /\ newest[e].ackOf = inc[Peer(e)] => conn[e].ack <= total[Peer(e)]
  BY <1>1, ConnFacts
<1>5. PICK W : W = Fragments(e, l)
  OBVIOUS
<1>6. net' = net \cup W /\ net \in SUBSET Wire
  BY <1>5 DEF WriteTo, Wire
<1>7. /\ total' = [total EXCEPT ![e] = total[e] + l]
      /\ count' = [count EXCEPT ![e] = count[e] + m]
  BY <1>3 DEF WriteTo
<1>8. conn' = [conn EXCEPT ![e] = [conn[e] EXCEPT !.seq = (conn[e].seq + l) % SeqWrap,
                                                 !.id = (conn[e].id + m) % IdWrap]]
  <2>1. conn' = [conn EXCEPT ![e].seq = (conn[e].seq + l) % SeqWrap, ![e].id = (conn[e].id + m) % IdWrap]
    BY <1>3 DEF WriteTo
  <2> QED BY <1>0, <1>4, <2>1 DEF TypeOK, Conn
<1>9. ASSUME NEW w \in W PROVE NewOf(w, e, l)
  <2>1. PICK k \in 0 .. Segments(l) - 1 :
          w = Packet(e, conn[e], "DATA", k, IF l <= Mss THEN l ELSE IF k = 0 THEN Mss ELSE l - Mss)
    BY <1>5 DEF Fragments
  <2>2. PICK len : len = IF l <= Mss THEN l ELSE IF k = 0 THEN Mss ELSE l - Mss
    OBVIOUS
  <2>3. k \in Nat /\ k < m /\ len \in 0 .. l
    BY <1>3, <2>2, SegmentsOf
  <2>4. count[e] + k < IdWrap /\ total[e] \in Nat
    <3>1. count[e] \in Nat /\ total[e] \in Nat /\ count'[e] = count[e] + m /\ IdWrap \in Nat
      BY <1>0, <1>7, SizeAssumption DEF TypeOK
    <3>2. count'[e] < IdWrap
      BY DEF NumbersLast
    <3> QED BY <2>3, <3>1, <3>2
  <2>5. "DATA" \in {"SYN", "SYN+ACK", "ACK", "DATA"} /\ len \in Nat /\ Size("DATA", len) = len
    BY <1>2, <2>3 DEF Size
  <2>6. w = Packet(e, conn[e], "DATA", k, len)
    BY <2>1, <2>2
  <2>7. /\ w \in Pkt /\ w.to = Peer(e) /\ w.inc = inc[e] /\ w.n = count[e] + k
        /\ count[e] + k < IdWrap => w.id = w.n
        /\ w.seq = total[e] /\ w.kind = "DATA" /\ w.len = len
        /\ w.end = total[e] + Size("DATA", len)
        /\ w.first = count[e] /\ w.write = "done"
    <3>1. PICK c : c = conn[e]
      OBVIOUS
    <3>2. c \in Conn /\ c.seq = total[e] /\ c.id = count[e] /\ w = Packet(e, c, "DATA", k, len)
      BY <1>4, <2>6, <3>1
    <3> QED BY <1>0, <2>3, <2>5, <3>2, PacketIsSent
  <2>8. total[e] + len <= total[e] + l
    BY <1>2, <2>3, <2>4
  <2> QED BY <2>4, <2>5, <2>7, <2>8 DEF NewOf
<1>10. /\ conn' \in [Endpoint -> Conn \cup {NoConn}] /\ conn'[e] \in Conn /\ conn'[e].ack = conn[e].ack
       /\ \A f \in Endpoint : f # e => conn'[f] = conn[f]
       /\ net' \in SUBSET Pkt /\ total' \in [Endpoint -> Nat] /\ count' \in [Endpoint -> Nat]
       /\ \A f \in Endpoint : total[f] <= total'[f] /\ count[f] <= count'[f]
       /\ InStep'
       /\ \A p \in net' : Sent(p)'
       /\ \A p, q \in net' : InTurn(p, q)
  <2>1. PICK c \in Conn : c = conn[e]
    BY <1>4
  <2>2. c.seq = total[e] /\ c.id = count[e] /\ c.ack = conn[e].ack
    BY <1>4, <2>1
  <2>3. conn' = [conn EXCEPT ![e] = [c EXCEPT !.seq = (c.seq + l) % SeqWrap,
                                              !.id = (c.id + m) % IdWrap]]
    BY <1>8, <2>1
  <2>4. \A w \in W : NewOf(w, e, l)
    BY <1>9
  <2>5. UNCHANGED inc
    BY <1>1
  <2> QED BY <1>2, <1>6, <1>7, <2>2, <2>3, <2>4, <2>5, Sends
<1>11. TypeOK'
  BY <1>0, <1>1, <1>10 DEF TypeOK
<1>12. AllSent'
  <2>1. \A k \in 1 .. Len(backlog') :
          Sent(backlog[k])' /\ backlog'[k].to = "server" /\ backlog'[k].kind \in {"SYN", "SYN+ACK"}
    BY <1>0, <1>1, <1>10, BacklogStays
  <2> QED BY <1>10, <2>1 DEF AllSent, InTurn
<1>13. AckIsOfSent'
  BY <1>1, <1>4, <1>10, AckStays
<1> QED BY <1>10, <1>11, <1>12, <1>13 DEF IInv

LEMMA WriteToErrorStep ==
  ASSUME IInv, NEW e \in Endpoint, NEW l \in Length, NEW j \in 0 .. Segments(l) - 1,
         WriteToError(e, l, j)
  PROVE  IInv'
<1>0. TypeOK
  BY DEF IInv
<1>1. conn[e] # NoConn /\ UNCHANGED <<conn, backlog, inc, total, count, newest>>
  BY DEF WriteToError
<1>2. conn[e] \in Conn /\ conn[e].seq = total[e] /\ conn[e].id = count[e]
  BY <1>1, ConnFacts
<1>3. ASSUME NEW p \in Fragments(e, l) PROVE [p EXCEPT !.write = "failed"] \in Torn
  <2>1. PICK k \in 0 .. Segments(l) - 1 :
          p = Packet(e, conn[e], "DATA", k, IF l <= Mss THEN l ELSE IF k = 0 THEN Mss ELSE l - Mss)
    BY DEF Fragments
  <2>2. PICK len : len = IF l <= Mss THEN l ELSE IF k = 0 THEN Mss ELSE l - Mss
    OBVIOUS
  <2>3. k \in Nat /\ len \in Nat /\ "DATA" \in {"SYN", "SYN+ACK", "ACK", "DATA"}
    BY <2>2, SegmentsOf
  <2>4. p = Packet(e, conn[e], "DATA", k, len)
    BY <2>1, <2>2
  <2>5. p \in Pkt /\ p.to = Peer(e) /\ p.inc = inc[e] /\ p.kind = "DATA"
    BY <1>0, <1>2, <2>3, <2>4, PacketIsSent
  <2>6. PICK w : w = [p EXCEPT !.write = "failed"]
    OBVIOUS
  <2>7. w \in Pkt /\ w.to = Peer(e) /\ w.inc = inc[e] /\ w.kind = "DATA" /\ w.write = "failed"
    BY <2>5, <2>6 DEF Pkt
  <2> QED BY <2>6, <2>7, PeerOfPeer DEF Torn
<1>4. net' \in SUBSET Wire
  BY <1>3 DEF WriteToError, Wire
<1> QED BY <1>0, <1>1, <1>4, NothingIsWritten, BacklogTail

\* The history of an endpoint that sets ack from a packet.
LEMMA NewestOf ==
  ASSUME IInv, NEW e \in Endpoint, NEW pkt \in Pkt, Sent(pkt),
         pkt.kind \in {"SYN", "SYN+ACK"},
         newest' = [newest EXCEPT ![e] = Newest(newest[e], pkt, TRUE)]
  PROVE  /\ newest' \in [Endpoint -> [inc : Nat, end : Nat, ackOf : Nat]]
         /\ newest'[e].ackOf = pkt.inc
         /\ \A f \in Endpoint : f # e => newest'[f] = newest[f]
<1>1. pkt.inc \in Nat /\ pkt.end \in Nat
  BY DEF Pkt
<1>2. newest \in [Endpoint -> [inc : Nat, end : Nat, ackOf : Nat]]
  BY ConnFacts
<1>3. /\ Newest(newest[e], pkt, TRUE) \in [inc : Nat, end : Nat, ackOf : Nat]
      /\ Newest(newest[e], pkt, TRUE).ackOf = pkt.inc
  BY <1>1, <1>2 DEF Newest, Sent
<1> QED BY <1>2, <1>3

\* A SYN, with or without ACK, is answered: by a connection that exists or by
\* a new one, to a packet that was captured or that is read.
LEMMA AnswerStep ==
  ASSUME IInv, NumbersLast, NumbersLast', NEW e \in Endpoint, NEW rest \in SUBSET Wire,
         NEW pkt \in Pkt, Sent(pkt), pkt.to = e, pkt.kind \in {"SYN", "SYN+ACK"},
         NEW c \in Conn, c.seq = total[e], c.id = count[e], c.ack = (pkt.seq + 1) % SeqWrap,
         NEW kind \in {"SYN+ACK", "ACK"}, Shakes(e, c, kind, rest),
         newest' \in [Endpoint -> [inc : Nat, end : Nat, ackOf : Nat]],
         newest'[e].ackOf = pkt.inc,
         \A f \in Endpoint : f # e => newest'[f] = newest[f],
         UNCHANGED inc, backlog' \in Seq(Pkt),
         \A k \in 1 .. Len(backlog') : \E j \in 1 .. Len(backlog) : backlog'[k] = backlog[j]
  PROVE  IInv'
<1>1. pkt.inc > 0
  <2>1. pkt.inc \in Nat
    BY DEF Pkt
  <2>2. pkt.inc # 0
    BY DEF Sent
  <2> QED BY <2>1, <2>2
<1>2. Size(pkt.kind, pkt.len) = 1 /\ pkt.write = "done"
  BY DEF Size, Sent, Pkt
<1>3. /\ pkt.inc <= inc[Peer(e)]
      /\ pkt.inc = inc[Peer(e)] => c.ack <= total[Peer(e)]
  BY <1>1, <1>2, AckOfPacket
<1>4. kind \in {"SYN", "SYN+ACK", "ACK"}
  OBVIOUS
<1> QED BY <1>3, <1>4, HandshakeStep

\* The state with which a SYN is answered is in step.
LEMMA SYNReceivedInStep ==
  ASSUME NEW c \in Conn, NEW pkt \in Pkt
  PROVE  /\ SYNReceived(c, pkt) \in Conn /\ SYNReceived(c, pkt).seq = c.seq
         /\ SYNReceived(c, pkt).id = c.id /\ SYNReceived(c, pkt).ack = (pkt.seq + 1) % SeqWrap
<1>1. pkt.seq + 1 \in Nat
  BY DEF Pkt
<1>2. (pkt.seq + 1) % SeqWrap \in Nat
  BY <1>1, SizeAssumption
<1> QED BY <1>2 DEF SYNReceived, Conn

LEMMA ReadDataStep ==
  ASSUME IInv, NumbersLast, NEW e \in Endpoint, NEW pkt \in net, NEW r, r.net \in SUBSET Wire,
         pkt.to = e, conn[e] # NoConn, ReadData(e, pkt, r)
  PROVE  IInv'
<1> DEFINE a == AckAdvances(conn[e], pkt)
           k == (pkt.seq + pkt.len) % SeqWrap
<1>0. TypeOK /\ AllSent /\ InStep /\ pkt \in Pkt /\ Sent(pkt)
  BY DEF IInv, TypeOK, AllSent
<1>1. /\ pkt.kind = "DATA" /\ net' = r.net
      /\ conn' = (IF a THEN [conn EXCEPT ![e].ack = k] ELSE conn)
      /\ newest' = [newest EXCEPT ![e] = Newest(newest[e], pkt, a)]
      /\ UNCHANGED <<backlog, inc, total, count>>
  BY DEF ReadData
<1>2. pkt.inc \in Nat /\ pkt.end \in Nat /\ pkt.inc > 0
  <2>1. pkt.inc \in Nat /\ pkt.end \in Nat
    BY <1>0 DEF Pkt
  <2>2. pkt.inc # 0
    BY <1>0, <1>1 DEF Sent
  <2> QED BY <2>1, <2>2
<1>3. /\ conn[e] \in Conn /\ conn[e].seq = total[e] /\ conn[e].id = count[e]
      /\ newest \in [Endpoint -> [inc : Nat, end : Nat, ackOf : Nat]]
      /\ newest[e].ackOf <= inc[Peer(e)]
      /\ newest[e].ackOf = inc[Peer(e)] => conn[e].ack <= total[Peer(e)]
  BY ConnFacts
<1>4. /\ k \in Nat /\ pkt.inc <= inc[Peer(e)] /\ 0 < inc[Peer(e)]
      /\ pkt.inc = inc[Peer(e)] /\ pkt.write # "failed" => k <= total[Peer(e)]
  <2>1. Size(pkt.kind, pkt.len) = pkt.len
    BY <1>1 DEF Size
  <2>2. k \in Nat /\ pkt.write \in {"done", "failed"}
    <3>1. pkt.seq + pkt.len \in Nat /\ pkt.write \in {"done", "failed"}
      BY <1>0 DEF Pkt
    <3> QED BY <3>1, SizeAssumption
  <2>3. pkt.inc <= inc[Peer(e)] /\ 0 < inc[Peer(e)]
    BY <1>0, PeerOfPeer DEF Sent, TypeOK
  <2> QED BY <1>0, <1>2, <2>1, <2>2, <2>3, AckOfPacket
<1> HIDE DEF a, k
<1>5. /\ Newest(newest[e], pkt, a) \in [inc : Nat, end : Nat, ackOf : Nat]
      /\ Newest(newest[e], pkt, a).ackOf = IF a THEN IF pkt.write = "failed" THEN 0 ELSE pkt.inc
                                                ELSE newest[e].ackOf
  BY <1>2, <1>3 DEF Newest
<1>6. /\ newest' \in [Endpoint -> [inc : Nat, end : Nat, ackOf : Nat]]
      /\ newest'[e].ackOf = IF a THEN IF pkt.write = "failed" THEN 0 ELSE pkt.inc
                                                ELSE newest[e].ackOf
      /\ \A f \in Endpoint : f # e => newest'[f] = newest[f]
  BY <1>1, <1>3, <1>5
<1>7. /\ conn' \in [Endpoint -> Conn \cup {NoConn}] /\ conn'[e] \in Conn
      /\ conn'[e].seq = conn[e].seq /\ conn'[e].id = conn[e].id
      /\ conn'[e].ack = IF a THEN k ELSE conn[e].ack
      /\ \A f \in Endpoint : f # e => conn'[f] = conn[f]
  <2>1. CASE a
    <3>1. [conn[e] EXCEPT !.ack = k] \in Conn
      BY <1>3, <1>4 DEF Conn
    <3>2. conn' = [conn EXCEPT ![e] = [conn[e] EXCEPT !.ack = k]]
      BY <1>1, <2>1
    <3>3. conn'[e] = [conn[e] EXCEPT !.ack = k]
      BY <1>0, <3>2 DEF TypeOK
    <3>4. conn'[e].seq = conn[e].seq /\ conn'[e].id = conn[e].id /\ conn'[e].ack = k
      BY <1>3, <3>3 DEF Conn
    <3> QED BY <1>0, <2>1, <3>1, <3>2, <3>3, <3>4 DEF TypeOK
  <2>2. CASE ~a
    BY <1>0, <1>1, <1>3, <2>2 DEF TypeOK
  <2> QED BY <2>1, <2>2
<1>8. /\ net' \in SUBSET Pkt /\ (\A p \in net' : Sent(p)') /\ \A p, q \in net' : InTurn(p, q)
  BY <1>1, NothingIsSent
<1>9. /\ total' \in [Endpoint -> Nat] /\ count' \in [Endpoint -> Nat]
      /\ \A f \in Endpoint : total[f] <= total'[f] /\ count[f] <= count'[f]
  <2>1. /\ total \in [Endpoint -> Nat] /\ count \in [Endpoint -> Nat]
        /\ \A f \in Endpoint : total[f] \in Nat /\ count[f] \in Nat
    BY <1>0 DEF TypeOK
  <2> QED BY <1>1, <2>1
<1>10. TypeOK'
  BY <1>0, <1>1, <1>6, <1>7, <1>8 DEF TypeOK
<1>11. InStep'
  <2>1. conn'[e] # NoConn
    BY <1>7, NoConnAssumption DEF Conn
  <2> QED BY <1>0, <1>1, <1>3, <1>7, <2>1 DEF InStep
<1>12. AllSent'
  <2>1. \A j \in 1 .. Len(backlog') :
          Sent(backlog[j])' /\ backlog'[j].to = "server" /\ backlog'[j].kind \in {"SYN", "SYN+ACK"}
    BY <1>0, <1>1, <1>9, BacklogStays
  <2> QED BY <1>8, <2>1 DEF AllSent, InTurn
<1>13. AckIsOfSent'
  <2>1. /\ newest'[e].ackOf <= inc[Peer(e)]
        /\ newest'[e].ackOf = inc[Peer(e)] => conn'[e].ack <= total[Peer(e)]
    <3>1. CASE ~a
      <4>1. newest'[e].ackOf = newest[e].ackOf /\ conn'[e].ack = conn[e].ack
        BY <1>6, <1>7, <3>1
      <4>2. /\ newest[e].ackOf <= inc[Peer(e)]
            /\ newest[e].ackOf = inc[Peer(e)] => conn[e].ack <= total[Peer(e)]
        BY <1>3
      <4> QED BY <4>1, <4>2
    <3>2. CASE a /\ pkt.write = "failed"
      <4>1. newest'[e].ackOf = 0
        BY <1>6, <3>2
      <4>2. 0 < inc[Peer(e)] /\ inc[Peer(e)] \in Nat
        BY <1>0, <1>4, PeerOfPeer DEF TypeOK
      <4> QED BY <4>1, <4>2
    <3>3. CASE a /\ pkt.write # "failed"
      <4>1. newest'[e].ackOf = pkt.inc /\ conn'[e].ack = k
        BY <1>6, <1>7, <3>3
      <4> QED BY <1>4, <3>3, <4>1
    <3> QED BY <3>1, <3>2, <3>3
  <2> QED BY <1>1, <1>6, <1>7, <1>9, <2>1, AckStays
<1> QED BY <1>10, <1>11, <1>12, <1>13 DEF IInv

LEMMA ReadFromStep ==
  ASSUME IInv, NumbersLast, NumbersLast', NEW e \in Endpoint, NEW pkt \in net, ReadFrom(e, pkt)
  PROVE  IInv'
<1>0. TypeOK /\ pkt \in Pkt /\ Sent(pkt) /\ pkt.to = e /\ conn[e] # NoConn
  BY DEF IInv, TypeOK, AllSent, ReadFrom
<1>1. PICK r \in After(pkt) :
        \/ ReadRST(e, pkt, r)
        \/ ReadSYNACK(e, pkt, r)
        \/ ReadSYN(e, pkt, r)
        \/ ReadACK(e, pkt, r)
        \/ ReadData(e, pkt, r)
  BY DEF ReadFrom
<1>2. PICK rest : rest = r.net
  OBVIOUS
<1>3. rest \in SUBSET Wire /\ r.net \in SUBSET Wire
  BY <1>2, AfterIsWire
<1>4. conn[e] \in Conn /\ conn[e].seq = total[e] /\ conn[e].id = count[e]
  BY <1>0, ConnFacts
<1>5. /\ backlog \in Seq(Pkt)
      /\ \A k \in 1 .. Len(backlog) : \E j \in 1 .. Len(backlog) : backlog[k] = backlog[j]
  BY <1>0, BacklogTail
<1>6. PICK s : s = SYNReceived(conn[e], pkt)
  OBVIOUS
<1>7. /\ s \in Conn /\ s.seq = total[e] /\ s.id = count[e] /\ s.ack = (pkt.seq + 1) % SeqWrap
  BY <1>0, <1>4, <1>6, SYNReceivedInStep
<1>8. CASE ReadRST(e, pkt, r)
  BY <1>0, <1>3, <1>8, ReconnectStep DEF ReadRST
<1>9. CASE ReadSYNACK(e, pkt, r)
  <2> DEFINE c == [s EXCEPT !.isConnected = TRUE, !.isReconnected = TRUE]
  <2>1. c \in Conn /\ c.seq = s.seq /\ c.id = s.id /\ c.ack = s.ack
    BY <1>7 DEF Conn
  <2>2. /\ pkt.kind = "SYN+ACK" /\ Shakes(e, c, "ACK", rest)
        /\ UNCHANGED <<backlog, inc>>
    BY <1>2, <1>6, <1>9 DEF ReadSYNACK, handshakeACK, Handshake, Shakes
  <2>3. newest' = [newest EXCEPT ![e] = Newest(newest[e], pkt, TRUE)]
    BY <1>9 DEF ReadSYNACK
  <2>4. /\ newest' \in [Endpoint -> [inc : Nat, end : Nat, ackOf : Nat]]
        /\ newest'[e].ackOf = pkt.inc
        /\ \A f \in Endpoint : f # e => newest'[f] = newest[f]
    BY <1>0, <2>2, <2>3, NewestOf
  <2> HIDE DEF c
  <2> QED BY <1>0, <1>3, <1>5, <1>7, <2>1, <2>2, <2>4, AnswerStep
<1>10. CASE ReadSYN(e, pkt, r)
  <2>1. /\ pkt.kind = "SYN" /\ Shakes(e, s, "SYN+ACK", rest)
        /\ UNCHANGED <<backlog, inc>>
    BY <1>2, <1>6, <1>10 DEF ReadSYN, handshakeSYNACK, Handshake, Shakes
  <2>2. newest' = [newest EXCEPT ![e] = Newest(newest[e], pkt, TRUE)]
    BY <1>10 DEF ReadSYN
  <2>3. /\ newest' \in [Endpoint -> [inc : Nat, end : Nat, ackOf : Nat]]
        /\ newest'[e].ackOf = pkt.inc
        /\ \A f \in Endpoint : f # e => newest'[f] = newest[f]
    BY <1>0, <2>1, <2>2, NewestOf
  <2> QED BY <1>0, <1>3, <1>5, <1>7, <2>1, <2>3, AnswerStep
<1>11. CASE ReadACK(e, pkt, r)
  BY <1>3, <1>5, <1>11, NothingIsWritten DEF ReadACK
<1>12. CASE ReadData(e, pkt, r)
  BY <1>0, <1>3, <1>12, ReadDataStep
<1> QED BY <1>1, <1>2, <1>8, <1>9, <1>10, <1>11, <1>12

\* A process ends: its packets are of an earlier incarnation from now on.
LEMMA EndsStep ==
  ASSUME IInv, NEW e \in Endpoint, NEW rest \in SUBSET net, Ends(e, rest)
  PROVE  IInv'
<1>0. TypeOK /\ InStep /\ AllSent /\ AckIsOfSent
  BY DEF IInv
<1>1. /\ net' = rest /\ (backlog' = backlog \/ backlog' = <<>>)
      /\ conn' = [conn EXCEPT ![e] = NoConn] /\ inc' = [inc EXCEPT ![e] = inc[e] + 1]
      /\ total' = [total EXCEPT ![e] = 0] /\ count' = [count EXCEPT ![e] = 0]
      /\ newest' = [newest EXCEPT ![e] = NothingRead]
  BY DEF Ends
<1>2. /\ inc' \in [Endpoint -> Nat \ {0}] /\ inc'[e] = inc[e] + 1
      /\ inc[e] \in Nat
      /\ \A f \in Endpoint : f # e => inc'[f] = inc[f]
  BY <1>0, <1>1 DEF TypeOK
<1>3. /\ total' \in [Endpoint -> Nat] /\ total'[e] = 0
      /\ count' \in [Endpoint -> Nat] /\ count'[e] = 0
      /\ \A f \in Endpoint : f # e => total'[f] = total[f] /\ count'[f] = count[f]
  BY <1>0, <1>1 DEF TypeOK
<1>4. /\ conn' \in [Endpoint -> Conn \cup {NoConn}] /\ conn'[e] = NoConn
      /\ \A f \in Endpoint : f # e => conn'[f] = conn[f]
  BY <1>0, <1>1 DEF TypeOK
<1>5. /\ newest' \in [Endpoint -> [inc : Nat, end : Nat, ackOf : Nat]] /\ newest'[e].ackOf = 0
      /\ \A f \in Endpoint : f # e => newest'[f] = newest[f]
  BY <1>0, <1>1 DEF TypeOK, NothingRead
<1>6. backlog' \in Seq(Pkt) /\ net' \in SUBSET Pkt
  <2>1. backlog \in Seq(Pkt) /\ <<>> \in Seq(Pkt) /\ net \in SUBSET Pkt
    BY <1>0, EmptySeq DEF TypeOK
  <2>2. net' \in SUBSET Pkt
    BY <1>1, <2>1
  <2>3. CASE backlog' = backlog
    BY <2>1, <2>2, <2>3
  <2>4. CASE backlog' = <<>>
    BY <2>1, <2>2, <2>4
  <2> QED BY <1>1, <2>3, <2>4
<1>7. TypeOK'
  BY <1>2, <1>3, <1>4, <1>5, <1>6 DEF TypeOK
<1>8. InStep'
  BY <1>0, <1>3, <1>4 DEF InStep
<1>9. ASSUME NEW p \in Pkt, Sent(p) PROVE Sent(p)'
  <2>1. CASE Peer(p.to) = e
    <3>1. p.inc \in Nat /\ p.inc <= inc[e]
      BY <1>9, <2>1 DEF Sent, Pkt
    <3>2. p.inc <= inc'[e] /\ p.inc # inc'[e]
      BY <1>2, <3>1
    <3> QED BY <1>9, <2>1, <3>2 DEF Sent
  <2>2. CASE Peer(p.to) # e
    <3>1. Peer(p.to) \in Endpoint
      BY PeerOfPeer DEF Pkt
    <3> QED BY <1>2, <1>3, <1>9, <2>2, <3>1 DEF Sent
  <2> QED BY <2>1, <2>2
<1>10. AllSent'
  <2>1. (\A p \in net' : Sent(p)') /\ \A p, q \in net' : InTurn(p, q)
    BY <1>0, <1>1, <1>6, <1>9 DEF AllSent
  <2>2. ASSUME NEW k \in 1 .. Len(backlog')
        PROVE  Sent(backlog[k])' /\ backlog'[k].to = "server" /\ backlog'[k].kind \in {"SYN", "SYN+ACK"}
    <3>1. backlog' = backlog
      <4>1. backlog' # <<>>
        BY <2>2
      <4> QED BY <1>1, <4>1
    <3>2. PICK p : p = backlog[k]
      OBVIOUS
    <3>3. p \in Pkt /\ Sent(p) /\ p.to = "server" /\ p.kind \in {"SYN", "SYN+ACK"}
      BY <1>0, <2>2, <3>1, <3>2, ElementOfSeq DEF TypeOK, AllSent
    <3>4. Sent(p)'
      BY <1>9, <3>3
    <3> QED BY <3>1, <3>2, <3>3, <3>4
  <2> QED BY <2>1, <2>2 DEF AllSent, InTurn
<1>11. AckIsOfSent'
  <2> SUFFICES ASSUME NEW f \in Endpoint
               PROVE  /\ newest'[f].ackOf <= inc'[Peer(f)]
                      /\ conn'[f] # NoConn /\ newest'[f].ackOf = inc'[Peer(f)] =>
                           conn'[f].ack <= total'[Peer(f)]
    BY DEF AckIsOfSent
  <2>1. Peer(f) \in Endpoint /\ Peer(f) # f
    BY PeerOfPeer
  <2>2. CASE f = e
    <3>1. inc'[Peer(f)] \in Nat
      BY <1>2, <2>1
    <3> QED BY <1>4, <1>5, <2>2, <3>1
  <2>3. CASE f # e
    <3>1. Peer(f) = e
      BY <2>3 DEF Endpoint, Peer
    <3>2. newest[f].ackOf <= inc[e] /\ newest[f].ackOf \in Nat
      BY <1>0, <3>1 DEF AckIsOfSent, TypeOK
    <3> QED BY <1>2, <1>5, <2>3, <3>1, <3>2
  <2> QED BY <2>2, <2>3
<1> QED BY <1>7, <1>8, <1>10, <1>11 DEF IInv

\* The server's first answer to a client, with Accept or without a listener.
LEMMA FirstAnswerStep ==
  ASSUME IInv, NumbersLast, NumbersLast', NEW pkt \in Pkt, Sent(pkt), pkt.to = "server",
         pkt.kind \in {"SYN", "SYN+ACK"}, conn["server"] = NoConn, NEW rest \in SUBSET Wire,
         Shakes("server", SYNReceived(Fresh, pkt), "SYN+ACK", rest),
         newest' = [newest EXCEPT !["server"] = Newest(newest["server"], pkt, TRUE)],
         UNCHANGED inc, backlog' \in Seq(Pkt),
         \A k \in 1 .. Len(backlog') : \E j \in 1 .. Len(backlog) : backlog'[k] = backlog[j]
  PROVE  IInv'
<1>1. "server" \in Endpoint
  BY DEF Endpoint
<1>2. Fresh \in Conn /\ Fresh.seq = total["server"] /\ Fresh.id = count["server"]
  BY <1>1, ConnFacts
<1>3. PICK c : c = SYNReceived(Fresh, pkt)
  OBVIOUS
<1>4. /\ c \in Conn /\ c.seq = total["server"] /\ c.id = count["server"]
      /\ c.ack = (pkt.seq + 1) % SeqWrap
  BY <1>2, <1>3, SYNReceivedInStep
<1>5. Shakes("server", c, "SYN+ACK", rest)
  BY <1>3
<1>6. /\ newest' \in [Endpoint -> [inc : Nat, end : Nat, ackOf : Nat]]
      /\ newest'["server"].ackOf = pkt.inc
      /\ \A f \in Endpoint : f # "server" => newest'[f] = newest[f]
  BY <1>1, NewestOf
<1> QED BY <1>1, <1>4, <1>5, <1>6, AnswerStep

LEMMA AcceptStep ==
  ASSUME IInv, NumbersLast, NumbersLast', Accept
  PROVE  IInv'
<1>0. TypeOK /\ AllSent
  BY DEF IInv
<1>1. /\ backlog # <<>> /\ conn["server"] = NoConn /\ backlog' = Tail(backlog) /\ UNCHANGED inc
      /\ Shakes("server", SYNReceived(Fresh, Head(backlog)), "SYN+ACK", net)
      /\ newest' = [newest EXCEPT !["server"] = Newest(newest["server"], Head(backlog), TRUE)]
  BY DEF Accept, Shakes
<1>2. PICK pkt : pkt = Head(backlog)
  OBVIOUS
<1>3. /\ pkt \in Pkt /\ Sent(pkt) /\ pkt.to = "server" /\ backlog' \in Seq(Pkt)
      /\ \A k \in 1 .. Len(backlog') : \E j \in 1 .. Len(backlog) : backlog'[k] = backlog[j]
  BY <1>0, <1>1, <1>2, BacklogTail DEF AllSent
<1>4. pkt.kind \in {"SYN", "SYN+ACK"}
  BY <1>0, <1>1, <1>2, BacklogTail DEF AllSent
<1>5. net \in SUBSET Wire
  BY DEF Wire
<1> QED BY <1>1, <1>2, <1>3, <1>4, <1>5, FirstAnswerStep

LEMMA MulticastSYNStep ==
  ASSUME IInv, NumbersLast, NumbersLast', NEW pkt \in net, MulticastSYN(pkt)
  PROVE  IInv'
<1>0. TypeOK /\ pkt \in Pkt /\ Sent(pkt)
  BY DEF IInv, TypeOK, AllSent
<1>1. /\ conn["server"] = NoConn /\ pkt.to = "server" /\ pkt.kind = "SYN"
      /\ newest' = [newest EXCEPT !["server"] = Newest(newest["server"], pkt, TRUE)]
      /\ UNCHANGED <<inc, backlog>>
  BY DEF MulticastSYN
<1>2. PICK r \in After(pkt) : Shakes("server", SYNReceived(Fresh, pkt), "SYN+ACK", r.net)
  BY DEF MulticastSYN, handshakeSYNACK, Handshake, Shakes
<1>3. r.net \in SUBSET Wire
  BY AfterIsWire
<1>4. /\ backlog' \in Seq(Pkt)
      /\ \A k \in 1 .. Len(backlog') : \E j \in 1 .. Len(backlog) : backlog'[k] = backlog[j]
  BY <1>0, <1>1, BacklogTail
<1> QED BY <1>0, <1>1, <1>2, <1>3, <1>4, FirstAnswerStep

LEMMA CaptureStep ==
  ASSUME IInv, NEW pkt \in net, Capture(pkt)
  PROVE  IInv'
<1>0. TypeOK /\ InStep /\ AllSent /\ AckIsOfSent /\ pkt \in Pkt /\ Sent(pkt)
  BY DEF IInv, TypeOK, AllSent
<1>1. /\ pkt.to = "server" /\ pkt.kind \in {"SYN", "SYN+ACK"} /\ backlog' = Append(backlog, pkt)
      /\ UNCHANGED <<conn, inc, total, count, newest>>
  BY DEF Capture
<1>2. net' \in SUBSET Wire
  BY AfterIsWire DEF Capture
<1>3. /\ net' \in SUBSET Pkt /\ (\A p \in net' : Sent(p)') /\ \A p, q \in net' : InTurn(p, q)
  BY <1>1, <1>2, NothingIsSent
<1>4. /\ backlog' \in Seq(Pkt) /\ Len(backlog') = Len(backlog) + 1 /\ Len(backlog) \in Nat
      /\ backlog'[Len(backlog) + 1] = pkt
      /\ \A k \in 1 .. Len(backlog) : backlog'[k] = backlog[k]
  <2>1. backlog \in Seq(Pkt)
    BY <1>0 DEF TypeOK
  <2> QED BY <1>0, <1>1, <2>1, AppendProperties, LenProperties
<1>5. TypeOK' /\ InStep' /\ AckIsOfSent'
  BY <1>0, <1>1, <1>3, <1>4 DEF TypeOK, InStep, AckIsOfSent
<1>7. \A p : Sent(p) => Sent(p)'
  BY <1>1 DEF Sent
<1>8. ASSUME NEW k \in 1 .. Len(backlog')
      PROVE  Sent(backlog[k])' /\ backlog'[k].to = "server" /\ backlog'[k].kind \in {"SYN", "SYN+ACK"}
  <2>1. PICK p : p = backlog'[k]
    OBVIOUS
  <2>2. Sent(p) /\ p.to = "server" /\ p.kind \in {"SYN", "SYN+ACK"}
    <3>1. CASE k \in 1 .. Len(backlog)
      BY <1>0, <1>4, <2>1, <3>1 DEF AllSent
    <3>2. CASE k = Len(backlog) + 1
      BY <1>0, <1>1, <1>4, <2>1, <3>2
    <3> QED BY <1>4, <3>1, <3>2
  <2>3. Sent(p)'
    BY <1>7, <2>2
  <2> QED BY <2>1, <2>2, <2>3
<1>9. AllSent'
  BY <1>3, <1>8 DEF AllSent, InTurn
<1> QED BY <1>5, <1>9 DEF IInv

-----------------------------------------------------------------------------
(* The theorems.                                                           *)

LEMMA InitStep ==
  ASSUME Init
  PROVE  IInv
<1>1. /\ conn = [e \in Endpoint |-> NoConn] /\ backlog = <<>> /\ net = {}
      /\ inc = [e \in Endpoint |-> 1] /\ total = [e \in Endpoint |-> 0]
      /\ count = [e \in Endpoint |-> 0] /\ newest = [e \in Endpoint |-> NothingRead]
  BY DEF Init
<1>2. TypeOK
  BY <1>1 DEF TypeOK, NothingRead
<1>3. InStep /\ AllSent
  BY <1>1 DEF InStep, AllSent
<1>4. AckIsOfSent
  BY <1>1, PeerOfPeer DEF AckIsOfSent, NothingRead
<1> QED BY <1>2, <1>3, <1>4 DEF IInv

LEMMA NextStep ==
  ASSUME IInv, NumbersLast, NumbersLast', [Next]_vars
  PROVE  IInv'
<1>0. TypeOK
  BY DEF IInv
<1>1. /\ backlog \in Seq(Pkt)
      /\ \A k \in 1 .. Len(backlog) : \E j \in 1 .. Len(backlog) : backlog[k] = backlog[j]
  BY <1>0, BacklogTail
<1>2. CASE UNCHANGED vars
  BY <1>1, <1>2, NothingIsWritten DEF vars, Wire
<1>3. CASE DialFakeTCP
  BY <1>3, DialStep
<1>4. CASE Publish
  <2>1. PICK r : r = [net |-> net, cost |-> 1]
    OBVIOUS
  <2>2. "client" \in Endpoint /\ r.net \in SUBSET Wire
    BY <2>1 DEF Endpoint, Wire
  <2> QED BY <1>4, <2>1, <2>2, ReconnectStep DEF Publish
<1>5. CASE \E e \in Endpoint, l \in Length : WriteTo(e, l)
  BY <1>5, WriteToStep
<1>6. CASE \E e \in Endpoint, l \in Length : \E k \in 0 .. Segments(l) - 1 : WriteToError(e, l, k)
  BY <1>6, WriteToErrorStep
<1>7. CASE \E pkt \in net : Lose(pkt)
  BY <1>1, <1>7, NothingIsWritten DEF Lose, Wire
<1>8. CASE \E e \in Endpoint, pkt \in net : ReadFrom(e, pkt)
  BY <1>8, ReadFromStep
<1>9. CASE \E pkt \in net : MulticastRST(pkt)
  <2>1. PICK pkt \in net : Ends("server", net \ {pkt})
    BY <1>9 DEF MulticastRST
  <2>2. "server" \in Endpoint /\ net \ {pkt} \in SUBSET net
    BY DEF Endpoint
  <2> QED BY <2>1, <2>2, EndsStep
<1>10. CASE \E pkt \in net : MulticastSYN(pkt)
  BY <1>10, MulticastSYNStep
<1>11. CASE \E pkt \in net : Ignored(pkt)
  <2>1. net' \in SUBSET Wire /\ UNCHANGED <<conn, backlog, inc, total, count, newest>>
    BY <1>11, AfterIsWire DEF Ignored
  <2> QED BY <1>1, <2>1, NothingIsWritten
<1>12. CASE \E pkt \in net : Capture(pkt)
  BY <1>12, CaptureStep
<1>13. CASE Accept
  BY <1>13, AcceptStep
<1>14. CASE AcceptError \/ AcceptDuplicate
  <2>1. /\ backlog # <<>> /\ backlog' = Tail(backlog)
        /\ net' \in SUBSET Wire /\ UNCHANGED <<conn, inc, total, count, newest>>
    BY <1>14 DEF AcceptError, AcceptDuplicate, Wire
  <2> QED BY <1>0, <2>1, BacklogTail, NothingIsWritten
<1>15. CASE \E e \in Endpoint : Restart(e)
  BY <1>15, EndsStep DEF Restart
<1> QED BY <1>2, <1>3, <1>4, <1>5, <1>6, <1>7, <1>8, <1>9, <1>10, <1>11, <1>12, <1>13, <1>14, <1>15
        DEF Next

\* IInv holds in every state, whatever is lost, repeated, reordered, reset or
\* not written, and whoever restarts.
THEOREM Inductive == Spec /\ []NumbersLast => []IInv
<1>1. Init => IInv
  BY InitStep
<1>2. IInv /\ NumbersLast /\ NumbersLast' /\ [Next]_vars => IInv'
  BY NextStep
<1> QED BY <1>1, <1>2, PTL DEF Spec

\* Neither endpoint acknowledges what the peer that runs now has not sent
\* (AckWithinSent).
THEOREM AcksAreOfSent == Spec /\ []NumbersLast => []AckWithinSent
<1>1. IInv => AckWithinSent
  <2> SUFFICES ASSUME IInv, NEW e \in Endpoint, conn[e] # NoConn, conn[Peer(e)] # NoConn,
                      newest[e].ackOf = inc[Peer(e)]
               PROVE  conn[e].ack <= conn[Peer(e)].seq
    BY DEF AckWithinSent
  <2>1. Peer(e) \in Endpoint
    BY PeerOfPeer
  <2> QED BY <2>1 DEF IInv, InStep, AckIsOfSent
<1> QED BY <1>1, Inductive, PTL

\* The packets of a process that are on their way at the same time differ in
\* their Ids, and those of two messages do not overlap, for messages of one or
\* two packets, writes that fail midway apart, as long as the numbers of the
\* process do not wrap (PacketsAreDistinguishable).
THEOREM PacketsDiffer == Spec /\ []NumbersLast => []PacketsAreDistinguishable
<1>1. IInv => PacketsAreDistinguishable
  <2> SUFFICES ASSUME IInv, NEW p \in net, NEW q \in net, p.to = q.to, p.inc = q.inc, p.n # q.n,
                      p.write = "done", q.write = "done"
               PROVE  /\ p.id # q.id
                      /\ \/ p.first = q.first
                         \/ p.seq + Size(p.kind, p.len) <= q.seq
                         \/ q.seq + Size(q.kind, q.len) <= p.seq
    BY DEF PacketsAreDistinguishable
  <2>1. /\ p \in Pkt /\ q \in Pkt /\ Sent(p) /\ Sent(q) /\ InTurn(p, q) /\ InTurn(q, p)
    BY DEF IInv, TypeOK, AllSent
  <2>2. p.first \in Nat /\ q.first \in Nat /\ p.inc \in Nat
    BY <2>1 DEF Pkt
  <2>3. p.inc > 0
    BY <2>1, <2>2 DEF Sent
  <2>4. /\ p.id = p.n /\ p.seq + Size(p.kind, p.len) = p.end
        /\ q.id = q.n /\ q.seq + Size(q.kind, q.len) = q.end
    BY <2>1, <2>3 DEF Sent
  <2>5. p.first = q.first \/ p.end <= q.seq \/ q.end <= p.seq
    BY <2>1, <2>2 DEF InTurn
  <2> QED BY <2>4, <2>5
<1> QED BY <1>1, Inductive, PTL

-----------------------------------------------------------------------------
(* An orderly network, with sequence numbers that wrap.                    *)

\* Nothing goes wrong but that the client is started again, and no message is
\* split.
Orderly == Faults = {} /\ "server" \notin Restartable /\ MessagesFit

Start(p) == p.end - Size(p.kind, p.len)

\* Where an endpoint goes on: as a packet without payload, the one that it
\* sends next.
Coming(s) ==
  [to |-> Peer(s), kind |-> "ACK", seq |-> 0, ack |-> 0, id |-> 0, len |-> 0,
   inc |-> inc[s], n |-> count[s], end |-> total[s], first |-> count[s], write |-> "done"]

\* What is on its way to an endpoint and what will be.
Line(e) == {p \in net : p.to = e} \cup {Coming(Peer(e))}

\* The packets of a process follow each other without a gap, and no packet of
\* a process arrived while one of an earlier process was on its way.
Chain(L) ==
  /\ \A p, q \in L : p.inc = q.inc /\ p.n = q.n => p = q
  /\ \A p, q \in L : p.inc = q.inc /\ q.n = p.n + 1 => Start(q) = p.end
  /\ \A p, q \in L, m \in Nat : p.inc = q.inc /\ p.n < m /\ m < q.n =>
       \E r \in L : r.inc = p.inc /\ r.n = m
  /\ \A p, q \in L : q.inc < p.inc => \E r \in L : r.inc = p.inc /\ r.n = 0

IsFirst(p, L) == \A q \in L : q.inc = p.inc => p.n <= q.n

\* The first packet of a process goes on where the reader is, or it is a SYN,
\* or the reader has read no more than a SYN.
GoesOn(h, L) ==
  \A p \in L :
    /\ h.inc <= p.inc
    /\ IsFirst(p, L) =>
         \/ h.end <= 1
         \/ p.inc = h.inc /\ Start(p) = h.end
         \/ p.inc > h.inc /\ p.n = 0

\* No packet of a process has arrived yet.
WholeStreams(L) == \A p \in L : \E r \in L : r.inc = p.inc /\ r.n = 0

NoneOlder(i, L) == \A p \in L : i <= p.inc

\* How a packet is numbered.
Numbered(p) ==
  /\ p.kind # "RST" /\ p.inc > 0 /\ Start(p) \in Nat /\ p.seq = Start(p) % SeqWrap
  /\ p.n = 0 => p.kind \in {"SYN", "SYN+ACK"} /\ p.end = 1
  /\ p.kind = "DATA" => p.len \in 1 .. (SeqWrap - 1) /\ Start(p) >= 1
  /\ p.kind # "DATA" => p.len = 0
  /\ p.inc < inc[Peer(p.to)] \/ (p.inc = inc[Peer(p.to)] /\ p.n < count[Peer(p.to)])

SeqIsTotal ==
  \A e \in Endpoint :
    IF conn[e] = NoConn THEN total[e] = 0 /\ count[e] = 0
    ELSE conn[e].seq = total[e] % SeqWrap /\ total[e] > 0 /\ count[e] > 0

OnTheirWay ==
  /\ \A p \in net : Numbered(p)
  /\ \A e \in Endpoint : Chain(Line(e))

Follows ==
  \A e \in Endpoint :
    IF conn[e] = NoConn THEN newest[e] = NothingRead
    ELSE conn[e].ack = newest[e].end % SeqWrap /\ GoesOn(newest[e], Line(e))

\* The first SYN that is captured is the first packet of a client.
ListenerWaits ==
  /\ multicast => backlog = <<>>
  /\ conn["server"] = NoConn /\ ~multicast =>
       IF backlog = <<>>
       THEN WholeStreams(Line("server"))
       ELSE /\ backlog[1].seq = 0 /\ backlog[1].end = 1 /\ backlog[1].inc > 0
            /\ NoneOlder(backlog[1].inc, Line("server"))

OInv == TypeOK /\ process = "running" /\ SeqIsTotal /\ OnTheirWay /\ Follows /\ ListenerWaits

LEMMA Division ==
  ASSUME NEW a \in Nat, NEW w \in Nat \ {0}
  PROVE  a % w \in 0 .. (w - 1) /\ \E q \in Nat : a = w * q + (a % w)
<1>1. a % w \in 0 .. (w - 1)
  OBVIOUS
<1>2. a \div w \in Nat /\ a = w * (a \div w) + (a % w)
  OBVIOUS
<1> QED BY <1>1, <1>2

LEMMA Remainder ==
  ASSUME NEW w \in Nat \ {0}, NEW q \in Nat, NEW r \in 0 .. (w - 1)
  PROVE  (w * q + r) % w = r
OBVIOUS

\* A sum wraps in one go as it does in two.
LEMMA WrapOfSum ==
  ASSUME NEW a \in Nat, NEW b \in Nat, NEW w \in Nat \ {0}
  PROVE  ((a % w) + b) % w = (a + b) % w
<1>1. PICK q \in Nat : a = w * q + (a % w)
  BY Division
<1>2. PICK c \in 0 .. (w - 1) : c = a % w
  BY Division
<1>3. c + b \in Nat
  OBVIOUS
<1>4. PICK p \in Nat : c + b = w * p + ((c + b) % w)
  BY <1>3, Division
<1>5. PICK r \in 0 .. (w - 1) : r = (c + b) % w
  BY <1>3, Division
<1>6. a + b = w * (q + p) + r
  BY <1>1, <1>2, <1>4, <1>5
<1>7. (w * (q + p) + r) % w = r
  BY Remainder
<1> QED BY <1>2, <1>5, <1>6, <1>7

LEMMA PktFacts ==
  ASSUME NEW p \in Pkt
  PROVE  p.n \in Nat /\ p.inc \in Nat /\ p.end \in Nat /\ p.len \in Nat /\ p.seq \in Nat /\ Start(p) \in Int
<1>1. p.n \in Nat /\ p.inc \in Nat /\ p.end \in Nat /\ p.len \in Nat /\ p.seq \in Nat
  BY DEF Pkt
<1> QED BY <1>1, SizeType DEF Start

\* The packet that is first of all is taken from the line.
LEMMA LineWithoutFirst ==
  ASSUME NEW L \in SUBSET Pkt, Chain(L), NEW pkt \in L,
         \A p \in L : p.inc > pkt.inc \/ (p.inc = pkt.inc /\ p.n >= pkt.n)
  PROVE  /\ Chain(L \ {pkt})
         /\ \A p \in L \ {pkt} :
              /\ pkt.inc <= p.inc
              /\ IsFirst(p, L \ {pkt}) => \/ p.inc = pkt.inc /\ Start(p) = pkt.end
                                          \/ p.inc > pkt.inc /\ p.n = 0
<1> DEFINE M == L \ {pkt}
<1>0. /\ \A p \in L : p.n \in Nat /\ p.inc \in Nat
      /\ pkt.n \in Nat /\ pkt.inc \in Nat
  BY PktFacts
<1>1. \A p, q \in L : p.inc = q.inc /\ p.n = q.n => p = q
  BY DEF Chain
<1>2. \A p, q \in L : p.inc = q.inc /\ q.n = p.n + 1 => Start(q) = p.end
  BY DEF Chain
<1>3. \A p, q \in L, m \in Nat : p.inc = q.inc /\ p.n < m /\ m < q.n =>
        \E r \in L : r.inc = p.inc /\ r.n = m
  BY DEF Chain
<1>4. \A p, q \in L : q.inc < p.inc => \E r \in L : r.inc = p.inc /\ r.n = 0
  BY DEF Chain
<1>5. ASSUME NEW p \in M, NEW q \in M, NEW m \in Nat, p.inc = q.inc, p.n < m, m < q.n
      PROVE  \E r \in M : r.inc = p.inc /\ r.n = m
  <2>1. PICK r \in L : r.inc = p.inc /\ r.n = m
    BY <1>3, <1>5
  <2>2. p.inc = pkt.inc => p.n >= pkt.n
    BY <1>0
  <2>3. r # pkt
    BY <1>0, <1>5, <2>1, <2>2
  <2> QED BY <2>1, <2>3
<1>6. ASSUME NEW p \in M, NEW q \in M, q.inc < p.inc
      PROVE  \E r \in M : r.inc = p.inc /\ r.n = 0
  <2>1. PICK r \in L : r.inc = p.inc /\ r.n = 0
    BY <1>4, <1>6
  <2>2. pkt.inc <= q.inc
    BY <1>0
  <2>3. r # pkt
    BY <1>0, <1>6, <2>1, <2>2
  <2> QED BY <2>1, <2>3
<1>7. Chain(M)
  BY <1>1, <1>2, <1>5, <1>6 DEF Chain
<1>8. ASSUME NEW p \in M, IsFirst(p, M), p.inc = pkt.inc PROVE Start(p) = pkt.end
  <2>1. p.n # pkt.n /\ p.n >= pkt.n
    BY <1>0, <1>1, <1>8
  <2>2. CASE p.n = pkt.n + 1
    BY <1>2, <1>8, <2>2
  <2>3. CASE p.n > pkt.n + 1
    <3>1. pkt.n + 1 \in Nat /\ pkt.n < pkt.n + 1
      BY <1>0
    <3>2. PICK r \in L : r.inc = pkt.inc /\ r.n = pkt.n + 1
      BY <1>3, <1>8, <2>3, <3>1
    <3>3. r \in M
      BY <1>0, <3>2
    <3>4. p.n <= r.n
      BY <1>8, <3>2, <3>3 DEF IsFirst
    <3> QED BY <1>0, <2>3, <3>2, <3>4
  <2> QED BY <1>0, <2>1, <2>2, <2>3
<1>9. ASSUME NEW p \in M, IsFirst(p, M), p.inc > pkt.inc PROVE p.n = 0
  <2>1. PICK r \in L : r.inc = p.inc /\ r.n = 0
    BY <1>0, <1>4, <1>9
  <2>2. r \in M
    BY <1>0, <1>9, <2>1
  <2>3. p.n <= r.n
    BY <1>9, <2>1, <2>2 DEF IsFirst
  <2> QED BY <1>0, <2>1, <2>3
<1>10. ASSUME NEW p \in M PROVE pkt.inc <= p.inc /\ (p.inc = pkt.inc \/ p.inc > pkt.inc)
  BY <1>0
<1> QED BY <1>7, <1>8, <1>9, <1>10

\* The packet that was to come is sent, and another one is to come.
LEMMA LineWithAnother ==
  ASSUME NEW T \in SUBSET Pkt, NEW c \in Pkt, Chain(T \cup {c}),
         \A p \in T : p.inc < c.inc \/ (p.inc = c.inc /\ p.n < c.n),
         NEW w \in Pkt, w.inc = c.inc, w.n = c.n, Start(w) = Start(c),
         NEW d \in Pkt, d.inc = c.inc, d.n = c.n + 1, Start(d) = w.end
  PROVE  /\ Chain(T \cup {w, d})
         /\ \A h : GoesOn(h, T \cup {c}) => GoesOn(h, T \cup {w, d})
<1> DEFINE L == T \cup {c}
           M == T \cup {w, d}
<1>0. /\ \A p \in T : p.n \in Nat /\ p.inc \in Nat
      /\ c.n \in Nat /\ c.inc \in Nat /\ w.n \in Nat /\ d.n \in Nat
  BY PktFacts
<1>1. \A p, q \in M : p.inc = q.inc /\ p.n = q.n => p = q
  <2>1. \A p, q \in T : p.inc = q.inc /\ p.n = q.n => p = q
    BY DEF Chain
  <2> QED BY <1>0, <2>1
<1>2. ASSUME NEW p \in M, NEW q \in M, p.inc = q.inc, q.n = p.n + 1 PROVE Start(q) = p.end
  <2>0. \A r, s \in L : r.inc = s.inc /\ s.n = r.n + 1 => Start(s) = r.end
    BY DEF Chain
  <2>1. CASE p \in T /\ q \in T
    BY <1>2, <2>0, <2>1
  <2>2. CASE p \in T /\ q = w
    BY <1>2, <2>0, <2>2
  <2>3. CASE p \in T /\ q = d
    BY <1>0, <1>2, <2>3
  <2>4. CASE p = w /\ q \in T
    BY <1>0, <1>2, <2>4
  <2>5. CASE p = w /\ q = d
    BY <2>5
  <2>6. CASE p = d
    BY <1>0, <1>2, <2>6
  <2>7. CASE p = w /\ q = w
    BY <1>0, <1>2, <2>7
  <2> QED BY <2>1, <2>2, <2>3, <2>4, <2>5, <2>6, <2>7
<1>3. ASSUME NEW p \in M, NEW q \in M, NEW m \in Nat, p.inc = q.inc, p.n < m, m < q.n
      PROVE  \E r \in M : r.inc = p.inc /\ r.n = m
  <2>1. p \in T
    BY <1>0, <1>3
  <2>2. CASE q \in T
    <3>1. PICK r \in L : r.inc = p.inc /\ r.n = m
      BY <1>3, <2>1, <2>2 DEF Chain
    <3> QED BY <1>0, <1>3, <2>2, <3>1
  <2>3. CASE q \notin T /\ m = c.n
    BY <1>3, <2>3
  <2>4. CASE q \notin T /\ m # c.n
    <3>1. m < c.n /\ p.inc = c.inc
      BY <1>0, <1>3, <2>4
    <3>2. PICK r \in L : r.inc = p.inc /\ r.n = m
      BY <1>3, <2>1, <3>1 DEF Chain
    <3> QED BY <2>4, <3>2
  <2> QED BY <2>2, <2>3, <2>4
<1>4. ASSUME NEW p \in M, NEW q \in M, q.inc < p.inc
      PROVE  \E r \in M : r.inc = p.inc /\ r.n = 0
  <2>1. q \in T
    BY <1>0, <1>4
  <2>2. PICK s \in L : s.inc = p.inc
    BY <1>4
  <2>3. PICK r \in L : r.inc = p.inc /\ r.n = 0
    BY <1>4, <2>1, <2>2 DEF Chain
  <2> QED BY <2>3
<1>5. Chain(M)
  BY <1>1, <1>2, <1>3, <1>4 DEF Chain
<1>6. ASSUME NEW h, GoesOn(h, L), NEW p \in M
      PROVE  /\ h.inc <= p.inc
             /\ IsFirst(p, M) => \/ h.end <= 1
                                 \/ p.inc = h.inc /\ Start(p) = h.end
                                 \/ p.inc > h.inc /\ p.n = 0
  <2>1. h.inc <= p.inc
    BY <1>6 DEF GoesOn
  <2>2. ASSUME NEW r \in L, IsFirst(r, L)
        PROVE  h.end <= 1 \/ (r.inc = h.inc /\ Start(r) = h.end) \/ (r.inc > h.inc /\ r.n = 0)
    BY <1>6, <2>2 DEF GoesOn
  <2>3. CASE p \in T /\ IsFirst(p, M)
    <3>1. IsFirst(p, L)
      BY <2>3 DEF IsFirst
    <3> QED BY <2>1, <2>2, <2>3, <3>1
  <2>4. CASE p = w /\ IsFirst(p, M)
    <3>1. IsFirst(c, L)
      BY <1>0, <2>4 DEF IsFirst
    <3> QED BY <2>1, <2>2, <2>4, <3>1
  <2>5. CASE p = d
    <3>1. ~IsFirst(p, M)
      BY <1>0, <2>5 DEF IsFirst
    <3> QED BY <2>1, <3>1
  <2> QED BY <2>1, <2>3, <2>4, <2>5
<1>7. \A h : GoesOn(h, L) => GoesOn(h, M)
  BY <1>6 DEF GoesOn
<1> QED BY <1>5, <1>7

\* The process that sends is started again.
LEMMA LineOfRestarted ==
  ASSUME NEW T \in SUBSET Pkt, NEW c \in Pkt, Chain(T \cup {c}),
         \A p \in T : p.inc < c.inc \/ (p.inc = c.inc /\ p.n < c.n),
         NEW d \in Pkt, d.inc = c.inc + 1, d.n = 0
  PROVE  /\ Chain(T \cup {d})
         /\ \A h \in [inc : Nat, end : Nat, ackOf : Nat] :
              GoesOn(h, T \cup {c}) => GoesOn(h, T \cup {d})
<1> DEFINE L == T \cup {c}
           M == T \cup {d}
<1>0. /\ \A p \in T : p.n \in Nat /\ p.inc \in Nat
      /\ c.n \in Nat /\ c.inc \in Nat /\ d.inc \in Nat
  BY PktFacts
<1>1. \A p, q \in M : p.inc = q.inc /\ p.n = q.n => p = q
  <2>1. \A p, q \in T : p.inc = q.inc /\ p.n = q.n => p = q
    BY DEF Chain
  <2> QED BY <1>0, <2>1
<1>2. ASSUME NEW p \in M, NEW q \in M, p.inc = q.inc, q.n = p.n + 1 PROVE Start(q) = p.end
  <2>0. \A r, s \in L : r.inc = s.inc /\ s.n = r.n + 1 => Start(s) = r.end
    BY DEF Chain
  <2>1. CASE p \in T /\ q \in T
    BY <1>2, <2>0, <2>1
  <2>2. CASE p = d \/ q = d
    BY <1>0, <1>2, <2>2
  <2> QED BY <2>1, <2>2
<1>3. ASSUME NEW p \in M, NEW q \in M, NEW m \in Nat, p.inc = q.inc, p.n < m, m < q.n
      PROVE  \E r \in M : r.inc = p.inc /\ r.n = m
  <2>1. p \in T /\ q \in T
    BY <1>0, <1>3
  <2>2. PICK r \in L : r.inc = p.inc /\ r.n = m
    BY <1>3, <2>1 DEF Chain
  <2> QED BY <1>0, <1>3, <2>1, <2>2
<1>4. ASSUME NEW p \in M, NEW q \in M, q.inc < p.inc
      PROVE  \E r \in M : r.inc = p.inc /\ r.n = 0
  <2>1. CASE p = d
    BY <2>1
  <2>2. CASE p \in T
    <3>1. q \in T
      BY <1>0, <1>4, <2>2
    <3>2. PICK r \in L : r.inc = p.inc /\ r.n = 0
      BY <1>4, <2>2, <3>1 DEF Chain
    <3>3. r # c
      BY <1>0, <2>2, <3>2
    <3> QED BY <3>2, <3>3
  <2> QED BY <2>1, <2>2
<1>5. Chain(M)
  BY <1>1, <1>2, <1>3, <1>4 DEF Chain
<1>6. ASSUME NEW h \in [inc : Nat, end : Nat, ackOf : Nat], GoesOn(h, L), NEW p \in M
      PROVE  /\ h.inc <= p.inc
             /\ IsFirst(p, M) => \/ h.end <= 1
                                 \/ p.inc = h.inc /\ Start(p) = h.end
                                 \/ p.inc > h.inc /\ p.n = 0
  <2>1. CASE p = d
    <3>1. h.inc <= c.inc /\ h.inc \in Nat
      BY <1>6 DEF GoesOn
    <3> QED BY <1>0, <2>1, <3>1
  <2>2. CASE p \in T
    <3>1. IsFirst(p, M) => IsFirst(p, L)
      BY <1>0, <2>2 DEF IsFirst
    <3> QED BY <1>6, <2>2, <3>1 DEF GoesOn
  <2> QED BY <2>1, <2>2
<1>7. \A h \in [inc : Nat, end : Nat, ackOf : Nat] : GoesOn(h, L) => GoesOn(h, M)
  BY <1>6 DEF GoesOn
<1> QED BY <1>5, <1>7

LEMMA OrderlyFacts ==
  ASSUME OInv
  PROVE  TypeOK /\ process = "running" /\ SeqIsTotal /\ OnTheirWay /\ Follows /\ ListenerWaits
BY DEF OInv

LEMMA LineFacts ==
  ASSUME TypeOK, \A p \in net : Numbered(p), NEW e \in Endpoint
  PROVE  LET T == {p \in net : p.to = e}
             c == Coming(Peer(e))
         IN /\ T \in SUBSET Pkt /\ c \in Pkt /\ Line(e) = T \cup {c}
            /\ c.inc = inc[Peer(e)] /\ c.n = count[Peer(e)] /\ Start(c) = total[Peer(e)]
            /\ \A p \in T : p.inc < c.inc \/ (p.inc = c.inc /\ p.n < c.n)
            /\ c \notin T
<1> DEFINE T == {p \in net : p.to = e}
           c == Coming(Peer(e))
<1>1. Peer(e) \in Endpoint /\ Peer(Peer(e)) = e
  BY PeerOfPeer
<1>2. inc[Peer(e)] \in Nat /\ count[Peer(e)] \in Nat /\ total[Peer(e)] \in Nat /\ T \in SUBSET Pkt
  BY <1>1 DEF TypeOK
<1>3. c \in Pkt
  BY <1>1, <1>2 DEF Coming, Pkt
<1>4. c.inc = inc[Peer(e)] /\ c.n = count[Peer(e)] /\ Start(c) = total[Peer(e)]
  BY <1>2 DEF Coming, Start, Size
<1>5. \A p \in T : p.inc < c.inc \/ (p.inc = c.inc /\ p.n < c.n)
  BY <1>4 DEF Numbered
<1>6. c \notin T
  BY <1>2, <1>4, <1>5
<1> QED BY <1>2, <1>3, <1>4, <1>5, <1>6 DEF Line

\* What an endpoint with the connection state c can write.
CanWrite(e, c, kind, len) ==
  /\ c.seq = total[e] % SeqWrap
  /\ kind = "DATA" => len \in 1 .. (SeqWrap - 1)
  /\ kind # "DATA" => len = 0
  /\ conn[e] = NoConn => kind \in {"SYN", "SYN+ACK"}

\* It writes it; R are packets that arrived at it.
Writes(e, c, kind, len, R) ==
  /\ net' = (net \ R) \cup {Packet(e, c, kind, 0, len)}
  /\ conn' = [conn EXCEPT ![e] = [c EXCEPT !.seq = (c.seq + Size(kind, len)) % SeqWrap,
                                          !.id = (c.id + 1) % IdWrap]]
  /\ total' = [total EXCEPT ![e] = total[e] + Size(kind, len)]
  /\ count' = [count EXCEPT ![e] = count[e] + 1]
  /\ inc' = inc

\* What is left on its way to e.
Left(e, R) == Line(e) \ R

\* What is sent has been written by an endpoint whose ack stays as c has it.
StateAfter(e, c) ==
  /\ conn' \in [Endpoint -> Conn \cup {NoConn}] /\ net' \in SUBSET Pkt
  /\ total' \in [Endpoint -> Nat] /\ count' \in [Endpoint -> Nat]
  /\ conn'[e] # NoConn /\ conn'[e].ack = c.ack
  /\ \A g \in Endpoint : g # e => conn'[g] = conn[g]
  /\ SeqIsTotal'
  /\ \A p \in net' : Numbered(p)'

\* How the lines to the endpoint, of which R arrived, and to its peer go on.
LinesAfter(e, f, R) ==
  /\ Chain(Left(e, R)) => Chain(Line(e)')
  /\ \A h : GoesOn(h, Left(e, R)) => GoesOn(h, Line(e)')
  /\ Chain(Line(f)')
  /\ \A h : GoesOn(h, Line(f)) => GoesOn(h, Line(f)')
  /\ WholeStreams(Line(f)) => WholeStreams(Line(f)')
  /\ \A i : NoneOlder(i, Line(f)) => NoneOlder(i, Line(f)')

LEMMA WriteKeeps ==
  ASSUME OInv, NEW e \in Endpoint, NEW f, f = Peer(e), NEW c \in Conn,
         NEW kind \in {"SYN", "SYN+ACK", "ACK", "DATA"}, NEW len \in Nat, CanWrite(e, c, kind, len),
         NEW R \in SUBSET {p \in net : p.to = e}, Writes(e, c, kind, len, R)
  PROVE  StateAfter(e, c) /\ LinesAfter(e, f, R)
<1> USE DEF CanWrite, Writes
<1> PICK s : s = Size(kind, len)
  OBVIOUS
<1> PICK w : w = Packet(e, c, kind, 0, len)
  OBVIOUS
<1>0. /\ TypeOK /\ SeqIsTotal /\ OnTheirWay /\ s \in Nat
      /\ \A p \in net : Numbered(p)
  BY SizeType DEF OInv, OnTheirWay
<1>1. /\ total[e] \in Nat /\ count[e] \in Nat /\ inc[e] \in Nat /\ inc[e] > 0
      /\ \A g \in Endpoint : total[g] \in Nat /\ count[g] \in Nat /\ inc[g] \in Nat
      /\ SeqWrap \in Nat \ {0} /\ IdWrap \in Nat \ {0}
      /\ f \in Endpoint /\ f # e /\ Peer(f) = e
  <2>1. SeqWrap \in Nat \ {0} /\ IdWrap \in Nat \ {0}
    BY SizeAssumption
  <2>2. f \in Endpoint /\ f # e /\ Peer(f) = e
    BY PeerOfPeer
  <2>3. \A g \in Endpoint : total[g] \in Nat /\ count[g] \in Nat /\ inc[g] \in Nat /\ inc[g] > 0
    BY <1>0 DEF TypeOK
  <2> QED BY <2>1, <2>2, <2>3
<1>2. /\ total' \in [Endpoint -> Nat] /\ total'[e] = total[e] + s
      /\ \A g \in Endpoint : g # e => total'[g] = total[g]
      /\ count' \in [Endpoint -> Nat] /\ count'[e] = count[e] + 1
      /\ \A g \in Endpoint : g # e => count'[g] = count[g]
  <2>1. total \in [Endpoint -> Nat] /\ count \in [Endpoint -> Nat]
    BY <1>0 DEF TypeOK
  <2>2. total' = [total EXCEPT ![e] = total[e] + s] /\ total[e] + s \in Nat /\ count[e] + 1 \in Nat
    BY <1>0, <1>1
  <2>3. /\ total' \in [Endpoint -> Nat] /\ total'[e] = total[e] + s
        /\ \A g \in Endpoint : g # e => total'[g] = total[g]
    BY <2>1, <2>2
  <2>4. /\ count' \in [Endpoint -> Nat] /\ count'[e] = count[e] + 1
        /\ \A g \in Endpoint : g # e => count'[g] = count[g]
    BY <2>1, <2>2
  <2> QED BY <2>3, <2>4
<1>3. (c.seq + s) % SeqWrap = total'[e] % SeqWrap
  BY <1>0, <1>1, <1>2, WrapOfSum
<1>4. /\ conn' \in [Endpoint -> Conn \cup {NoConn}]
      /\ conn'[e] # NoConn /\ conn'[e].ack = c.ack /\ conn'[e].seq = total'[e] % SeqWrap
      /\ \A g \in Endpoint : g # e => conn'[g] = conn[g]
  <2> DEFINE k == [c EXCEPT !.seq = (c.seq + s) % SeqWrap, !.id = (c.id + 1) % IdWrap]
  <2>1. (c.seq + s) % SeqWrap \in Nat /\ (c.id + 1) % IdWrap \in Nat
    BY <1>0, <1>1 DEF Conn
  <2>2. k \in Conn /\ k.ack = c.ack /\ k.seq = (c.seq + s) % SeqWrap
    BY <2>1 DEF Conn
  <2>3. k # NoConn
    BY <2>2, NoConnAssumption DEF Conn
  <2>4. conn' = [conn EXCEPT ![e] = k]
    OBVIOUS
  <2> HIDE DEF k
  <2> QED BY <1>0, <1>3, <2>2, <2>3, <2>4 DEF TypeOK
<1>5. /\ conn[e] = NoConn => total[e] = 0 /\ count[e] = 0 /\ s = 1
      /\ conn[e] # NoConn => total[e] > 0 /\ count[e] > 0
  BY <1>0 DEF SeqIsTotal, Size
<1>6. SeqIsTotal'
  <2>1. total'[e] > 0 /\ count'[e] > 0
    BY <1>0, <1>1, <1>2, <1>5
  <2> QED BY <1>0, <1>2, <1>4, <2>1 DEF SeqIsTotal
<1>7. /\ w \in Pkt /\ w.to = f /\ w.inc = inc[e] /\ w.n = count[e] /\ w.seq = total[e] % SeqWrap
      /\ w.kind = kind /\ w.len = len /\ w.end = total[e] + s /\ Start(w) = total[e]
  <2>1. (c.id + 0) % IdWrap \in Nat /\ c.seq \in Nat /\ c.ack \in Nat
    BY <1>1 DEF Conn
  <2>2. w = [to |-> f, kind |-> kind, seq |-> c.seq, ack |-> c.ack, id |-> (c.id + 0) % IdWrap,
             len |-> len, inc |-> inc[e], n |-> count[e] + 0, end |-> total[e] + s,
             first |-> count[e], write |-> "done"]
    BY DEF Packet
  <2>3. count[e] + 0 = count[e]
    BY <1>1
  <2>4. total[e] + s \in Nat /\ (total[e] + s) - s = total[e]
    BY <1>0, <1>1
  <2>5. w \in Pkt
    BY <1>1, <2>1, <2>2, <2>3, <2>4 DEF Pkt
  <2>6. Start(w) = total[e]
    BY <2>2, <2>4 DEF Start
  <2> QED BY <2>2, <2>3, <2>5, <2>6
<1>8. net' = (net \ R) \cup {w} /\ net' \in SUBSET Pkt
  BY <1>0, <1>7 DEF TypeOK
<1>9. \A p \in net' : Numbered(p)'
  <2>1. Numbered(w)'
    <3>1. w.n = 0 => kind \in {"SYN", "SYN+ACK"} /\ w.end = 1
      BY <1>1, <1>5, <1>7
    <3>2. /\ kind = "DATA" => len \in 1 .. (SeqWrap - 1) /\ Start(w) >= 1
          /\ kind # "DATA" => len = 0
      BY <1>1, <1>5, <1>7
    <3>3. w.kind # "RST" /\ w.inc > 0 /\ Start(w) \in Nat /\ w.seq = Start(w) % SeqWrap
      BY <1>1, <1>7
    <3>4. w.inc = inc'[Peer(w.to)] /\ w.n < count'[Peer(w.to)]
      BY <1>1, <1>2, <1>7
    <3> QED BY <1>7, <3>1, <3>2, <3>3, <3>4 DEF Numbered
  <2>2. ASSUME NEW p \in net PROVE Numbered(p)'
    <3>1. p \in Pkt /\ p.n \in Nat
      BY <1>0 DEF TypeOK, Pkt
    <3>2. Numbered(p) /\ Peer(p.to) \in Endpoint
      BY <1>0, <3>1, PeerOfPeer DEF Pkt
    <3>3. p.n < count[Peer(p.to)] => p.n < count'[Peer(p.to)]
      BY <1>1, <1>2, <3>1, <3>2
    <3> QED BY <3>2, <3>3 DEF Numbered
  <2> QED BY <1>8, <2>1, <2>2
<1> DEFINE T == {p \in net : p.to = f}
<1>10. PICK b : b = Coming(e)
  OBVIOUS
<1>11. PICK d : d = Coming(e)'
  OBVIOUS
<1>12. /\ T \in SUBSET Pkt /\ b \in Pkt /\ Line(f) = T \cup {b}
       /\ b.inc = inc[e] /\ b.n = count[e] /\ Start(b) = total[e]
       /\ \A p \in T : p.inc < b.inc \/ (p.inc = b.inc /\ p.n < b.n)
  BY <1>0, <1>1, <1>10, LineFacts
<1>13. d \in Pkt /\ d.inc = inc[e] /\ d.n = count[e] + 1 /\ Start(d) = total[e] + s
  <2>1. d = [to |-> f, kind |-> "ACK", seq |-> 0, ack |-> 0, id |-> 0, len |-> 0,
             inc |-> inc[e], n |-> count[e] + 1, end |-> total[e] + s,
             first |-> count[e] + 1, write |-> "done"]
    BY <1>2, <1>11 DEF Coming
  <2> QED BY <1>0, <1>1, <2>1 DEF Pkt, Start, Size
<1>14. Line(f)' = T \cup {w, d}
  <2>1. {p \in net' : p.to = f} = T \cup {w}
    BY <1>1, <1>7, <1>8
  <2>2. Line(f)' = {p \in net' : p.to = f} \cup {Coming(e)'}
    BY <1>1 DEF Line
  <2> QED BY <1>11, <2>1, <2>2
<1>15. Chain(T \cup {b})
  BY <1>0, <1>1, <1>12 DEF OnTheirWay
<1>16. /\ Chain(T \cup {w, d})
       /\ \A h : GoesOn(h, T \cup {b}) => GoesOn(h, T \cup {w, d})
  <2> HIDE DEF T
  <2> QED BY <1>7, <1>12, <1>13, <1>15, LineWithAnother
<1>17. Line(e)' = Line(e) \ R
  <2>1. Coming(f)' = Coming(f)
    BY <1>1, <1>2 DEF Coming
  <2>2. Coming(f) \notin {p \in net : p.to = e}
    BY <1>0, LineFacts
  <2>3. {p \in net' : p.to = e} = {p \in net : p.to = e} \ R
    BY <1>1, <1>7, <1>8
  <2> QED BY <2>1, <2>2, <2>3 DEF Line
<1>18. /\ Chain(Left(e, R)) => Chain(Line(e)')
       /\ \A h : GoesOn(h, Left(e, R)) => GoesOn(h, Line(e)')
  BY <1>17 DEF Left
<1>19. WholeStreams(Line(f)) => WholeStreams(Line(f)')
  <2> SUFFICES ASSUME \A p \in T \cup {b} : \E r \in T \cup {b} : r.inc = p.inc /\ r.n = 0,
                      NEW p \in T \cup {w, d}
               PROVE  \E r \in T \cup {w, d} : r.inc = p.inc /\ r.n = 0
    BY <1>12, <1>14 DEF WholeStreams
  <2>1. PICK q \in T \cup {b} : q.inc = p.inc
    BY <1>7, <1>12, <1>13
  <2>2. PICK r \in T \cup {b} : r.inc = p.inc /\ r.n = 0
    BY <2>1
  <2> QED BY <1>7, <1>12, <2>2
<1>20. \A i : NoneOlder(i, Line(f)) => NoneOlder(i, Line(f)')
  BY <1>7, <1>12, <1>13, <1>14 DEF NoneOlder
<1> HIDE DEF T
<1>21. Chain(Line(f)')
  BY <1>14, <1>16
<1>22. \A h : GoesOn(h, Line(f)) => GoesOn(h, Line(f)')
  BY <1>12, <1>14, <1>16
<1> HIDE DEF Writes, CanWrite
<1>23. StateAfter(e, c)
  BY <1>2, <1>4, <1>6, <1>8, <1>9 DEF StateAfter
<1>24. LinesAfter(e, f, R)
  BY <1>18, <1>19, <1>20, <1>21, <1>22 DEF LinesAfter
<1> QED BY <1>23, <1>24

\* An endpoint that writes, of whose line R arrived, goes on to follow its peer.
FollowsOn(e, c, R) ==
  /\ UNCHANGED <<multicast, process>>
  /\ backlog' \in Seq(Pkt) /\ (multicast => backlog' = <<>>) /\ (e = "client" => backlog' = backlog)
  /\ newest' \in [Endpoint -> [inc : Nat, end : Nat, ackOf : Nat]]
  /\ \A g \in Endpoint : g # e => newest'[g] = newest[g]
  /\ c.ack = newest'[e].end % SeqWrap
  /\ Chain(Left(e, R)) /\ GoesOn(newest'[e], Left(e, R))
LEMMA OrderlySend ==
  ASSUME OInv, NEW e \in Endpoint, NEW c \in Conn,
         NEW kind \in {"SYN", "SYN+ACK", "ACK", "DATA"}, NEW len \in Nat, CanWrite(e, c, kind, len),
         NEW R \in SUBSET {p \in net : p.to = e}, Writes(e, c, kind, len, R), FollowsOn(e, c, R)
  PROVE  OInv'
<1>1. PICK f \in Endpoint : f = Peer(e) /\ f # e
  BY PeerOfPeer
<1>2. StateAfter(e, c) /\ LinesAfter(e, f, R)
  BY <1>1, WriteKeeps
<1>3. /\ conn' \in [Endpoint -> Conn \cup {NoConn}] /\ net' \in SUBSET Pkt
      /\ total' \in [Endpoint -> Nat] /\ count' \in [Endpoint -> Nat]
      /\ conn'[e] # NoConn /\ conn'[e].ack = c.ack
      /\ \A g \in Endpoint : g # e => conn'[g] = conn[g]
      /\ SeqIsTotal'
      /\ \A p \in net' : Numbered(p)'
  BY <1>2 DEF StateAfter
<1>4. Chain(Line(e)') /\ Chain(Line(f)') /\ GoesOn(newest'[e], Line(e)')
  BY <1>2 DEF LinesAfter, FollowsOn
<1>5. \A h : GoesOn(h, Line(f)) => GoesOn(h, Line(f)')
  BY <1>2 DEF LinesAfter
<1>6. /\ WholeStreams(Line(f)) => WholeStreams(Line(f)')
      /\ \A i : NoneOlder(i, Line(f)) => NoneOlder(i, Line(f)')
  BY <1>2 DEF LinesAfter
<1>7. /\ UNCHANGED <<multicast, process>>
      /\ backlog' \in Seq(Pkt) /\ (multicast => backlog' = <<>>) /\ (e = "client" => backlog' = backlog)
      /\ newest' \in [Endpoint -> [inc : Nat, end : Nat, ackOf : Nat]]
      /\ \A g \in Endpoint : g # e => newest'[g] = newest[g]
      /\ c.ack = newest'[e].end % SeqWrap
  BY DEF FollowsOn
<1>8. TypeOK /\ process = "running" /\ Follows /\ ListenerWaits
  BY OrderlyFacts
<1>9. TypeOK'
  BY <1>3, <1>7, <1>8 DEF TypeOK, Writes
<1>10. \A g \in Endpoint : g = e \/ g = f
  BY <1>1 DEF Endpoint, Peer
<1>11. OnTheirWay'
  BY <1>3, <1>4, <1>10 DEF OnTheirWay
<1>12. Follows'
  <2>1. conn'[e].ack = newest'[e].end % SeqWrap /\ GoesOn(newest'[e], Line(e)')
    BY <1>3, <1>4, <1>7
  <2>2. conn'[f] = conn[f] /\ newest'[f] = newest[f]
    BY <1>1, <1>3, <1>7
  <2>3. IF conn'[f] = NoConn THEN newest'[f] = NothingRead
        ELSE conn'[f].ack = newest'[f].end % SeqWrap /\ GoesOn(newest'[f], Line(f)')
    BY <1>1, <1>5, <1>8, <2>2 DEF Follows
  <2>4. ASSUME NEW g \in Endpoint
        PROVE  IF conn'[g] = NoConn THEN newest'[g] = NothingRead
               ELSE conn'[g].ack = newest'[g].end % SeqWrap /\ GoesOn(newest'[g], Line(g)')
    BY <1>3, <1>10, <2>1, <2>3
  <2> QED BY <2>4 DEF Follows, GoesOn, NothingRead
<1>13. ListenerWaits'
  <2>1. CASE e = "server"
    BY <1>3, <1>7, <2>1 DEF ListenerWaits
  <2>2. CASE e # "server"
    <3>1. e = "client" /\ f = "server" /\ backlog' = backlog /\ conn'["server"] = conn["server"]
      BY <1>1, <1>3, <1>7, <2>2 DEF Endpoint, Peer
    <3>2. ASSUME conn["server"] = NoConn, ~multicast, backlog = <<>>
          PROVE  WholeStreams(Line("server")')
      BY <1>6, <1>8, <3>1, <3>2 DEF ListenerWaits
    <3>3. ASSUME conn["server"] = NoConn, ~multicast, backlog # <<>>
          PROVE  /\ backlog[1].seq = 0 /\ backlog[1].end = 1 /\ backlog[1].inc > 0
                 /\ NoneOlder(backlog[1].inc, Line("server")')
      <4>1. PICK i : i = backlog[1].inc
        OBVIOUS
      <4>2. backlog[1].seq = 0 /\ backlog[1].end = 1 /\ i > 0 /\ NoneOlder(i, Line(f))
        BY <1>8, <3>1, <3>3, <4>1 DEF ListenerWaits
      <4>3. NoneOlder(i, Line(f)')
        BY <1>6, <4>2
      <4> QED BY <3>1, <4>1, <4>2, <4>3
    <3> QED BY <1>7, <1>8, <3>1, <3>2, <3>3 DEF ListenerWaits, NoneOlder, WholeStreams
  <2> QED BY <2>1, <2>2
<1> QED BY <1>3, <1>7, <1>8, <1>9, <1>11, <1>12, <1>13 DEF OInv

\* The packet that arrives is the first one, and what follows goes on from it.
LEMMA FirstArrives ==
  ASSUME Orderly, OInv, NEW e \in Endpoint, NEW pkt \in net, pkt.to = e, InOrder(pkt)
  PROVE  /\ pkt \in Pkt /\ Numbered(pkt) /\ pkt \in Line(e)
         /\ After(pkt) = {[net |-> net \ {pkt}, cost |-> 0]}
         /\ \A p \in Line(e) : p.inc > pkt.inc \/ (p.inc = pkt.inc /\ p.n >= pkt.n)
         /\ IsFirst(pkt, Line(e))
         /\ Chain(Line(e) \ {pkt})
         /\ \A p \in Line(e) \ {pkt} :
              /\ pkt.inc <= p.inc
              /\ IsFirst(p, Line(e) \ {pkt}) => \/ p.inc = pkt.inc /\ Start(p) = pkt.end
                                                \/ p.inc > pkt.inc /\ p.n = 0
<1>0. TypeOK /\ OnTheirWay /\ (\A p \in net : Numbered(p)) /\ Chain(Line(e))
  BY DEF OInv, OnTheirWay
<1> DEFINE T == {p \in net : p.to = e}
<1>1. PICK c : c = Coming(Peer(e))
  OBVIOUS
<1>2. /\ T \in SUBSET Pkt /\ c \in Pkt /\ Line(e) = T \cup {c}
      /\ \A p \in T : p.inc < c.inc \/ (p.inc = c.inc /\ p.n < c.n)
  BY <1>0, <1>1, LineFacts
<1>3. pkt \in Pkt /\ Numbered(pkt) /\ pkt \in T /\ pkt \in Line(e) /\ Line(e) \in SUBSET Pkt
  BY <1>0, <1>2
<1>4. pkt.inc \in Nat /\ pkt.n \in Nat /\ c.inc \in Nat /\ c.n \in Nat
  BY <1>2, <1>3, PktFacts
<1>5. ASSUME NEW p \in Line(e) PROVE p.inc > pkt.inc \/ (p.inc = pkt.inc /\ p.n >= pkt.n)
  <2>1. CASE p \in T
    BY <2>1 DEF InOrder, Orderly
  <2>2. CASE p = c
    <3>1. pkt.inc < c.inc \/ (pkt.inc = c.inc /\ pkt.n < c.n)
      BY <1>2, <1>3
    <3> QED BY <1>4, <2>2, <3>1
  <2> QED BY <1>2, <2>1, <2>2
<1>6. IsFirst(pkt, Line(e))
  <2>1. ASSUME NEW q \in Line(e), q.inc = pkt.inc PROVE pkt.n <= q.n
    <3>1. q.n \in Nat /\ q.inc \in Nat
      BY <1>3, PktFacts
    <3>2. q.n >= pkt.n
      BY <1>4, <1>5, <2>1, <3>1
    <3> QED BY <1>4, <3>1, <3>2
  <2> QED BY <2>1 DEF IsFirst
<1>7. After(pkt) = {[net |-> net \ {pkt}, cost |-> 0]}
  BY DEF After, Orderly
<1> HIDE DEF T
<1>8. /\ Chain(Line(e) \ {pkt})
      /\ \A p \in Line(e) \ {pkt} :
           /\ pkt.inc <= p.inc
           /\ IsFirst(p, Line(e) \ {pkt}) => \/ p.inc = pkt.inc /\ Start(p) = pkt.end
                                             \/ p.inc > pkt.inc /\ p.n = 0
  BY <1>0, <1>3, <1>5, LineWithoutFirst
<1> QED BY <1>3, <1>5, <1>6, <1>7, <1>8

\* What the packet leaves to its reader.
LEMMA FirstGoesOn ==
  ASSUME Orderly, OInv, NEW e \in Endpoint, NEW pkt \in net, pkt.to = e, InOrder(pkt)
  PROVE  /\ newest[e].inc \in Nat /\ newest[e].end \in Nat /\ newest[e].inc <= pkt.inc
         /\ \/ newest[e].end <= 1
            \/ pkt.inc = newest[e].inc /\ Start(pkt) = newest[e].end
            \/ pkt.inc > newest[e].inc /\ pkt.n = 0
<1>0. TypeOK /\ Follows
  BY OrderlyFacts
<1>1. newest[e].inc \in Nat /\ newest[e].end \in Nat
  BY <1>0 DEF TypeOK
<1>2. pkt \in Line(e) /\ IsFirst(pkt, Line(e)) /\ pkt \in Pkt
  BY FirstArrives
<1>3. CASE conn[e] = NoConn
  <2>1. newest[e].inc = 0 /\ newest[e].end = 0
    BY <1>0, <1>3 DEF Follows, NothingRead
  <2>2. pkt.inc \in Nat
    BY <1>2, PktFacts
  <2> QED BY <2>1, <2>2
<1>4. CASE conn[e] # NoConn
  <2>1. GoesOn(newest[e], Line(e))
    BY <1>0, <1>4 DEF Follows
  <2> QED BY <1>1, <1>2, <2>1 DEF GoesOn
<1> QED BY <1>3, <1>4

\* A packet that takes sequence numbers is the newest that was read.
LEMMA NewestIsFirst ==
  ASSUME Orderly, OInv, NEW e \in Endpoint, NEW pkt \in net, pkt.to = e, InOrder(pkt),
         pkt.kind \in {"SYN", "SYN+ACK", "DATA"}, NEW b \in BOOLEAN,
         newest' = [newest EXCEPT ![e] = Newest(newest[e], pkt, b)]
  PROVE  /\ newest' \in [Endpoint -> [inc : Nat, end : Nat, ackOf : Nat]]
         /\ newest'[e].end = pkt.end
         /\ \A g \in Endpoint : g # e => newest'[g] = newest[g]
         /\ GoesOn(newest'[e], Line(e) \ {pkt})
<1> PICK h : h = newest[e]
  OBVIOUS
<1>0. newest \in [Endpoint -> [inc : Nat, end : Nat, ackOf : Nat]]
  BY DEF OInv, TypeOK
<1>1. /\ h.inc \in Nat /\ h.end \in Nat /\ h.ackOf \in Nat /\ h.inc <= pkt.inc
      /\ \/ h.end <= 1
         \/ pkt.inc = h.inc /\ Start(pkt) = h.end
         \/ pkt.inc > h.inc /\ pkt.n = 0
  BY <1>0, FirstGoesOn
<1>2. pkt \in Pkt /\ Numbered(pkt) /\ pkt.inc \in Nat /\ pkt.end \in Nat /\ pkt.len \in Nat
  BY FirstArrives, PktFacts
<1>3. Start(pkt) \in Nat /\ pkt.end > Start(pkt) /\ pkt.end >= 1
  <2>1. Size(pkt.kind, pkt.len) \in Nat /\ Size(pkt.kind, pkt.len) >= 1
    BY <1>2 DEF Size, Numbered
  <2>2. Start(pkt) \in Nat /\ Start(pkt) = pkt.end - Size(pkt.kind, pkt.len)
    BY <1>2 DEF Numbered, Start
  <2> QED BY <1>2, <2>1, <2>2
<1>4. pkt.inc = h.inc => pkt.end >= h.end
  BY <1>1, <1>2, <1>3
<1>5. PICK k : k = Newest(h, pkt, b)
  OBVIOUS
<1>6. k.inc = pkt.inc /\ k.end = pkt.end /\ k \in [inc : Nat, end : Nat, ackOf : Nat]
  <2>1. /\ (IF pkt.inc > h.inc THEN pkt.inc ELSE h.inc) = pkt.inc
        /\ (IF pkt.inc > h.inc \/ (pkt.inc = h.inc /\ pkt.end > h.end) THEN pkt.end ELSE h.end) = pkt.end
    BY <1>1, <1>2, <1>4
  <2>2. k = [inc |-> pkt.inc, end |-> pkt.end, 
             ackOf |-> IF b THEN IF pkt.write = "failed" THEN 0 ELSE pkt.inc ELSE h.ackOf]
    BY <1>5, <2>1 DEF Newest
  <2> QED BY <1>1, <1>2, <2>2
<1>7. newest' = [newest EXCEPT ![e] = k]
  BY <1>5
<1>8. GoesOn(k, Line(e) \ {pkt})
  <2>1. \A p \in Line(e) \ {pkt} :
          /\ pkt.inc <= p.inc
          /\ IsFirst(p, Line(e) \ {pkt}) => \/ p.inc = pkt.inc /\ Start(p) = pkt.end
                                            \/ p.inc > pkt.inc /\ p.n = 0
    BY FirstArrives
  <2> QED BY <1>6, <2>1 DEF GoesOn
<1>9. newest'[e] = k /\ newest' \in [Endpoint -> [inc : Nat, end : Nat, ackOf : Nat]]
  BY <1>0, <1>6, <1>7
<1>10. \A g \in Endpoint : g # e => newest'[g] = newest[g]
  BY <1>0, <1>7
<1> QED BY <1>6, <1>8, <1>9, <1>10

LEMMA HandshakeIsWritten ==
  ASSUME Orderly, NEW e, NEW c, NEW kind, NEW R, NEW rest, rest = net \ R,
         Shakes(e, c, kind, rest), inc' = inc
  PROVE  Writes(e, c, kind, 0, R)
<1>1. Written(e, c, kind, rest)
  BY DEF Shakes, NotWritten, Orderly
<1> QED BY <1>1 DEF Written, Writes

LEMMA LeftOfAll ==
  ASSUME OInv, NEW e \in Endpoint
  PROVE  Left(e, {}) = Line(e) /\ Chain(Left(e, {}))
<1>1. Left(e, {}) = Line(e)
  BY DEF Left
<1> QED BY <1>1 DEF OInv, OnTheirWay

\* What is known of an endpoint's connection.
LEMMA OrderlyConn ==
  ASSUME OInv, NEW e \in Endpoint
  PROVE  /\ newest \in [Endpoint -> [inc : Nat, end : Nat, ackOf : Nat]]
         /\ conn[e] # NoConn => /\ conn[e] \in Conn /\ conn[e].seq = total[e] % SeqWrap
                                /\ conn[e].ack = newest[e].end % SeqWrap
                                /\ GoesOn(newest[e], Line(e))
         /\ conn[e] = NoConn => newest[e] = NothingRead /\ total[e] = 0 /\ count[e] = 0
         /\ backlog \in Seq(Pkt) /\ (multicast => backlog = <<>>)
<1>1. TypeOK /\ SeqIsTotal /\ Follows /\ ListenerWaits
  BY OrderlyFacts
<1>2. newest \in [Endpoint -> [inc : Nat, end : Nat, ackOf : Nat]] /\ backlog \in Seq(Pkt)
  BY <1>1 DEF TypeOK
<1>3. conn[e] # NoConn => conn[e] \in Conn
  BY <1>1 DEF TypeOK
<1> QED BY <1>1, <1>2, <1>3 DEF SeqIsTotal, Follows, ListenerWaits

LEMMA FreshFacts == Fresh \in Conn /\ Fresh.seq = 0 /\ Fresh.ack = 0 /\ 0 % SeqWrap = 0
<1>1. Fresh \in Conn /\ Fresh.seq = 0 /\ Fresh.ack = 0
  BY DEF Fresh, Conn
<1> QED BY <1>1, SizeAssumption, NoWrap

LEMMA OrderlyDial ==
  ASSUME Orderly, OInv, DialFakeTCP
  PROVE  OInv'
<1> PICK e \in Endpoint : e = "client"
  BY DEF Endpoint
<1>1. /\ conn[e] = NoConn /\ Shakes(e, Fresh, "SYN", net) /\ inc' = inc
      /\ UNCHANGED <<multicast, process, backlog, newest>>
  BY DEF DialFakeTCP, Shakes
<1>2. Writes(e, Fresh, "SYN", 0, {})
  <2>1. net = net \ {}
    OBVIOUS
  <2> QED BY <1>1, <2>1, HandshakeIsWritten
<1>3. /\ newest \in [Endpoint -> [inc : Nat, end : Nat, ackOf : Nat]]
      /\ newest[e] = NothingRead /\ total[e] = 0
      /\ backlog \in Seq(Pkt) /\ (multicast => backlog = <<>>)
  BY <1>1, OrderlyConn
<1>4. CanWrite(e, Fresh, "SYN", 0)
  BY <1>3, FreshFacts DEF CanWrite
<1>5. Left(e, {}) = Line(e) /\ Chain(Left(e, {}))
  BY LeftOfAll
<1>6. GoesOn(newest[e], Left(e, {}))
  <2>1. Line(e) \in SUBSET Pkt
    BY LineFacts DEF OInv, OnTheirWay
  <2>2. \A p \in Line(e) : 0 <= p.inc
    BY <2>1, PktFacts
  <2> QED BY <1>3, <1>5, <2>2 DEF GoesOn, NothingRead
<1>7. Fresh.ack = newest[e].end % SeqWrap
  BY <1>3, FreshFacts DEF NothingRead
<1>8. newest'[e] = newest[e] /\ \A g \in Endpoint : newest'[g] = newest[g]
  BY <1>1
<1>9. FollowsOn(e, Fresh, {})
  BY <1>1, <1>3, <1>5, <1>6, <1>7, <1>8 DEF FollowsOn
<1>10. {} \in SUBSET {p \in net : p.to = e} /\ Fresh \in Conn
  BY FreshFacts
<1> QED BY <1>2, <1>4, <1>9, <1>10, OrderlySend

LEMMA OrderlyPublish ==
  ASSUME Orderly, OInv, Publish
  PROVE  OInv'
<1> PICK e \in Endpoint : e = "client"
  BY DEF Endpoint
<1> PICK c : c = [conn[e] EXCEPT !.isReconnected = FALSE]
  OBVIOUS
<1>1. /\ conn[e] # NoConn /\ Shakes(e, c, "SYN", net) /\ inc' = inc
      /\ UNCHANGED <<multicast, process, backlog, newest>>
  BY DEF Publish, Reconnect, handshakeSYN, Handshake, Shakes
<1>2. Writes(e, c, "SYN", 0, {})
  <2>1. net = net \ {}
    OBVIOUS
  <2> QED BY <1>1, <2>1, HandshakeIsWritten
<1>3. /\ newest \in [Endpoint -> [inc : Nat, end : Nat, ackOf : Nat]]
      /\ conn[e] \in Conn /\ conn[e].seq = total[e] % SeqWrap
      /\ conn[e].ack = newest[e].end % SeqWrap /\ GoesOn(newest[e], Line(e))
      /\ backlog \in Seq(Pkt) /\ (multicast => backlog = <<>>)
  BY <1>1, OrderlyConn
<1>4. c \in Conn /\ c.seq = conn[e].seq /\ c.ack = conn[e].ack
  BY <1>3 DEF Conn
<1>5. CanWrite(e, c, "SYN", 0)
  BY <1>3, <1>4 DEF CanWrite
<1>6. Left(e, {}) = Line(e) /\ Chain(Left(e, {}))
  BY LeftOfAll
<1>7. newest'[e] = newest[e] /\ \A g \in Endpoint : newest'[g] = newest[g]
  BY <1>1
<1>8. FollowsOn(e, c, {})
  BY <1>1, <1>3, <1>4, <1>6, <1>7 DEF FollowsOn
<1>9. {} \in SUBSET {p \in net : p.to = e}
  OBVIOUS
<1> QED BY <1>2, <1>4, <1>5, <1>8, <1>9, OrderlySend

LEMMA OrderlyWriteTo ==
  ASSUME Orderly, OInv, NEW e \in Endpoint, NEW l \in Length, WriteTo(e, l)
  PROVE  OInv'
<1>0. l \in Nat /\ l <= Mss /\ Mss \in Nat /\ l \in 1 .. (SeqWrap - 1)
  BY SizeAssumption DEF Orderly, MessagesFit
<1>1. /\ conn[e] # NoConn /\ inc' = inc
      /\ UNCHANGED <<multicast, process, backlog, newest>>
  BY DEF WriteTo
<1>2. Segments(l) = 1 /\ Size("DATA", l) = l
  BY <1>0 DEF Segments, Size
<1>3. Fragments(e, l) = {Packet(e, conn[e], "DATA", 0, l)}
  <2>1. 0 .. Segments(l) - 1 = {0}
    BY <1>2
  <2> QED BY <1>0, <2>1 DEF Fragments
<1>4. /\ newest \in [Endpoint -> [inc : Nat, end : Nat, ackOf : Nat]]
      /\ conn[e] \in Conn /\ conn[e].seq = total[e] % SeqWrap
      /\ conn[e].ack = newest[e].end % SeqWrap /\ GoesOn(newest[e], Line(e))
      /\ backlog \in Seq(Pkt) /\ (multicast => backlog = <<>>)
  BY <1>1, OrderlyConn
<1>5. net' = (net \ {}) \cup {Packet(e, conn[e], "DATA", 0, l)}
  BY <1>3 DEF WriteTo
<1>6. conn' = [conn EXCEPT ![e] = [conn[e] EXCEPT !.seq = (conn[e].seq + Size("DATA", l)) % SeqWrap,
                                                 !.id = (conn[e].id + 1) % IdWrap]]
  <2>1. conn' = [conn EXCEPT ![e].seq = (conn[e].seq + l) % SeqWrap, ![e].id = (conn[e].id + 1) % IdWrap]
    BY <1>2 DEF WriteTo
  <2>2. conn \in [Endpoint -> Conn \cup {NoConn}]
    BY DEF OInv, TypeOK
  <2> QED BY <1>2, <1>4, <2>1, <2>2 DEF Conn
<1>7. /\ total' = [total EXCEPT ![e] = total[e] + Size("DATA", l)]
      /\ count' = [count EXCEPT ![e] = count[e] + 1]
  BY <1>2 DEF WriteTo
<1>8. PICK c \in Conn : c = conn[e]
  BY <1>4
<1>9. Writes(e, c, "DATA", l, {}) /\ CanWrite(e, c, "DATA", l)
  BY <1>0, <1>1, <1>4, <1>5, <1>6, <1>7, <1>8 DEF Writes, CanWrite
<1>10. Left(e, {}) = Line(e) /\ Chain(Left(e, {}))
  BY LeftOfAll
<1>11. newest'[e] = newest[e] /\ \A g \in Endpoint : newest'[g] = newest[g]
  BY <1>1
<1>12. FollowsOn(e, c, {})
  BY <1>1, <1>4, <1>8, <1>10, <1>11 DEF FollowsOn
<1>13. {} \in SUBSET {p \in net : p.to = e} /\ l \in Nat
  BY <1>0
<1> QED BY <1>9, <1>12, <1>13, OrderlySend

\* A SYN, with or without ACK, is answered with the connection state c.
Answers(e, pkt, c, kind) ==
  /\ pkt.kind \in {"SYN", "SYN+ACK"} /\ InOrder(pkt)
  /\ c.seq = total[e] % SeqWrap /\ c.ack = (pkt.seq + 1) % SeqWrap
  /\ kind \in {"SYN+ACK", "ACK"} /\ (conn[e] = NoConn => kind = "SYN+ACK")
  /\ Shakes(e, c, kind, net \ {pkt})
  /\ newest' = [newest EXCEPT ![e] = Newest(newest[e], pkt, TRUE)]
  /\ UNCHANGED <<multicast, process, backlog, inc>>

LEMMA OrderlyAnswer ==
  ASSUME Orderly, OInv, NEW e \in Endpoint, NEW pkt \in net, pkt.to = e,
         NEW c \in Conn, NEW kind, Answers(e, pkt, c, kind)
  PROVE  OInv'
<1>1. Writes(e, c, kind, 0, {pkt})
  BY HandshakeIsWritten DEF Answers
<1>2. CanWrite(e, c, kind, 0)
  BY DEF CanWrite, Answers
<1>3. /\ newest' \in [Endpoint -> [inc : Nat, end : Nat, ackOf : Nat]]
      /\ newest'[e].end = pkt.end
      /\ \A g \in Endpoint : g # e => newest'[g] = newest[g]
      /\ GoesOn(newest'[e], Line(e) \ {pkt})
  BY NewestIsFirst DEF Answers
<1>4. pkt \in Pkt /\ Numbered(pkt) /\ Chain(Line(e) \ {pkt})
  BY FirstArrives DEF Answers
<1>5. c.ack = pkt.end % SeqWrap
  <2>1. Size(pkt.kind, pkt.len) = 1
    BY DEF Size, Answers
  <2>2. pkt.seq = Start(pkt) % SeqWrap /\ Start(pkt) \in Nat /\ pkt.end = Start(pkt) + 1
    <3>1. pkt.seq = Start(pkt) % SeqWrap /\ Start(pkt) \in Nat /\ pkt.end \in Nat
      BY <1>4, PktFacts DEF Numbered
    <3> QED BY <2>1, <3>1 DEF Start
  <2> QED BY <2>2, WrapOfSum, SizeAssumption DEF Answers
<1>6. PICK R \in SUBSET {p \in net : p.to = e} : R = {pkt}
  OBVIOUS
<1>7. Writes(e, c, kind, 0, R) /\ Chain(Left(e, R)) /\ GoesOn(newest'[e], Left(e, R))
  BY <1>1, <1>3, <1>4, <1>6 DEF Left
<1>8. /\ backlog' \in Seq(Pkt) /\ (multicast => backlog' = <<>>) /\ (e = "client" => backlog' = backlog)
      /\ UNCHANGED <<multicast, process>> /\ kind \in {"SYN", "SYN+ACK", "ACK", "DATA"}
  BY OrderlyConn DEF Answers
<1>9. c.ack = newest'[e].end % SeqWrap
  BY <1>3, <1>5
<1>10. FollowsOn(e, c, R)
  BY <1>3, <1>7, <1>8, <1>9 DEF FollowsOn
<1> QED BY <1>2, <1>7, <1>8, <1>10, OrderlySend

-----------------------------------------------------------------------------
(* A packet arrives and nothing is written.                                *)

LEMMA LeftIsOnItsWay ==
  ASSUME OInv, NEW e \in Endpoint, NEW f, f = Peer(e), NEW pkt \in net, pkt.to = e,
         net' = net \ {pkt}, UNCHANGED <<inc, total, count>>
  PROVE  Line(e)' = Left(e, {pkt}) /\ Line(f)' = Line(f)
<1>0. TypeOK /\ (\A p \in net : Numbered(p))
  BY DEF OInv, OnTheirWay
<1>1. f \in Endpoint /\ f # e /\ Peer(f) = e
  BY PeerOfPeer
<1>2. Coming(e)' = Coming(e) /\ Coming(f)' = Coming(f)
  BY DEF Coming
<1>3. Coming(f) \notin {p \in net : p.to = e}
  BY <1>0, LineFacts
<1>4. {p \in net' : p.to = f} = {p \in net : p.to = f}
  BY <1>1
<1>5. {p \in net' : p.to = e} = {p \in net : p.to = e} \ {pkt}
  OBVIOUS
<1>6. Line(f)' = Line(f)
  BY <1>1, <1>2, <1>4 DEF Line
<1>7. Line(e)' = Left(e, {pkt})
  BY <1>2, <1>3, <1>5 DEF Line, Left
<1> QED BY <1>6, <1>7

\* What remains of an endpoint that took a packet.
Takes(e, pkt) ==
  /\ InOrder(pkt) /\ net' = net \ {pkt}
  /\ UNCHANGED <<multicast, process, inc, total, count>>
  /\ \A g \in Endpoint : g # e => conn'[g] = conn[g] /\ newest'[g] = newest[g]
  /\ conn'[e] = NoConn <=> conn[e] = NoConn
  /\ conn[e] # NoConn => conn'[e].seq = conn[e].seq
  /\ IF conn[e] = NoConn THEN newest'[e] = NothingRead
     ELSE conn'[e].ack = newest'[e].end % SeqWrap /\ GoesOn(newest'[e], Left(e, {pkt}))

LEMMA OrderlyArrival ==
  ASSUME Orderly, OInv, NEW e \in Endpoint, NEW pkt \in net, pkt.to = e, Takes(e, pkt),
         conn' \in [Endpoint -> Conn \cup {NoConn}],
         newest' \in [Endpoint -> [inc : Nat, end : Nat, ackOf : Nat]],
         backlog' \in Seq(Pkt),
         e = "client" => backlog' = backlog, e = "server" => ListenerWaits'
  PROVE  OInv'
<1>0. TypeOK /\ process = "running" /\ SeqIsTotal /\ OnTheirWay /\ Follows /\ ListenerWaits
  BY OrderlyFacts
<1>1. PICK f \in Endpoint : f = Peer(e) /\ f # e
  BY PeerOfPeer
<1>2. \A g \in Endpoint : g = e \/ g = f
  BY <1>1 DEF Endpoint, Peer
<1>3. Line(e)' = Left(e, {pkt}) /\ Line(f)' = Line(f)
  BY <1>1, LeftIsOnItsWay DEF Takes
<1>4. TypeOK'
  BY <1>0 DEF TypeOK, Takes
<1>5. SeqIsTotal'
  BY <1>0, <1>2 DEF SeqIsTotal, Takes
<1>6. Chain(Left(e, {pkt})) /\ Chain(Line(f))
  BY <1>0, FirstArrives DEF Left, OnTheirWay, Takes
<1>7. OnTheirWay'
  <2>1. ASSUME NEW p \in net' PROVE Numbered(p)'
    <3>1. Numbered(p)
      BY <1>0 DEF OnTheirWay, Takes
    <3> QED BY <3>1 DEF Numbered, Takes
  <2>2. Chain(Line(e)') /\ Chain(Line(f)')
    BY <1>3, <1>6
  <2> QED BY <1>2, <2>1, <2>2 DEF OnTheirWay
<1>8. Follows'
  <2>1. IF conn'[e] = NoConn THEN newest'[e] = NothingRead
        ELSE conn'[e].ack = newest'[e].end % SeqWrap /\ GoesOn(newest'[e], Line(e)')
    BY <1>3 DEF Takes
  <2>2. conn'[f] = conn[f] /\ newest'[f] = newest[f]
    BY <1>1 DEF Takes
  <2>3. IF conn'[f] = NoConn THEN newest'[f] = NothingRead
        ELSE conn'[f].ack = newest'[f].end % SeqWrap /\ GoesOn(newest'[f], Line(f)')
    BY <1>0, <1>3, <2>2 DEF Follows
  <2>4. ASSUME NEW g \in Endpoint
        PROVE  IF conn'[g] = NoConn THEN newest'[g] = NothingRead
               ELSE conn'[g].ack = newest'[g].end % SeqWrap /\ GoesOn(newest'[g], Line(g)')
    BY <1>2, <2>1, <2>3
  <2> QED BY <2>4 DEF Follows, GoesOn, NothingRead
<1>9. ListenerWaits'
  <2>1. CASE e = "server"
    BY <2>1
  <2>2. CASE e # "server"
    <3>1. e = "client" /\ f = "server"
      BY <1>1, <2>2 DEF Endpoint, Peer
    <3>2. Line("server")' = Line("server") /\ backlog' = backlog /\ multicast' = multicast
          /\ conn'["server"] = conn["server"]
      BY <1>1, <1>3, <3>1 DEF Takes
    <3> QED BY <1>0, <3>2 DEF ListenerWaits
  <2> QED BY <2>1, <2>2
<1> QED BY <1>0, <1>4, <1>5, <1>7, <1>8, <1>9 DEF OInv, Takes

LEMMA OrderlyReadACK ==
  ASSUME Orderly, OInv, NEW e \in Endpoint, NEW pkt \in net, pkt.to = e, InOrder(pkt),
         conn[e] # NoConn, NEW r, r.net = net \ {pkt}, ReadACK(e, pkt, r)
  PROVE  OInv'
<1>0. TypeOK /\ conn \in [Endpoint -> Conn \cup {NoConn}]
  BY DEF OInv, TypeOK
<1>1. /\ newest \in [Endpoint -> [inc : Nat, end : Nat, ackOf : Nat]]
      /\ conn[e].ack = newest[e].end % SeqWrap
      /\ backlog \in Seq(Pkt) /\ (multicast => backlog = <<>>)
  BY OrderlyConn
<1>2. pkt \in Pkt /\ Numbered(pkt) /\ pkt.kind = "ACK"
  BY FirstArrives DEF ReadACK
<1>3. pkt.end = Start(pkt) /\ pkt.n # 0
  <2>1. pkt.len = 0 /\ pkt.n # 0 /\ pkt.end \in Nat
    BY <1>2, PktFacts DEF Numbered
  <2> QED BY <1>2, <2>1 DEF Start, Size
<1>4. GoesOn(newest[e], Left(e, {pkt}))
  <2>1. PICK h : h = newest[e]
    OBVIOUS
  <2>2. /\ h.inc \in Nat /\ h.end \in Nat /\ h.inc <= pkt.inc /\ pkt.inc \in Nat
        /\ h.end <= 1 \/ (pkt.inc = h.inc /\ Start(pkt) = h.end)
    BY <1>2, <1>3, <2>1, FirstGoesOn, PktFacts
  <2>3. \A p \in Line(e) \ {pkt} :
          /\ pkt.inc <= p.inc
          /\ IsFirst(p, Line(e) \ {pkt}) => \/ p.inc = pkt.inc /\ Start(p) = pkt.end
                                            \/ p.inc > pkt.inc /\ p.n = 0
    BY FirstArrives
  <2>4. ASSUME NEW p \in Line(e) \ {pkt}
        PROVE  /\ h.inc <= p.inc
               /\ IsFirst(p, Line(e) \ {pkt}) => \/ h.end <= 1
                                                 \/ p.inc = h.inc /\ Start(p) = h.end
                                                 \/ p.inc > h.inc /\ p.n = 0
    <3>1. p \in Pkt
      BY <1>0, LineFacts DEF OInv, OnTheirWay
    <3>2. p.inc \in Nat
      BY <3>1, PktFacts
    <3>3. /\ pkt.inc <= p.inc
          /\ IsFirst(p, Line(e) \ {pkt}) => \/ p.inc = pkt.inc /\ Start(p) = pkt.end
                                            \/ p.inc > pkt.inc /\ p.n = 0
      BY <2>3
    <3> QED BY <1>3, <2>2, <3>2, <3>3
  <2> QED BY <2>1, <2>4 DEF GoesOn, Left
<1>5. Takes(e, pkt) /\ conn' = conn /\ newest' = newest /\ backlog' = backlog /\ multicast' = multicast
  BY <1>1, <1>4 DEF Takes, ReadACK
<1>6. e = "server" => ListenerWaits'
  BY <1>1, <1>5 DEF ListenerWaits
<1> QED BY <1>0, <1>1, <1>5, <1>6, OrderlyArrival

\* Where the test of ReadFrom leaves ack as it is, ack is at the end of what
\* was read, also when the sequence numbers wrap.
LEMMA AckStaysAtEnd ==
  ASSUME NEW w \in Nat \ {0}, NEW s \in Nat, NEW l \in 1 .. (w - 1), NEW end \in Nat,
         s >= 1, end <= 1 \/ s = end,
         NEW m \in Nat, m = s % w, ~((m + l) % w > end % w), ~(w - 1 - m < l)
  PROVE  end % w = (s + l) % w
<1>1. m \in 0 .. (w - 1) /\ l \in Nat
  BY Division
<1>2. (m + l) % w = (s + l) % w
  BY <1>1, WrapOfSum
<1>3. m + l < w
  BY <1>1
<1>4. (m + l) % w = m + l /\ m + l >= 1
  <2>1. m + l \in Nat /\ m + l >= 1
    BY <1>1
  <2> QED BY <1>3, <2>1, NoWrap
<1>5. CASE s = end
  BY <1>1, <1>4, <1>5
<1>6. CASE end <= 1
  <2>1. end < w
    BY <1>6
  <2>2. end % w = end
    BY <2>1, NoWrap
  <2> QED BY <1>1, <1>2, <1>4, <1>6, <2>2
<1> QED BY <1>5, <1>6

LEMMA OrderlyReadData ==
  ASSUME Orderly, OInv, NEW e \in Endpoint, NEW pkt \in net, pkt.to = e, InOrder(pkt),
         conn[e] # NoConn, NEW r, r.net = net \ {pkt}, ReadData(e, pkt, r)
  PROVE  OInv'
<1>0. conn \in [Endpoint -> Conn \cup {NoConn}] /\ SeqWrap \in Nat \ {0}
  BY SizeAssumption DEF OInv, TypeOK
<1>1. /\ conn[e] \in Conn /\ conn[e].ack = newest[e].end % SeqWrap
      /\ backlog \in Seq(Pkt) /\ (multicast => backlog = <<>>)
  BY OrderlyConn
<1>2. pkt \in Pkt /\ Numbered(pkt) /\ pkt.kind = "DATA"
  BY FirstArrives DEF ReadData
<1>3. PICK s \in Nat : s = Start(pkt) /\ s >= 1 /\ pkt.seq = s % SeqWrap /\ pkt.end = s + pkt.len
  <2>1. Start(pkt) = pkt.end - pkt.len /\ pkt.end \in Nat /\ pkt.len \in Nat
    BY <1>2, PktFacts DEF Start, Size
  <2>2. Start(pkt) \in Nat /\ Start(pkt) >= 1 /\ pkt.seq = Start(pkt) % SeqWrap
    BY <1>2 DEF Numbered
  <2> QED BY <2>1, <2>2
<1>4. PICK l \in 1 .. (SeqWrap - 1) : l = pkt.len
  BY <1>2 DEF Numbered
<1>5. PICK end \in Nat : end = newest[e].end /\ (end <= 1 \/ s = end)
  <2>1. pkt.n # 0
    BY <1>2 DEF Numbered
  <2> QED BY <1>3, <2>1, FirstGoesOn
<1>6. PICK a \in Nat : a = conn[e].ack
  BY <1>1 DEF Conn
<1>7. PICK b \in BOOLEAN : b = AckAdvances(conn[e], pkt)
  BY DEF AckAdvances
<1>8. AckAdvances(conn[e], pkt) \/ a = pkt.end % SeqWrap
  <2> SUFFICES ASSUME ~AckAdvances(conn[e], pkt) PROVE a = pkt.end % SeqWrap
    OBVIOUS
  <2>1. PICK m \in Nat : m = s % SeqWrap
    BY <1>0, Division
  <2>2. ~((m + l) % SeqWrap > end % SeqWrap) /\ ~(SeqWrap - 1 - m < l)
    BY <1>1, <1>3, <1>4, <1>5, <2>1 DEF AckAdvances
  <2>3. s >= 1 /\ (end <= 1 \/ s = end)
    BY <1>3, <1>5
  <2>4. end % SeqWrap = (s + l) % SeqWrap
    BY <1>0, <2>1, <2>2, <2>3, AckStaysAtEnd
  <2> QED BY <1>1, <1>3, <1>4, <1>5, <1>6, <2>4
<1>9. (pkt.seq + pkt.len) % SeqWrap = pkt.end % SeqWrap
  <2>1. l \in Nat
    BY <1>0
  <2>2. ((s % SeqWrap) + l) % SeqWrap = (s + l) % SeqWrap
    BY <1>0, <2>1, WrapOfSum
  <2> QED BY <1>3, <1>4, <2>2
<1>10. PICK k : k = IF AckAdvances(conn[e], pkt)
                    THEN [conn[e] EXCEPT !.ack = (pkt.seq + pkt.len) % SeqWrap] ELSE conn[e]
  OBVIOUS
<1>11. k \in Conn /\ k.ack = pkt.end % SeqWrap /\ k.seq = conn[e].seq /\ k # NoConn
  <2>1. (pkt.seq + pkt.len) % SeqWrap \in Nat
    BY <1>0, <1>2, PktFacts
  <2>2. /\ k \in Conn /\ k.seq = conn[e].seq
        /\ k.ack = IF AckAdvances(conn[e], pkt) THEN (pkt.seq + pkt.len) % SeqWrap ELSE a
    BY <1>1, <1>6, <1>10, <2>1 DEF Conn
  <2>3. k # NoConn
    BY <2>2, NoConnAssumption DEF Conn
  <2> QED BY <1>8, <1>9, <2>2, <2>3
<1>12. conn' = [conn EXCEPT ![e] = k]
  <2>1. conn' = IF AckAdvances(conn[e], pkt)
               THEN [conn EXCEPT ![e].ack = (pkt.seq + pkt.len) % SeqWrap] ELSE conn
    BY DEF ReadData
  <2> QED BY <1>0, <1>10, <2>1
<1>13. /\ conn' \in [Endpoint -> Conn \cup {NoConn}] /\ conn'[e] = k
       /\ \A g \in Endpoint : g # e => conn'[g] = conn[g]
  BY <1>0, <1>11, <1>12
<1>14. newest' = [newest EXCEPT ![e] = Newest(newest[e], pkt, b)]
  BY <1>7 DEF ReadData
<1>15. /\ newest' \in [Endpoint -> [inc : Nat, end : Nat, ackOf : Nat]]
       /\ newest'[e].end = pkt.end
       /\ \A g \in Endpoint : g # e => newest'[g] = newest[g]
       /\ GoesOn(newest'[e], Line(e) \ {pkt})
  BY <1>2, <1>14, NewestIsFirst
<1>16. net' = net \ {pkt} /\ UNCHANGED <<multicast, process, backlog, inc, total, count>>
  BY DEF ReadData
<1>17. Takes(e, pkt)
  <2>1. GoesOn(newest'[e], Left(e, {pkt}))
    BY <1>15 DEF Left
  <2> QED BY <1>11, <1>13, <1>15, <1>16, <2>1 DEF Takes
<1>18. e = "server" => ListenerWaits'
  BY <1>1, <1>11, <1>13, <1>16 DEF ListenerWaits
<1>19. backlog' \in Seq(Pkt) /\ (e = "client" => backlog' = backlog)
  BY <1>1, <1>16
<1> QED BY <1>13, <1>15, <1>17, <1>18, <1>19, OrderlyArrival

\* The first packet that comes to a listener that has none is a SYN.
LEMMA FirstIsSYN ==
  ASSUME Orderly, OInv, NEW pkt \in net, pkt.to = "server", InOrder(pkt),
         conn["server"] = NoConn, ~multicast, backlog = <<>>
  PROVE  pkt.kind \in {"SYN", "SYN+ACK"} /\ pkt.end = 1 /\ pkt.seq = 0 /\ pkt.inc > 0
<1> PICK e \in Endpoint : e = "server"
  BY DEF Endpoint
<1>1. pkt \in Pkt /\ Numbered(pkt) /\ pkt \in Line(e) /\ IsFirst(pkt, Line(e))
  BY FirstArrives
<1>2. WholeStreams(Line(e))
  BY DEF OInv, ListenerWaits
<1>3. PICK r \in Line(e) : r.inc = pkt.inc /\ r.n = 0
  BY <1>1, <1>2 DEF WholeStreams
<1>4. pkt.n = 0
  BY <1>1, <1>3, PktFacts DEF IsFirst
<1>5. pkt.kind \in {"SYN", "SYN+ACK"} /\ pkt.end = 1 /\ pkt.inc > 0 /\ pkt.seq = Start(pkt) % SeqWrap
  BY <1>1, <1>4 DEF Numbered
<1>6. Start(pkt) = 0
  BY <1>5 DEF Start, Size
<1> QED BY <1>5, <1>6, FreshFacts

LEMMA NoneOlderLeft ==
  ASSUME NEW e, NEW R, NEW i, NoneOlder(i, Line(e))
  PROVE  NoneOlder(i, Left(e, R))
BY DEF NoneOlder, Left

LEMMA OrderlyIgnored ==
  ASSUME Orderly, OInv, NEW pkt \in net, Ignored(pkt)
  PROVE  OInv'
<1>0. TypeOK /\ process = "running" /\ ListenerWaits /\ conn \in [Endpoint -> Conn \cup {NoConn}]
  BY DEF OInv, TypeOK
<1>1. PICK e \in Endpoint : e = pkt.to
  BY <1>0 DEF TypeOK, Pkt
<1>2. After(pkt) = {[net |-> net \ {pkt}, cost |-> 0]}
  BY <1>1, FirstArrives DEF Ignored
<1>3. /\ net' = net \ {pkt} /\ conn[e] = NoConn /\ InOrder(pkt)
      /\ UNCHANGED <<multicast, process, conn, backlog, inc, total, count, newest>>
  BY <1>1, <1>2 DEF Ignored
<1>4. /\ newest \in [Endpoint -> [inc : Nat, end : Nat, ackOf : Nat]] /\ newest[e] = NothingRead
      /\ backlog \in Seq(Pkt) /\ (multicast => backlog = <<>>)
  BY <1>3, OrderlyConn
<1>5. Takes(e, pkt)
  BY <1>3, <1>4 DEF Takes
<1>6. ASSUME e = "server" PROVE ListenerWaits'
  <2>1. multicast' = multicast /\ backlog' = backlog /\ conn' = conn
    BY <1>3
  <2>2. CASE multicast
    BY <1>4, <2>1, <2>2 DEF ListenerWaits
  <2>3. CASE ~multicast
    <3>1. pkt.kind \notin {"SYN", "SYN+ACK"}
      BY <1>0, <1>1, <1>6, <2>3 DEF Ignored
    <3>2. backlog # <<>>
      BY <1>1, <1>3, <1>6, <2>3, <3>1, FirstIsSYN
    <3>3. /\ backlog[1].seq = 0 /\ backlog[1].end = 1 /\ backlog[1].inc > 0
          /\ NoneOlder(backlog[1].inc, Line(e))
      BY <1>0, <1>3, <1>6, <2>3, <3>2 DEF ListenerWaits
    <3>4. Line(e)' = Left(e, {pkt})
      BY <1>1, <1>3, LeftIsOnItsWay
    <3>5. NoneOlder(backlog[1].inc, Line(e)')
      BY <3>3, <3>4, NoneOlderLeft
    <3> QED BY <1>6, <2>1, <2>3, <3>2, <3>3, <3>5 DEF ListenerWaits, NoneOlder
  <2> QED BY <2>2, <2>3
<1> QED BY <1>0, <1>1, <1>3, <1>4, <1>5, <1>6, OrderlyArrival

LEMMA OrderlyCapture ==
  ASSUME Orderly, OInv, NEW pkt \in net, Capture(pkt)
  PROVE  OInv'
<1>0. TypeOK /\ ListenerWaits /\ conn \in [Endpoint -> Conn \cup {NoConn}]
  BY DEF OInv, TypeOK
<1>1. PICK e \in Endpoint : e = "server" /\ e = pkt.to
  BY DEF Capture, Endpoint
<1>2. After(pkt) = {[net |-> net \ {pkt}, cost |-> 0]}
  BY <1>1, FirstArrives DEF Capture
<1>3. /\ net' = net \ {pkt} /\ conn[e] = NoConn /\ InOrder(pkt) /\ ~multicast
      /\ backlog' = Append(backlog, pkt)
      /\ UNCHANGED <<multicast, process, conn, inc, total, count, newest>>
  BY <1>1, <1>2 DEF Capture
<1>4. /\ newest \in [Endpoint -> [inc : Nat, end : Nat, ackOf : Nat]] /\ newest[e] = NothingRead
      /\ backlog \in Seq(Pkt) /\ pkt \in Pkt
  BY <1>0, <1>3, OrderlyConn DEF TypeOK
<1>5. Takes(e, pkt)
  BY <1>3, <1>4 DEF Takes
<1>6. backlog' \in Seq(Pkt) /\ backlog' # <<>>
  BY <1>3, <1>4
<1>7. Line(e)' = Left(e, {pkt})
  BY <1>1, <1>3, LeftIsOnItsWay
<1>8. PICK q : q = backlog'[1]
  OBVIOUS
<1>9. q.seq = 0 /\ q.end = 1 /\ q.inc > 0 /\ NoneOlder(q.inc, Left(e, {pkt}))
  <2>1. CASE backlog = <<>>
    <3>1. q = pkt
      BY <1>3, <1>8, <2>1
    <3>2. NoneOlder(pkt.inc, Left(e, {pkt}))
      BY <1>1, <1>3, FirstArrives DEF NoneOlder, Left
    <3> QED BY <1>1, <1>3, <2>1, <3>1, <3>2, FirstIsSYN
  <2>2. CASE backlog # <<>>
    <3>1. q = backlog[1]
      BY <1>3, <1>4, <1>8, <2>2
    <3>2. q.seq = 0 /\ q.end = 1 /\ q.inc > 0 /\ NoneOlder(q.inc, Line(e))
      BY <1>0, <1>1, <1>3, <2>2, <3>1 DEF ListenerWaits
    <3> QED BY <3>2, NoneOlderLeft
  <2> QED BY <2>1, <2>2
<1>10. ListenerWaits'
  <2>1. NoneOlder(q.inc, Line(e)')
    BY <1>7, <1>9
  <2>2. multicast' = multicast /\ ~multicast /\ backlog'[1] = q
    BY <1>3, <1>8
  <2> QED BY <1>1, <1>6, <1>9, <2>1, <2>2 DEF ListenerWaits, NoneOlder
<1> QED BY <1>0, <1>1, <1>3, <1>4, <1>5, <1>6, <1>10, OrderlyArrival

LEMMA OrderlyReadFrom ==
  ASSUME Orderly, OInv, NEW e \in Endpoint, NEW pkt \in net, ReadFrom(e, pkt)
  PROVE  OInv'
<1>1. pkt.to = e /\ conn[e] # NoConn /\ InOrder(pkt)
  BY DEF ReadFrom
<1>2. pkt \in Pkt /\ Numbered(pkt) /\ After(pkt) = {[net |-> net \ {pkt}, cost |-> 0]}
  BY <1>1, FirstArrives
<1>3. conn[e] \in Conn /\ conn[e].seq = total[e] % SeqWrap
  BY <1>1, OrderlyConn
<1>4. PICK r \in After(pkt) :
        \/ ReadRST(e, pkt, r) \/ ReadSYNACK(e, pkt, r) \/ ReadSYN(e, pkt, r)
        \/ ReadACK(e, pkt, r) \/ ReadData(e, pkt, r)
  BY DEF ReadFrom
<1>5. r.net = net \ {pkt}
  BY <1>2, <1>4
<1>6. CASE ReadRST(e, pkt, r)
  BY <1>2, <1>6 DEF ReadRST, Numbered
<1>7. CASE ReadSYNACK(e, pkt, r)
  <2>1. PICK d : d = SYNReceived(conn[e], pkt)
    OBVIOUS
  <2>2. PICK c : c = [d EXCEPT !.isConnected = TRUE, !.isReconnected = TRUE]
    OBVIOUS
  <2>3. d \in Conn /\ d.seq = conn[e].seq /\ d.ack = (pkt.seq + 1) % SeqWrap
    BY <1>2, <1>3, <2>1, SYNReceivedInStep
  <2>4. c \in Conn /\ c.seq = d.seq /\ c.ack = d.ack
    BY <2>2, <2>3 DEF Conn
  <2>5. Shakes(e, c, "ACK", net \ {pkt})
    BY <1>5, <1>7, <2>1, <2>2 DEF ReadSYNACK, handshakeACK, Handshake, Shakes
  <2>6. Answers(e, pkt, c, "ACK")
    BY <1>1, <1>3, <1>7, <2>3, <2>4, <2>5 DEF Answers, ReadSYNACK
  <2> QED BY <1>1, <2>4, <2>6, OrderlyAnswer
<1>8. CASE ReadSYN(e, pkt, r)
  <2>1. PICK c : c = SYNReceived(conn[e], pkt)
    OBVIOUS
  <2>2. c \in Conn /\ c.seq = conn[e].seq /\ c.ack = (pkt.seq + 1) % SeqWrap
    BY <1>2, <1>3, <2>1, SYNReceivedInStep
  <2>3. Shakes(e, c, "SYN+ACK", net \ {pkt})
    BY <1>5, <1>8, <2>1 DEF ReadSYN, handshakeSYNACK, Handshake, Shakes
  <2>4. Answers(e, pkt, c, "SYN+ACK")
    BY <1>1, <1>3, <1>8, <2>2, <2>3 DEF Answers, ReadSYN
  <2> QED BY <1>1, <2>2, <2>4, OrderlyAnswer
<1>9. CASE ReadACK(e, pkt, r)
  BY <1>1, <1>5, <1>9, OrderlyReadACK
<1>10. CASE ReadData(e, pkt, r)
  BY <1>1, <1>5, <1>10, OrderlyReadData
<1> QED BY <1>4, <1>6, <1>7, <1>8, <1>9, <1>10

LEMMA OrderlyMulticastSYN ==
  ASSUME Orderly, OInv, NEW pkt \in net, MulticastSYN(pkt)
  PROVE  OInv'
<1> PICK e \in Endpoint : e = "server"
  BY DEF Endpoint
<1>1. pkt.to = e /\ conn[e] = NoConn /\ InOrder(pkt) /\ pkt.kind = "SYN"
  BY DEF MulticastSYN
<1>2. pkt \in Pkt /\ After(pkt) = {[net |-> net \ {pkt}, cost |-> 0]}
  BY <1>1, FirstArrives
<1>3. PICK c : c = SYNReceived(Fresh, pkt)
  OBVIOUS
<1>4. c \in Conn /\ c.seq = 0 /\ c.ack = (pkt.seq + 1) % SeqWrap
  BY <1>2, <1>3, SYNReceivedInStep, FreshFacts
<1>5. total[e] % SeqWrap = 0
  BY <1>1, OrderlyConn, FreshFacts
<1>6. Shakes(e, c, "SYN+ACK", net \ {pkt})
  <2>1. PICK r \in After(pkt) : handshakeSYNACK(e, Fresh, pkt, r)
    BY DEF MulticastSYN
  <2>2. r.net = net \ {pkt}
    BY <1>2, <2>1
  <2> QED BY <1>3, <2>1, <2>2 DEF handshakeSYNACK, Handshake, Shakes
<1>7. Answers(e, pkt, c, "SYN+ACK")
  BY <1>1, <1>4, <1>5, <1>6 DEF Answers, MulticastSYN
<1> QED BY <1>1, <1>4, <1>7, OrderlyAnswer

LEMMA OrderlyAccept ==
  ASSUME Orderly, OInv, Accept
  PROVE  OInv'
<1> PICK e \in Endpoint : e = "server"
  BY DEF Endpoint
<1>0. ListenerWaits /\ 0 % SeqWrap = 0
  BY FreshFacts DEF OInv
<1>1. /\ conn[e] = NoConn /\ backlog # <<>> /\ backlog' = Tail(backlog)
      /\ newest' = [newest EXCEPT ![e] = Newest(newest[e], Head(backlog), TRUE)]
      /\ Shakes(e, SYNReceived(Fresh, Head(backlog)), "SYN+ACK", net)
      /\ inc' = inc /\ UNCHANGED <<multicast, process>>
  BY DEF Accept, Shakes
<1>2. /\ newest \in [Endpoint -> [inc : Nat, end : Nat, ackOf : Nat]]
      /\ newest[e] = NothingRead /\ total[e] = 0
      /\ backlog \in Seq(Pkt) /\ ~multicast
  BY <1>1, OrderlyConn
<1>3. PICK q \in Pkt : q = Head(backlog) /\ q = backlog[1]
  BY <1>1, <1>2
<1>4. q.seq = 0 /\ q.end = 1 /\ q.inc > 0 /\ q.inc \in Nat /\ NoneOlder(q.inc, Line(e))
  BY <1>0, <1>1, <1>2, <1>3, PktFacts DEF ListenerWaits
<1>5. PICK c : c = SYNReceived(Fresh, q)
  OBVIOUS
<1>6. c \in Conn /\ c.seq = 0 /\ c.ack = 1 % SeqWrap
  <2>1. c.ack = (q.seq + 1) % SeqWrap /\ c \in Conn /\ c.seq = 0
    BY <1>5, SYNReceivedInStep, FreshFacts
  <2> QED BY <1>4, <2>1
<1>7. PICK h : h = Newest(NothingRead, q, TRUE)
  OBVIOUS
<1>8. h.end = 1 /\ h.inc = q.inc /\ h \in [inc : Nat, end : Nat, ackOf : Nat]
  BY <1>4, <1>7 DEF Newest, NothingRead
<1>9. newest' = [newest EXCEPT ![e] = h]
  BY <1>1, <1>2, <1>3, <1>7
<1>10. /\ newest' \in [Endpoint -> [inc : Nat, end : Nat, ackOf : Nat]] /\ newest'[e] = h
       /\ \A g \in Endpoint : g # e => newest'[g] = newest[g]
  BY <1>2, <1>8, <1>9
<1>11. Writes(e, c, "SYN+ACK", 0, {})
  <2>1. net = net \ {}
    OBVIOUS
  <2> QED BY <1>1, <1>3, <1>5, <2>1, HandshakeIsWritten
<1>12. CanWrite(e, c, "SYN+ACK", 0)
  BY <1>0, <1>2, <1>6 DEF CanWrite
<1>13. Left(e, {}) = Line(e) /\ Chain(Left(e, {}))
  BY LeftOfAll
<1>14. GoesOn(h, Left(e, {}))
  BY <1>4, <1>8, <1>13 DEF GoesOn, NoneOlder
<1>15. /\ backlog' \in Seq(Pkt) /\ (multicast => backlog' = <<>>) /\ (e = "client" => backlog' = backlog)
       /\ UNCHANGED <<multicast, process>>
  BY <1>1, <1>2
<1>16. c.ack = newest'[e].end % SeqWrap /\ GoesOn(newest'[e], Left(e, {}))
  BY <1>6, <1>8, <1>10, <1>14
<1>17. FollowsOn(e, c, {})
  BY <1>10, <1>13, <1>15, <1>16 DEF FollowsOn
<1>18. {} \in SUBSET {p \in net : p.to = e} /\ c \in Conn
  BY <1>6
<1> QED BY <1>11, <1>12, <1>17, <1>18, OrderlySend

LEMMA OrderlyDuplicate ==
  ASSUME OInv, AcceptDuplicate
  PROVE  OInv'
<1>1. TypeOK /\ process = "running" /\ SeqIsTotal /\ OnTheirWay /\ Follows /\ ListenerWaits
  BY OrderlyFacts
<1>2. /\ backlog # <<>> /\ conn["server"] # NoConn /\ backlog' = Tail(backlog)
      /\ UNCHANGED <<multicast, process, conn, net, inc, total, count, newest>>
  BY DEF AcceptDuplicate
<1>3. TypeOK'
  <2>1. backlog' \in Seq(Pkt)
    BY <1>1, <1>2 DEF TypeOK
  <2> QED BY <1>1, <1>2, <2>1 DEF TypeOK
<1>4. SeqIsTotal'
  BY <1>1, <1>2 DEF SeqIsTotal
<1>5. \A e \in Endpoint : Line(e)' = Line(e)
  BY <1>2 DEF Line, Coming
<1>6. OnTheirWay'
  <2>1. \A p \in net' : Numbered(p)'
    BY <1>1, <1>2 DEF OnTheirWay, Numbered
  <2>2. \A e \in Endpoint : Chain(Line(e)')
    BY <1>1, <1>5 DEF OnTheirWay
  <2> QED BY <2>1, <2>2 DEF OnTheirWay
<1>7. Follows'
  <2>1. \A e \in Endpoint : conn[e] # NoConn => GoesOn(newest[e], Line(e)')
    BY <1>1, <1>5 DEF Follows
  <2> QED BY <1>1, <1>2, <2>1 DEF Follows
<1>8. ListenerWaits'
  BY <1>1, <1>2 DEF ListenerWaits
<1> QED BY <1>1, <1>2, <1>3, <1>4, <1>6, <1>7, <1>8 DEF OInv

\* The client is started again: what it sent is on its way, and what it will
\* send comes after that.
LEMMA OrderlyRestart ==
  ASSUME Orderly, OInv, NEW r \in Endpoint, Restart(r)
  PROVE  OInv'
<1>0. TypeOK /\ process = "running" /\ SeqIsTotal /\ OnTheirWay /\ Follows /\ ListenerWaits
  BY OrderlyFacts
<1>1. PICK e \in Endpoint : e = "client" /\ e = r
  BY DEF Restart, Orderly, Endpoint
<1>2. PICK f \in Endpoint : f = "server" /\ f = Peer(e) /\ e = Peer(f) /\ f # e
  BY <1>1 DEF Endpoint, Peer
<1>3. /\ conn' = [conn EXCEPT ![e] = NoConn] /\ backlog' = backlog /\ net' = net
      /\ inc' = [inc EXCEPT ![e] = inc[e] + 1] /\ total' = [total EXCEPT ![e] = 0]
      /\ count' = [count EXCEPT ![e] = 0] /\ newest' = [newest EXCEPT ![e] = NothingRead]
      /\ UNCHANGED <<multicast, process>>
  BY <1>0, <1>1 DEF Restart, Ends
<1>4. \A g \in Endpoint : g = e \/ g = f
  BY <1>1, <1>2 DEF Endpoint
<1>5. /\ conn \in [Endpoint -> Conn \cup {NoConn}] /\ inc \in [Endpoint -> Nat \ {0}]
      /\ total \in [Endpoint -> Nat] /\ count \in [Endpoint -> Nat]
      /\ newest \in [Endpoint -> [inc : Nat, end : Nat, ackOf : Nat]]
      /\ backlog \in Seq(Pkt) /\ net \in SUBSET Pkt
  BY <1>0 DEF TypeOK
<1>6. conn'[e] = NoConn /\ conn'[f] = conn[f] /\ conn' \in [Endpoint -> Conn \cup {NoConn}]
  BY <1>2, <1>3, <1>5
<1>7. /\ total'[e] = 0 /\ total'[f] = total[f] /\ total' \in [Endpoint -> Nat]
      /\ count'[e] = 0 /\ count'[f] = count[f] /\ count' \in [Endpoint -> Nat]
  BY <1>2, <1>3, <1>5
<1>8. inc'[e] = inc[e] + 1 /\ inc'[f] = inc[f] /\ inc' \in [Endpoint -> Nat \ {0}] /\ inc[e] \in Nat
  <2>0. PICK i \in Nat \ {0} : i = inc[e]
    BY <1>5
  <2>1. inc[e] \in Nat /\ inc[e] + 1 \in Nat \ {0}
    BY <2>0
  <2> QED BY <1>2, <1>3, <1>5, <2>1
<1>9. /\ newest'[e] = NothingRead /\ newest'[f] = newest[f]
      /\ newest' \in [Endpoint -> [inc : Nat, end : Nat, ackOf : Nat]]
  <2>1. NothingRead \in [inc : Nat, end : Nat, ackOf : Nat]
    BY DEF NothingRead
  <2> QED BY <1>2, <1>3, <1>5, <2>1
<1>10. TypeOK'
  BY <1>3, <1>5, <1>6, <1>7, <1>8, <1>9 DEF TypeOK
<1>11. SeqIsTotal'
  BY <1>0, <1>4, <1>6, <1>7 DEF SeqIsTotal
<1>12. ASSUME NEW p \in net' PROVE Numbered(p)'
  <2>1. Numbered(p) /\ p.inc \in Nat /\ p.to \in Endpoint
    BY <1>0, <1>3, <1>5 DEF OnTheirWay, Pkt
  <2>2. Peer(p.to) = e \/ Peer(p.to) = f
    BY <1>4, <2>1, PeerOfPeer
  <2>3. p.inc < inc'[Peer(p.to)] \/ (p.inc = inc'[Peer(p.to)] /\ p.n < count'[Peer(p.to)])
    <3>1. p.inc < inc[Peer(p.to)] \/ (p.inc = inc[Peer(p.to)] /\ p.n < count[Peer(p.to)])
      BY <2>1 DEF Numbered
    <3> QED BY <1>7, <1>8, <2>1, <2>2, <3>1
  <2> QED BY <2>1, <2>3 DEF Numbered
<1>13. Line(e)' = Line(e)
  <2>1. Coming(f)' = Coming(f)
    BY <1>7, <1>8 DEF Coming
  <2> QED BY <1>2, <1>3, <2>1 DEF Line
<1> DEFINE T == {p \in net : p.to = f}
<1>14. PICK c : c = Coming(e)
  OBVIOUS
<1>15. PICK d : d = Coming(e)'
  OBVIOUS
<1>16. /\ T \in SUBSET Pkt /\ c \in Pkt /\ Line(f) = T \cup {c} /\ c.inc = inc[e]
       /\ \A p \in T : p.inc < c.inc \/ (p.inc = c.inc /\ p.n < c.n)
  BY <1>0, <1>2, <1>14, LineFacts DEF OnTheirWay
<1>17. d \in Pkt /\ d.inc = c.inc + 1 /\ d.n = 0
  <2>1. d = [to |-> f, kind |-> "ACK", seq |-> 0, ack |-> 0, id |-> 0, len |-> 0,
             inc |-> inc[e] + 1, n |-> 0, end |-> 0, first |-> 0, write |-> "done"]
    BY <1>2, <1>7, <1>8, <1>15 DEF Coming
  <2> QED BY <1>8, <1>16, <2>1 DEF Pkt
<1>18. Line(f)' = T \cup {d}
  BY <1>2, <1>3, <1>15 DEF Line
<1> HIDE DEF T
<1>19. /\ Chain(T \cup {d})
       /\ GoesOn(newest[f], T \cup {c}) => GoesOn(newest[f], T \cup {d})
  <2>1. Chain(T \cup {c})
    BY <1>0, <1>16 DEF OnTheirWay
  <2>2. newest[f] \in [inc : Nat, end : Nat, ackOf : Nat]
    BY <1>5
  <2> QED BY <1>16, <1>17, <2>1, <2>2, LineOfRestarted
<1>20. OnTheirWay'
  <2>1. Chain(Line(e)') /\ Chain(Line(f)')
    BY <1>0, <1>13, <1>18, <1>19 DEF OnTheirWay
  <2> QED BY <1>4, <1>12, <2>1 DEF OnTheirWay
<1>21. Follows'
  <2>1. conn[f] = NoConn => newest'[f] = NothingRead
    BY <1>0, <1>9 DEF Follows
  <2>2. conn[f] # NoConn => conn'[f].ack = newest'[f].end % SeqWrap /\ GoesOn(newest'[f], Line(f)')
    BY <1>0, <1>6, <1>9, <1>16, <1>18, <1>19 DEF Follows
  <2>3. ASSUME NEW g \in Endpoint
        PROVE  IF conn'[g] = NoConn THEN newest'[g] = NothingRead
               ELSE conn'[g].ack = newest'[g].end % SeqWrap /\ GoesOn(newest'[g], Line(g)')
    BY <1>4, <1>6, <1>9, <2>1, <2>2
  <2> QED BY <2>3 DEF Follows, GoesOn, NothingRead
<1>22. WholeStreams(Line(f)) => WholeStreams(Line(f)')
  <2> SUFFICES ASSUME WholeStreams(T \cup {c}), NEW p \in T \cup {d}
               PROVE  \E s \in T \cup {d} : s.inc = p.inc /\ s.n = 0
    BY <1>16, <1>18 DEF WholeStreams
  <2>1. CASE p = d
    BY <1>17, <2>1
  <2>2. CASE p \in T
    <3>1. PICK s \in T \cup {c} : s.inc = p.inc /\ s.n = 0
      BY <2>2 DEF WholeStreams
    <3>2. p.n \in Nat /\ p.inc \in Nat
      BY <1>16, <2>2, PktFacts
    <3>3. s # c
      BY <1>8, <1>16, <2>2, <3>1, <3>2
    <3> QED BY <3>1, <3>3
  <2> QED BY <2>1, <2>2
<1>23. ASSUME NEW i \in Nat, NoneOlder(i, Line(f)) PROVE NoneOlder(i, Line(f)')
  <2>1. i <= c.inc /\ \A p \in T : i <= p.inc
    BY <1>16, <1>23 DEF NoneOlder
  <2>2. i <= d.inc
    BY <1>8, <1>16, <1>17, <2>1
  <2> QED BY <1>18, <2>1, <2>2 DEF NoneOlder
<1>24. ListenerWaits'
  <2>1. multicast' = multicast /\ backlog' = backlog /\ conn'[f] = conn[f]
    BY <1>3, <1>6
  <2>2. ASSUME conn[f] = NoConn, ~multicast, backlog = <<>>
        PROVE  WholeStreams(Line(f)')
    BY <1>0, <1>2, <1>22, <2>2 DEF ListenerWaits
  <2>3. ASSUME conn[f] = NoConn, ~multicast, backlog # <<>>
        PROVE  /\ backlog[1].seq = 0 /\ backlog[1].end = 1 /\ backlog[1].inc > 0
               /\ NoneOlder(backlog[1].inc, Line(f)')
    <3>1. /\ backlog[1].seq = 0 /\ backlog[1].end = 1 /\ backlog[1].inc > 0
          /\ NoneOlder(backlog[1].inc, Line(f))
      BY <1>0, <1>2, <2>3 DEF ListenerWaits
    <3>2. backlog[1] \in Pkt
      <4>1. Head(backlog) \in Pkt /\ Head(backlog) = backlog[1]
        BY <1>0, <2>3, BacklogTail
      <4> QED BY <4>1
    <3>3. backlog[1].inc \in Nat
      BY <3>2, PktFacts
    <3> QED BY <1>23, <3>1, <3>3
  <2> QED BY <1>0, <1>2, <2>1, <2>2, <2>3 DEF ListenerWaits, NoneOlder, WholeStreams
<1> QED BY <1>0, <1>3, <1>10, <1>11, <1>20, <1>21, <1>24 DEF OInv

LEMMA OrderlyInit ==
  ASSUME Init
  PROVE  OInv
<1>1. conn = [e \in Endpoint |-> NoConn] /\ newest = [e \in Endpoint |-> NothingRead]
      /\ net = {} /\ backlog = <<>> /\ process = "running" /\ inc = [e \in Endpoint |-> 1]
      /\ total = [e \in Endpoint |-> 0] /\ count = [e \in Endpoint |-> 0]
  BY DEF Init
<1>2. TypeOK
  <2>1. NothingRead \in [inc : Nat, end : Nat, ackOf : Nat]
    BY DEF NothingRead
  <2> QED BY <1>1, <2>1 DEF TypeOK
<1>3. SeqIsTotal /\ Follows
  BY <1>1 DEF SeqIsTotal, Follows
<1>4. ASSUME NEW e \in Endpoint
      PROVE  Chain(Line(e)) /\ WholeStreams(Line(e))
  <2>1. PICK c : c = Coming(Peer(e))
    OBVIOUS
  <2>2. Line(e) = {c}
    BY <1>1, <2>1 DEF Line
  <2>3. c.n = 0 /\ c.inc = 1 /\ c.end = 0 /\ Start(c) = 0
    BY <1>1, <2>1, PeerOfPeer DEF Coming, Start, Size
  <2> QED BY <2>2, <2>3 DEF Chain, WholeStreams
<1>5. OnTheirWay
  BY <1>1, <1>4 DEF OnTheirWay
<1>6. ListenerWaits
  <2>1. WholeStreams(Line("server"))
    BY <1>4 DEF Endpoint
  <2> QED BY <1>1, <2>1 DEF ListenerWaits
<1> QED BY <1>1, <1>2, <1>3, <1>5, <1>6 DEF OInv

LEMMA OrderlyStutter ==
  ASSUME OInv, UNCHANGED vars
  PROVE  OInv'
<1>1. /\ UNCHANGED <<multicast, process, conn, backlog, net, inc>>
      /\ UNCHANGED <<total, count, newest>>
  BY DEF vars
<1>2. TypeOK /\ process = "running" /\ SeqIsTotal /\ OnTheirWay /\ Follows /\ ListenerWaits
  BY OrderlyFacts
<1>3. TypeOK' /\ SeqIsTotal'
  BY <1>1, <1>2 DEF TypeOK, SeqIsTotal
<1>4. \A e \in Endpoint : Line(e)' = Line(e)
  BY <1>1 DEF Line, Coming
<1>5. OnTheirWay'
  <2>1. \A p \in net' : Numbered(p)'
    BY <1>1, <1>2 DEF OnTheirWay, Numbered
  <2>2. \A e \in Endpoint : Chain(Line(e)')
    BY <1>2, <1>4 DEF OnTheirWay
  <2> QED BY <2>1, <2>2 DEF OnTheirWay
<1>6. Follows'
  <2>1. \A e \in Endpoint : conn[e] # NoConn => GoesOn(newest[e], Line(e)')
    BY <1>2, <1>4 DEF Follows
  <2> QED BY <1>1, <1>2, <2>1 DEF Follows
<1>7. ListenerWaits'
  <2>1. Line("server")' = Line("server")
    BY <1>4 DEF Endpoint
  <2> QED BY <1>1, <1>2, <2>1 DEF ListenerWaits
<1> QED BY <1>1, <1>2, <1>3, <1>5, <1>6, <1>7 DEF OInv

LEMMA OrderlyNext ==
  ASSUME Orderly, OInv, [Next]_vars
  PROVE  OInv'
<1>0. Faults = {} /\ (\A p \in net : p.kind # "RST")
  BY DEF Orderly, OInv, OnTheirWay, Numbered
<1>1. CASE DialFakeTCP
  BY <1>1, OrderlyDial
<1>2. CASE Publish
  BY <1>2, OrderlyPublish
<1>3. CASE \E e \in Endpoint, l \in Length : WriteTo(e, l)
  BY <1>3, OrderlyWriteTo
<1>4. CASE \E e \in Endpoint, l \in Length : \E k \in 0 .. Segments(l) - 1 : WriteToError(e, l, k)
  BY <1>0, <1>4 DEF WriteToError
<1>5. CASE \E pkt \in net : Lose(pkt)
  BY <1>0, <1>5 DEF Lose
<1>6. CASE \E e \in Endpoint, pkt \in net : ReadFrom(e, pkt)
  BY <1>6, OrderlyReadFrom
<1>7. CASE \E pkt \in net : MulticastRST(pkt)
  BY <1>0, <1>7 DEF MulticastRST
<1>8. CASE \E pkt \in net : MulticastSYN(pkt)
  BY <1>8, OrderlyMulticastSYN
<1>9. CASE \E pkt \in net : Ignored(pkt)
  BY <1>9, OrderlyIgnored
<1>10. CASE \E pkt \in net : Capture(pkt)
  BY <1>10, OrderlyCapture
<1>11. CASE Accept
  BY <1>11, OrderlyAccept
<1>12. CASE AcceptError
  BY <1>0, <1>12 DEF AcceptError
<1>13. CASE AcceptDuplicate
  BY <1>13, OrderlyDuplicate
<1>14. CASE \E e \in Endpoint : Restart(e)
  BY <1>14, OrderlyRestart
<1>15. CASE UNCHANGED vars
  BY <1>15, OrderlyStutter
<1> QED BY <1>1, <1>2, <1>3, <1>4, <1>5, <1>6, <1>7, <1>8, <1>9, <1>10, <1>11, <1>12, <1>13,
           <1>14, <1>15 DEF Next

\* Without faults the packets arrive as the numbers of their sender go on,
\* however often the numbers wrap and the client is started again.
THEOREM OrderlyInductive == Orderly /\ Spec => []OInv
<1> SUFFICES ASSUME Orderly PROVE Spec => []OInv
  OBVIOUS
<1>1. Init => OInv
  BY OrderlyInit
<1>2. OInv /\ [Next]_vars => OInv'
  BY OrderlyNext
<1> QED BY <1>1, <1>2, PTL DEF Spec

\* Each endpoint acknowledges exactly up to the newest packet that it read,
\* also when sequence numbers wrap (AckIsNewestRead).
THEOREM OrderlyAcks == Orderly /\ Spec => []AckIsNewestRead
<1>1. OInv => AckIsNewestRead
  BY DEF OInv, Follows, AckIsNewestRead
<1> QED BY <1>1, OrderlyInductive, PTL

=============================================================================
