------------------------------- MODULE Client -------------------------------
(***************************************************************************)
(* ikago-client (cmd/ikago-client/main.go): packets of the sources are     *)
(* captured on the listen devices and written to the connection to the     *)
(* server, and what comes back is written to the device of the source it   *)
(* is for.                                                                 *)
(*                                                                         *)
(* One goroutine per listen device reads packets and sends them to the     *)
(* channel c, one goroutine receives from c and calls handleListen, and    *)
(* the main goroutine reads from the server and calls handleUpstream.      *)
(*                                                                         *)
(* A place is a hardware address on a listen device.  Statistics and DNS   *)
(* records, which both handlers end with, are in Monitor; what Reconnect   *)
(* does is in FakeTCP.                                                     *)
(***************************************************************************)
EXTENDS Naturals, Sequences

CONSTANTS
  IP,            \* addresses of sources
  HardwareAddr,  \* hardware addresses, with Zero for a loopback device
  Conn,          \* listen devices (listenConns)
  LoopConn,      \* the ones for which IsLoop holds
  Frame,         \* frames that may be captured: [ip, hw, conn, kind]
  Capacity,      \* capacity of c
  MaxCaptures,   \* bound: frames captured in all
  MaxFragments,  \* bound: fragments that a reply is sent in
  None           \* no frame, no entry

Kind == {"ip", "arp", "bad"}

ASSUME FrameAssumption ==
  Frame \subseteq [ip : IP, hw : HardwareAddr, conn : Conn, kind : Kind]

ASSUME ConnAssumption == LoopConn \subseteq Conn

ASSUME BoundAssumption ==
  /\ Capacity \in Nat \ {0}
  /\ MaxCaptures \in Nat
  /\ MaxFragments \in Nat \ {0}

Place == [hw : HardwareAddr, conn : Conn]

\* A captured frame, with a number that tells it from equal ones.
Packet == [n : Nat, frame : Frame]

ASSUME NoneAssumption == None \notin Packet /\ None \notin Place

VARIABLES
  reader,     \* the packet that the goroutine of a device has read, or None
  c,          \* c
  listen,     \* handleListen: [pc, pkt]
  nat,        \* nat
  upstream,   \* handleUpstream: [pc, ip, whole, ni, left]
  captures,   \* frames captured so far
  known,      \* sources that the server answers
  forwarded,  \* history: packets written to the server by this process
  wrote       \* history: where the fragments of the last reply were written

vars == <<reader, c, listen, nat, upstream, captures, known, forwarded, wrote>>

listenVars == <<reader, c, listen, captures, forwarded>>
upstreamVars == <<upstream, wrote>>

-----------------------------------------------------------------------------

ListenIdle == [pc |-> "idle", pkt |-> None]

UpstreamIdle == [pc |-> "idle", ip |-> None, whole |-> TRUE, ni |-> None, left |-> 0]

NoNAT == [i \in IP |-> None]

Init ==
  /\ reader = [k \in Conn |-> None]
  /\ c = <<>>
  /\ listen = ListenIdle
  /\ nat = NoNAT
  /\ upstream = UpstreamIdle
  /\ captures = 0
  /\ known = {}
  /\ forwarded = <<>>
  /\ wrote = <<>>

-----------------------------------------------------------------------------
(* The goroutines of the listen devices.                                   *)

\* Mutant: the buffer is read into again while the packet in it waits.
CaptureOverwrites(f) ==
  /\ captures < MaxCaptures
  /\ captures' = captures + 1
  /\ reader' = [reader EXCEPT ![f.conn] = [n |-> captures + 1, frame |-> f]]
  /\ UNCHANGED <<c, listen, nat, upstream, known, forwarded, wrote>>

\* ReadPacket returns.
Capture(f) ==
  /\ captures < MaxCaptures
  /\ reader[f.conn] = None
  /\ captures' = captures + 1
  /\ reader' = [reader EXCEPT ![f.conn] = [n |-> captures + 1, frame |-> f]]
  /\ UNCHANGED <<c, listen, nat, upstream, known, forwarded, wrote>>

\* Mutant: the packet is sent by a goroutine of its own, and c is as long as
\* it needs to be.
EnqueueUnbounded(k) ==
  /\ reader[k] # None
  /\ c' = Append(c, reader[k])
  /\ reader' = [reader EXCEPT ![k] = None]
  /\ UNCHANGED <<listen, nat, upstream, captures, known, forwarded, wrote>>

\* The packet is sent to c; the goroutine waits while c is full.
Enqueue(k) ==
  /\ reader[k] # None
  /\ Len(c) < Capacity
  /\ c' = Append(c, reader[k])
  /\ reader' = [reader EXCEPT ![k] = None]
  /\ UNCHANGED <<listen, nat, upstream, captures, known, forwarded, wrote>>

-----------------------------------------------------------------------------
(* handleListen and publish, in one goroutine.                             *)

ListenTake ==
  /\ listen.pc = "idle" /\ c # <<>>
  /\ listen' = [pc |-> "parse", pkt |-> Head(c)]
  /\ c' = Tail(c)
  /\ UNCHANGED <<reader, nat, upstreamVars, captures, known, forwarded>>

\* Mutant: the loop ends with the first error.
ListenBadStops ==
  /\ listen.pc = "parse" /\ listen.pkt.frame.kind = "bad"
  /\ listen' = [listen EXCEPT !.pc = "stopped"]
  /\ UNCHANGED <<reader, c, nat, upstreamVars, captures, known, forwarded>>

\* ParsePacket fails.
ListenBad ==
  /\ listen.pc = "parse" /\ listen.pkt.frame.kind = "bad"
  /\ listen' = ListenIdle
  /\ UNCHANGED <<reader, c, nat, upstreamVars, captures, known, forwarded>>

\* publish answers an ARP request and reconnects, or fails.
Publish ==
  /\ listen.pc = "parse" /\ listen.pkt.frame.kind = "arp"
  /\ listen' = ListenIdle
  /\ UNCHANGED <<reader, c, nat, upstreamVars, captures, known, forwarded>>

\* upConn.Write fails, and handleListen returns.
ListenWriteError ==
  /\ listen.pc = "parse" /\ listen.pkt.frame.kind = "ip"
  /\ listen' = ListenIdle
  /\ UNCHANGED <<reader, c, nat, upstreamVars, captures, known, forwarded>>

\* The packet is written to the server, before its source is recorded.
ListenWrite ==
  /\ listen.pc = "parse" /\ listen.pkt.frame.kind = "ip"
  /\ listen' = [listen EXCEPT !.pc = "record"]
  /\ forwarded' = Append(forwarded, listen.pkt)
  /\ known' = known \cup {listen.pkt.frame.ip}
  /\ UNCHANGED <<reader, c, nat, upstreamVars, captures>>

\* The hardware address handleListen records: none but zeros for loopback.
PlaceOf(f) == [hw |-> f.hw, conn |-> f.conn]

\* Mutant: an entry is never replaced.
OutdatedNever(ni, f) == ni = None

\* An entry is replaced only if the hardware address is another.
Outdated(ni, f) == ni = None \/ ni.hw # f.hw

\* The source is recorded, under natLock.
ListenRecord ==
  LET f == listen.pkt.frame
  IN /\ listen.pc = "record"
     /\ nat' = IF Outdated(nat[f.ip], f) THEN [nat EXCEPT ![f.ip] = PlaceOf(f)] ELSE nat
     /\ listen' = ListenIdle
     /\ UNCHANGED <<reader, c, upstreamVars, captures, known, forwarded>>

-----------------------------------------------------------------------------
(* handleUpstream, in the main goroutine.                                  *)

\* A reply for a source that the server knows, perhaps from the time before
\* the client was restarted.  A fragment is one that is not whole.
UpstreamRead(i, whole) ==
  /\ upstream.pc = "idle"
  /\ i \in known
  /\ upstream' = [UpstreamIdle EXCEPT !.pc = "lookup", !.ip = i, !.whole = whole]
  /\ wrote' = <<>>
  /\ UNCHANGED <<listenVars, nat, known>>

\* "missing nat"
UpstreamMiss ==
  /\ upstream.pc = "lookup" /\ nat[upstream.ip] = None
  /\ upstream' = UpstreamIdle
  /\ UNCHANGED <<listenVars, nat, known, wrote>>

\* The entry is found, under natLock, and the packet is made into fragments.
UpstreamLookup(count) ==
  /\ upstream.pc = "lookup" /\ nat[upstream.ip] # None
  /\ upstream.whole
  /\ upstream' = [upstream EXCEPT !.pc = "write", !.ni = nat[upstream.ip], !.left = count]
  /\ UNCHANGED <<listenVars, nat, known, wrote>>

\* The link layer of a reply: addressed to the source, or that of loopback.
LinkLayer(ni) == IF ni.conn \in LoopConn THEN "loopback" ELSE ni.hw

\* Mutant: the entry is looked up for every fragment.
UpstreamWriteLookup ==
  /\ upstream.pc = "write"
  /\ wrote' = Append(wrote, [ip |-> upstream.ip, link |-> LinkLayer(nat[upstream.ip]),
                                conn |-> nat[upstream.ip].conn])
  /\ upstream' = IF upstream.left = 1 THEN UpstreamIdle
                 ELSE [upstream EXCEPT !.left = upstream.left - 1]
  /\ UNCHANGED <<listenVars, nat, known>>

\* One fragment is written to the device of the entry.
UpstreamWrite ==
  /\ upstream.pc = "write"
  /\ wrote' = Append(wrote, [ip |-> upstream.ip, link |-> LinkLayer(upstream.ni),
                                conn |-> upstream.ni.conn])
  /\ upstream' = IF upstream.left = 1 THEN UpstreamIdle
                 ELSE [upstream EXCEPT !.left = upstream.left - 1]
  /\ UNCHANGED <<listenVars, nat, known>>

\* A write fails, and the rest of the reply is not sent.
UpstreamWriteError ==
  /\ upstream.pc = "write"
  /\ upstream' = UpstreamIdle
  /\ UNCHANGED <<listenVars, nat, known, wrote>>

-----------------------------------------------------------------------------
(* The end of the process.                                                 *)

\* The process ends and is started again, with nothing but its connection.
ProcessEnds ==
  /\ reader' = [k \in Conn |-> None]
  /\ c' = <<>>
  /\ listen' = ListenIdle
  /\ nat' = NoNAT
  /\ upstream' = UpstreamIdle
  /\ forwarded' = <<>>
  /\ wrote' = <<>>
  /\ UNCHANGED <<captures, known>>

\* A signal, or the end of the connection to the server.
Terminate == ProcessEnds

\* A fragment has no transport layer, and CreateFragmentPackets panics.
UpstreamPanic ==
  /\ upstream.pc = "lookup" /\ nat[upstream.ip] # None
  /\ ~upstream.whole
  /\ ProcessEnds

Next ==
  \/ \E f \in Frame : Capture(f)
  \/ \E k \in Conn : Enqueue(k)
  \/ ListenTake
  \/ ListenBad
  \/ Publish
  \/ ListenWriteError
  \/ ListenWrite
  \/ ListenRecord
  \/ \E i \in IP, whole \in BOOLEAN : UpstreamRead(i, whole)
  \/ UpstreamMiss
  \/ \E count \in 1 .. MaxFragments : UpstreamLookup(count)
  \/ UpstreamWrite
  \/ UpstreamWriteError
  \/ UpstreamPanic
  \/ Terminate

\* Goroutines run, and goroutines that wait for room in c are served in turn.
Fairness ==
  /\ \A k \in Conn : SF_vars(Enqueue(k))
  /\ WF_vars(ListenTake \/ ListenBad \/ Publish \/ ListenWriteError \/ ListenWrite
               \/ ListenRecord)

Spec == Init /\ [][Next]_vars /\ Fairness

-----------------------------------------------------------------------------
(* Properties.                                                             *)

\* The state of each goroutine has its type, and c its capacity.
TypeOK ==
  /\ reader \in [Conn -> Packet \cup {None}]
  /\ c \in Seq(Packet) /\ Len(c) <= Capacity
  /\ listen \in [pc : {"idle", "parse", "record"}, pkt : Packet \cup {None}]
  /\ listen.pc = "idle" <=> listen.pkt = None
  /\ nat \in [IP -> Place \cup {None}]
  /\ upstream \in [pc : {"idle", "lookup", "write"}, ip : IP \cup {None}, whole : BOOLEAN,
                   ni : Place \cup {None}, left : 0 .. MaxFragments]
  /\ captures \in 0 .. MaxCaptures
  /\ known \subseteq IP
  /\ forwarded \in Seq(Packet)
  /\ wrote \in Seq([ip : IP, link : HardwareAddr \cup {"loopback"}, conn : Conn])

\* The packets of a source that this process has written to the server.
From(i) == {m \in DOMAIN forwarded : forwarded[m].frame.ip = i}

\* handleListen has written a packet of the source and not yet recorded it.
Recording(i) == listen.pc = "record" /\ listen.pkt.frame.ip = i

HwOf(m) == forwarded[m].frame.hw

\* The m-th packet is the first of those in S, up to the last, with one address.
SameAddressSince(S, m) ==
  /\ \A j \in S : j >= m => HwOf(j) = HwOf(m)
  /\ \A l \in S : l < m => \E j \in l .. m - 1 : j \in S /\ HwOf(j) # HwOf(m)

\* The entry is what the packets in S say.
Follows(entry, S) ==
  IF S = {} THEN entry = None
  ELSE \E m \in S : SameAddressSince(S, m) /\ entry = PlaceOf(forwarded[m].frame)

\* But for the moment between the write to the server and the record, nat has
\* a source exactly if a packet of it was forwarded.  The entry is the hardware
\* address that the source used last, on the device where it first used it.
NatFollowsAddress == \A i \in IP : ~Recording(i) => Follows(nat[i], From(i))

\* All fragments of a reply are written to one place, even if nat changes
\* meanwhile, and a packet of the source did come from there.
RepliesStayTogether ==
  \A j \in DOMAIN wrote :
    /\ wrote[j] = wrote[1]
    /\ \E m \in DOMAIN forwarded :
         LET f == forwarded[m].frame
         IN wrote[j] = [ip |-> f.ip, link |-> LinkLayer(PlaceOf(f)), conn |-> f.conn]

\* The packets of a sequence that are of one device, in their order.
OfConn(k, s) ==
  LET Upto[i \in 0 .. Len(s)] ==
        IF i = 0 THEN <<>>
        ELSE IF s[i].frame.conn = k THEN Append(Upto[i - 1], s[i]) ELSE Upto[i - 1]
  IN Upto[Len(s)]

\* The packets of all devices that were sent to c and are not yet handled.
Sent == IF listen.pc = "parse" THEN <<listen.pkt>> \o c ELSE c

\* The packets of a device that were captured and not yet handled.
Waiting(k) == OfConn(k, Sent) \o (IF reader[k] = None THEN <<>> ELSE <<reader[k]>>)

Paths == INSTANCE PacketPaths WITH
  Path <- Conn,
  queue <- [k \in Conn |-> Waiting(k)],
  out <- [k \in Conn |-> OfConn(k, forwarded)]

\* The packets of a device are written to the server in the order in which
\* they were captured, each at most once, through its goroutine, c and
\* handleListen.
ForwardsInOrder == Paths!Spec

\* A packet that was captured is waiting to be handled.
Pending(n) == \E k \in Conn : \E m \in DOMAIN Waiting(k) : Waiting(k)[m].n = n

\* Every packet that is captured is handled: no goroutine waits for ever for
\* room in c.
EveryPacketIsHandled == \A n \in 1 .. MaxCaptures : Pending(n) ~> ~Pending(n)

=============================================================================
