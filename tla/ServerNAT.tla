----------------------------- MODULE ServerNAT -----------------------------
(***************************************************************************)
(* The network address translation of ikago-server                         *)
(* (cmd/ikago-server/main.go): the port/Id pools and their distributor     *)
(* dist, the map patMap from quintuples to upstream ports, the table nat   *)
(* from upstream ports back to the client connection, and the two          *)
(* goroutines that share them: handleListen, which serves the channel of   *)
(* packets that clients send, and handleUpstream, which serves the packets *)
(* captured on the upstream device.                                        *)
(*                                                                         *)
(* The two goroutines interleave between the statements that touch shared  *)
(* state, so each handler is several actions linked by a program counter.  *)
(* A time.Time kept in a pool is represented by its age, which saturates   *)
(* one above KeepAlive: only the comparison with keepAlive reads it, and   *)
(* the zero time of a port that was never used compares like an old one.   *)
(***************************************************************************)
EXTENDS Integers

CONSTANTS
  Addr,         \* addresses of sources, as NATSrc prints them
  Client,       \* clients, one connection each
  Protocol,     \* the protocols in use, some of TCP, UDP and ICMPv4
  Flow,         \* quintuples <<source, client, protocol>> in use
  PoolSize,     \* slots of each protocol's pool (16384, 16384, 65536)
  CounterWrap,  \* values of the uint16 counters nextTCPPort, ... (65536)
  KeepAlive,    \* keepAlive, in ticks
  OuterId,      \* values of the Id field in the header of ICMPv4 errors
  NoPort, NoEntry, NoFlow, NoPacket

Quintuple == [src : Addr, dst : Client, protocol : Protocol]

ASSUME ProtocolAssumption == Protocol \subseteq {"TCP", "UDP", "ICMPv4"}

ASSUME FlowAssumption == Flow \subseteq Quintuple

\* The pool size divides the range of the counter, as 16384 and 65536 do.
ASSUME PoolAssumption ==
  /\ PoolSize \in [Protocol -> Nat \ {0}]
  /\ CounterWrap \in Nat \ {0}
  /\ \A p \in Protocol : PoolSize[p] <= IF p = "ICMPv4" THEN 65536 ELSE 16384
  /\ \A p \in Protocol : CounterWrap % PoolSize[p] = 0

ASSUME KeepAliveAssumption == KeepAlive \in Nat

ASSUME OuterIdAssumption ==
  "ICMPv4" \in Protocol => OuterId \subseteq 0 .. PoolSize["ICMPv4"] - 1

ASSUME NoValueAssumption ==
  /\ NoPort \notin Nat
  /\ NoEntry \notin Flow
  /\ NoFlow \notin Flow

VARIABLES
  process,    \* "running", "stopped" by a signal, or "panicked"
  patMap,     \* patMap: the upstream port or Id of a quintuple
  next,       \* nextTCPPort, nextUDPPort, nextICMPv4Id
  pool,       \* tcpPortPool, udpPortPool, icmpv4IdPool, as ages
  nat,        \* nat: the quintuple behind an upstream address
  listen,     \* the goroutine that runs handleListen
  upstream,   \* the goroutine that runs handleUpstream
  idle,       \* history: age of a quintuple's last packet, either way; an
              \* ICMPv4 error from upstream refreshes another Id and counts not
  sent,       \* history: quintuples whose packets left for upstream
  cut,        \* history: quintuples whose packet left in part, unrecorded since
  recycled    \* history: quintuples that were idle, or had a packet without
              \* stamp, when their port went to another one

vars == <<process, patMap, next, pool, nat, listen, upstream,
          idle, sent, cut, recycled>>

-----------------------------------------------------------------------------
(* Ports, pool slots and NAT addresses.                                    *)

Slot(p) == 0 .. PoolSize[p] - 1

\* An age above KeepAlive: dead or never used.
Expired == KeepAlive + 1

Age == 0 .. Expired

Older(a) == IF a = Expired THEN a ELSE a + 1

\* What dist returns for slot s: 49152+s for ports, s itself for ICMPv4 Ids.
PortOf(p, s) == IF p = "ICMPv4" THEN s ELSE 49152 + s

\* convertFromPort, on uint16; ICMPv4 Ids index their pool directly.
SlotOf(p, v) == IF p = "ICMPv4" THEN v ELSE (v - 49152) % 65536

Port(p) == {PortOf(p, s) : s \in Slot(p)}

Value == UNION {Port(p) : p \in Protocol}

\* Mutant: the NAT is keyed by the IP of the server alone.
NATAddrWithoutPort(p, v) == <<"", 0>>

\* The string form of a NAT address at the server: ip:port for TCP and UDP,
\* ip@id for an ICMPv4 query, the bare IP for an ICMPv4 error inside an error.
NATAddr(p, v) == CASE p \in {"TCP", "UDP"} -> <<":", v>>
                   [] p = "ICMPv4"         -> <<"@", v>>
                   [] OTHER                -> <<"", 0>>

Guide == [src : {":", "@"} \X Value \cup {<<"", 0>>}, protocol : Protocol]

GuideOf(p, v) == [src |-> NATAddr(p, v), protocol |-> p]

-----------------------------------------------------------------------------
(* Packets.  Whether the packet is an ICMPv4 error ("error") decides where *)
(* NATSrc, NATDst and NATProtocol look; "emb" is the transport protocol    *)
(* embedded in the error, "bare" for an ICMPv4 error in an error.          *)

Embedded == Protocol \cup {"bare"}

\* A packet a client forwards: of a flow, or an error about a packet that
\* the flow's source received (so its embedded destination is the source).
ClientPacket ==
  [error : {FALSE}, q : Flow, emb : {"bare"}]
    \cup {k \in [error : {TRUE}, q : Flow, emb : Embedded] :
            /\ "ICMPv4" \in Protocol
            /\ k.emb \in {"bare", k.q.protocol}}

\* The key of patMap: NATSrc, RemoteAddr and NATProtocol of the packet.
\* NATSrc flips an error's embedded addresses, which gives the quintuple of
\* the flow the error is about; a bare IP is the key of no flow.
PatKey(pkt) == IF pkt.error /\ pkt.emb = "bare" THEN NoFlow ELSE pkt.q

\* A packet captured on the upstream device.  "value" is the destination
\* port or Id, or for an error the embedded source port or Id, "id" is the
\* Id field of the ICMPv4 header.
UpstreamPacket ==
  {k \in [layer : Protocol, error : {FALSE}, emb : {"bare"}, value : Value,
          id : {0}] : k.value \in Port(k.layer)}
    \cup {k \in [layer : Protocol \cap {"ICMPv4"}, error : {TRUE}, emb : Embedded,
                 value : Value, id : OuterId] :
            k.emb # "bare" => k.value \in Port(k.emb)}

NATDst(pkt) == IF pkt.error THEN NATAddr(pkt.emb, pkt.value)
                            ELSE NATAddr(pkt.layer, pkt.value)

NATProtocol(pkt) == IF pkt.error THEN IF pkt.emb = "bare" THEN "ICMPv4" ELSE pkt.emb
                                 ELSE pkt.layer

\* The key handleUpstream looks up: NATDst with the outer transport layer.
UpstreamGuide(pkt) == [src |-> NATDst(pkt), protocol |-> pkt.layer]

\* Mutant: the port itself is the index, convertFromPort is forgotten.
UpstreamSlotUnconverted(pkt) == IF pkt.error THEN pkt.id ELSE pkt.value

\* The slot handleUpstream keeps alive: the destination port's, and for
\* ICMPv4 the Id of the outer header whatever the error is about.
UpstreamSlot(pkt) == IF pkt.error THEN pkt.id ELSE SlotOf(pkt.layer, pkt.value)

-----------------------------------------------------------------------------
(* dist: probe the slots from the counter on and take the first whose age  *)
(* exceeds keepAlive.  The counter moves past every slot that was probed.  *)

\* Mutant: the last slot is never probed.
FreeProbesShort(p) ==
  {i \in 0 .. PoolSize[p] - 2 :
     pool[p][((next[p] + i) % CounterWrap) % PoolSize[p]] > KeepAlive}

\* Mutant: >= where the code has >.
FreeProbesEarly(p) ==
  {i \in 0 .. PoolSize[p] - 1 :
     pool[p][((next[p] + i) % CounterWrap) % PoolSize[p]] >= KeepAlive}

Probe(p, i) == ((next[p] + i) % CounterWrap) % PoolSize[p]

FreeProbes(p) == {i \in 0 .. PoolSize[p] - 1 : pool[p][Probe(p, i)] > KeepAlive}

FirstFree(p) == CHOOSE i \in FreeProbes(p) : \A j \in FreeProbes(p) : i <= j

PoolEmpty(p) == FreeProbes(p) = {}

\* Mutant: the counter is wider than 16 bits.
CounterAfterWide(p) == next[p] + (IF PoolEmpty(p) THEN PoolSize[p] ELSE FirstFree(p) + 1)

CounterAfter(p) ==
  (next[p] + (IF PoolEmpty(p) THEN PoolSize[p] ELSE FirstFree(p) + 1)) % CounterWrap

Distributed(p) == PortOf(p, Probe(p, FirstFree(p)))

-----------------------------------------------------------------------------
(* Shared state of the process.                                            *)

ListenIdle == [pc |-> "idle", q |-> NoFlow, error |-> FALSE]

UpstreamIdle == [pc |-> "idle", pkt |-> NoPacket, ni |-> NoEntry, to |-> NoFlow]

NoPorts == [q \in Flow |-> NoPort]

UnusedPool == [p \in Protocol |-> [s \in Slot(p) |-> Expired]]

NoNAT == [g \in Guide |-> NoEntry]

Init ==
  /\ process = "running"
  /\ patMap = NoPorts
  /\ next = [p \in Protocol |-> 0]
  /\ pool = UnusedPool
  /\ nat = NoNAT
  /\ listen = ListenIdle
  /\ upstream = UpstreamIdle
  /\ idle = [q \in Flow |-> Expired]
  /\ sent = {}
  /\ cut = {}
  /\ recycled = {}

\* Every table is in memory and ends with the process.
ProcessEnds(how) ==
  /\ process' = how
  /\ patMap' = NoPorts
  /\ next' = [p \in Protocol |-> 0]
  /\ pool' = UnusedPool
  /\ nat' = NoNAT
  /\ listen' = ListenIdle
  /\ upstream' = UpstreamIdle
  /\ idle' = [q \in Flow |-> Expired]
  /\ sent' = {}
  /\ cut' = {}
  /\ recycled' = {}

\* A signal: closeAll and os.Exit.
Terminate == process = "running" /\ ProcessEnds("stopped")

\* The operator starts the server again.
Restart ==
  /\ process # "running"
  /\ process' = "running"
  /\ UNCHANGED <<patMap, next, pool, nat, listen, upstream, idle, sent, cut, recycled>>

\* Time passes.
Tick ==
  /\ process = "running"
  /\ pool' = [p \in Protocol |-> [s \in Slot(p) |-> Older(pool[p][s])]]
  /\ idle' = [q \in Flow |-> Older(idle[q])]
  /\ UNCHANGED <<process, patMap, next, nat, listen, upstream, sent, cut, recycled>>

-----------------------------------------------------------------------------
(* handleListen.                                                           *)

\* Quintuples other than q that hold port v.
OtherHolders(q, v) ==
  {r \in Flow : r # q /\ r.protocol = q.protocol /\ patMap[r] = v}

\* A packet of q has left or come, and its port is not stamped yet: the packet
\* is in the hands of a handler, or was cut short by an error.
Unstamped(q) ==
  \/ listen.pc \in {"more", "nat", "alive"} /\ listen.q = q
  \/ upstream.pc = "alive" /\ ~upstream.pkt.error /\ upstream.ni = q
  \/ q \in cut

\* The quintuple has a port already.
ListenKnown(pkt) ==
  /\ PatKey(pkt) \in Flow
  /\ patMap[PatKey(pkt)] # NoPort
  /\ listen' = [pc |-> "write", q |-> PatKey(pkt), error |-> pkt.error]
  /\ UNCHANGED <<patMap, next, recycled>>

\* The quintuple is new: distribute a port and map it.
ListenNew(pkt) ==
  /\ ~pkt.error
  /\ LET q == PatKey(pkt) IN
     /\ patMap[q] = NoPort
     /\ ~PoolEmpty(q.protocol)
     /\ patMap' = [patMap EXCEPT ![q] = Distributed(q.protocol)]
     /\ next' = [next EXCEPT ![q.protocol] = CounterAfter(q.protocol)]
     /\ recycled' = recycled \cup
          {r \in OtherHolders(q, Distributed(q.protocol)) : idle[r] > KeepAlive \/ Unstamped(r)}
     /\ listen' = [pc |-> "write", q |-> q, error |-> FALSE]

\* "pool empty": every port was used within keepAlive, the packet is dropped.
ListenPoolEmpty(pkt) ==
  /\ ~pkt.error
  /\ LET q == PatKey(pkt) IN
     /\ patMap[q] = NoPort
     /\ PoolEmpty(q.protocol)
     /\ next' = [next EXCEPT ![q.protocol] = CounterAfter(q.protocol)]
  /\ UNCHANGED <<patMap, recycled, listen>>

\* "missing nat": an ICMPv4 error about an unknown quintuple is dropped.
ListenMissingNAT(pkt) ==
  /\ pkt.error
  /\ PatKey(pkt) \in Flow => patMap[PatKey(pkt)] = NoPort
  /\ UNCHANGED <<patMap, next, recycled, listen>>

\* Parse the packet that came from the channel and distribute a port.
ListenDistribute(pkt) ==
  /\ process = "running"
  /\ listen.pc = "idle"
  /\ \/ ListenKnown(pkt)
     \/ ListenNew(pkt)
     \/ ListenPoolEmpty(pkt)
     \/ ListenMissingNAT(pkt)
  /\ UNCHANGED <<process, pool, nat, upstream, idle, sent, cut>>

\* A fragment has no transport layer: no port is distributed, and
\* CreateFragmentPackets asserts the type of its nil transport layer.  The
\* panic is in a goroutine of the process.
ListenFragment ==
  /\ process = "running"
  /\ listen.pc = "idle"
  /\ ProcessEnds("panicked")

\* A packet, or a fragment of it, goes to the upstream device.
Leaves ==
  /\ sent' = IF listen.error THEN sent ELSE sent \cup {listen.q}
  /\ idle' = [idle EXCEPT ![listen.q] = 0]

\* Rewrite source address and port, and write the fragments of the packet: one
\* that is not the last.
ListenWriteMore ==
  /\ process = "running"
  /\ listen.pc \in {"write", "more"}
  /\ Leaves
  /\ listen' = [listen EXCEPT !.pc = "more"]
  /\ UNCHANGED <<process, patMap, next, pool, nat, upstream, cut, recycled>>

\* The last fragment is written.
ListenWrite ==
  /\ process = "running"
  /\ listen.pc \in {"write", "more"}
  /\ Leaves
  /\ listen' = [listen EXCEPT !.pc = IF listen.error THEN "alive" ELSE "nat"]
  /\ UNCHANGED <<process, patMap, next, pool, nat, upstream, cut, recycled>>

\* A write fails: the handler returns, the port stays in patMap.  What was
\* written before is neither recorded nor stamped.
ListenWriteError ==
  /\ process = "running"
  /\ listen.pc \in {"write", "more"}
  /\ cut' = IF listen.pc = "more" THEN cut \cup {listen.q} ELSE cut
  /\ listen' = ListenIdle
  /\ UNCHANGED <<process, patMap, next, pool, nat, upstream, idle, sent, recycled>>

\* Mutant: the case of UDP does not set addNAT.
ListenNATNotAdded ==
  /\ process = "running"
  /\ listen.pc = "nat"
  /\ nat' = IF listen.q.protocol = "UDP" THEN nat
            ELSE [nat EXCEPT ![GuideOf(listen.q.protocol, patMap[listen.q])] = listen.q]
  /\ cut' = cut \ {listen.q}
  /\ listen' = [listen EXCEPT !.pc = "alive"]
  /\ UNCHANGED <<process, patMap, next, pool, upstream, idle, sent, recycled>>

\* Under natLock: record where replies to the port go.
ListenNAT ==
  /\ process = "running"
  /\ listen.pc = "nat"
  /\ nat' = [nat EXCEPT ![GuideOf(listen.q.protocol, patMap[listen.q])] = listen.q]
  /\ cut' = cut \ {listen.q}
  /\ listen' = [listen EXCEPT !.pc = "alive"]
  /\ UNCHANGED <<process, patMap, next, pool, upstream, idle, sent, recycled>>

\* Keep alive the slot of the port, without a lock.
ListenKeepAlive ==
  /\ process = "running"
  /\ listen.pc = "alive"
  /\ LET p == listen.q.protocol
         s == SlotOf(p, patMap[listen.q])
     IN  pool' = [pool EXCEPT ![p][s] = 0]
  /\ idle' = [idle EXCEPT ![listen.q] = 0]
  /\ listen' = ListenIdle
  /\ UNCHANGED <<process, patMap, next, nat, upstream, sent, cut, recycled>>

-----------------------------------------------------------------------------
(* handleUpstream.  "to" is the quintuple the packet answers, NoFlow for   *)
(* one that answers nothing this process sent.                             *)

Answers(pkt, q) ==
  /\ q \in sent
  /\ NATProtocol(pkt) = q.protocol
  /\ pkt.error => pkt.emb # "bare"
  /\ pkt.value = patMap[q]

\* Look up the NAT under natLock.
UpstreamLookup(pkt, to) ==
  /\ process = "running"
  /\ upstream.pc = "idle"
  /\ to # NoFlow => Answers(pkt, to)
  /\ LET ni == nat[UpstreamGuide(pkt)] IN
     /\ ni # NoEntry
     /\ upstream' = [pc |-> "alive", pkt |-> pkt, ni |-> ni, to |-> to]
     /\ idle' = IF pkt.error THEN idle ELSE [idle EXCEPT ![ni] = 0]
  /\ UNCHANGED <<process, patMap, next, pool, nat, listen, sent, cut, recycled>>

\* Not in the NAT: the packet is dropped.
UpstreamMiss(pkt) ==
  /\ process = "running"
  /\ upstream.pc = "idle"
  /\ nat[UpstreamGuide(pkt)] = NoEntry
  /\ UNCHANGED vars

\* Keep alive, without a lock.
UpstreamKeepAlive ==
  /\ process = "running"
  /\ upstream.pc = "alive"
  /\ pool' = [pool EXCEPT ![NATProtocol(upstream.pkt)][UpstreamSlot(upstream.pkt)] = 0]
  /\ idle' = IF upstream.pkt.error THEN idle ELSE [idle EXCEPT ![upstream.ni] = 0]
  /\ upstream' = [upstream EXCEPT !.pc = "write"]
  /\ UNCHANGED <<process, patMap, next, nat, listen, sent, cut, recycled>>

\* Write to the connection of the client of upstream.ni, with its source as
\* the destination, or fail to.  (A packet that came in fragments is forwarded
\* as these, and the port in the first of them is not translated; the ports
\* inside of packets are not modelled.)
UpstreamWrite ==
  /\ process = "running"
  /\ upstream.pc = "write"
  /\ upstream' = UpstreamIdle
  /\ UNCHANGED <<process, patMap, next, pool, nat, listen, idle, sent, cut, recycled>>

-----------------------------------------------------------------------------

Next ==
  \/ \E pkt \in ClientPacket : ListenDistribute(pkt)
  \/ ListenFragment
  \/ ListenWriteMore
  \/ ListenWrite
  \/ ListenWriteError
  \/ ListenNAT
  \/ ListenKeepAlive
  \/ \E pkt \in UpstreamPacket, to \in Flow \cup {NoFlow} : UpstreamLookup(pkt, to)
  \/ \E pkt \in UpstreamPacket : UpstreamMiss(pkt)
  \/ UpstreamKeepAlive
  \/ UpstreamWrite
  \/ Tick
  \/ Terminate
  \/ Restart

Spec == Init /\ [][Next]_vars

-----------------------------------------------------------------------------
(* Properties.                                                             *)

\* Every variable has its type; a quintuple holds a port of its protocol's pool.
TypeOK ==
  /\ process \in {"running", "stopped", "panicked"}
  /\ patMap \in [Flow -> Value \cup {NoPort}]
  /\ \A q \in Flow : patMap[q] # NoPort => patMap[q] \in Port(q.protocol)
  /\ next \in [Protocol -> 0 .. CounterWrap - 1]
  /\ DOMAIN pool = Protocol
  /\ \A p \in Protocol : pool[p] \in [Slot(p) -> Age]
  /\ nat \in [Guide -> Flow \cup {NoEntry}]
  /\ listen \in [pc : {"idle", "write", "more", "nat", "alive"},
                 q : Flow \cup {NoFlow}, error : BOOLEAN]
  /\ upstream \in [pc : {"idle", "alive", "write"},
                   pkt : UpstreamPacket \cup {NoPacket},
                   ni : Flow \cup {NoEntry}, to : Flow \cup {NoFlow}]
  /\ idle \in [Flow -> Age]
  /\ sent \in SUBSET Flow
  /\ cut \in SUBSET Flow
  /\ recycled \in SUBSET Flow

SamePort(q, r) ==
  /\ q.protocol = r.protocol
  /\ patMap[q] # NoPort
  /\ patMap[q] = patMap[r]

\* dist gives a port to two quintuples only after one of them was idle for
\* more than keepAlive, or had a packet that no stamp protects yet: one that
\* handleUpstream has looked up and not stamped, or one whose write failed
\* midway.  Whatever the goroutines' order, the stamps that they write without
\* a lock protect every other port in use from dist.
SharedOnlyAfterRecycle ==
  \A q, r \in Flow : q # r /\ SamePort(q, r) => q \in recycled \/ r \in recycled

\* The stamps in a pool follow the use of its ports: no quintuple was active
\* more recently than the stamp of its port, unless a packet of it is in the
\* hands of a handler or its write failed midway; and a TCP or UDP port is
\* stamped only for a packet of a quintuple that holds it.  (An ICMPv4 error
\* stamps the Id in its own header, which may be nobody's.)
PoolTracksUse ==
  \A p \in Protocol : \A s \in Slot(p) :
    LET Holder == {q \in Flow : q.protocol = p /\ patMap[q] = PortOf(p, s)} IN
    /\ \A q \in Holder : pool[p][s] <= idle[q] \/ Unstamped(q)
    /\ p # "ICMPv4" /\ pool[p][s] < Expired => \E q \in Holder : idle[q] <= pool[p][s]

\* A reply to a packet that a quintuple sent goes to the connection of that
\* quintuple's client and, in it, to its source, unless the port was recycled
\* from one of the two in between.
RepliesReachTheirSource ==
  upstream.pc = "write" /\ upstream.to # NoFlow =>
    upstream.ni = upstream.to \/ {upstream.ni, upstream.to} \cap recycled # {}

\* handleListen writes the fragments of a packet before it records the NAT, so
\* a reply can find no entry; it can do so only until the handler gets to the
\* record, or after a write that failed midway, until the quintuple's next
\* packet is recorded.
MissOnlyBeforeRecord ==
  \A q \in sent : nat[GuideOf(q.protocol, patMap[q])] = NoEntry =>
    \/ listen.pc \in {"more", "nat"} /\ listen.q = q /\ ~listen.error
    \/ q \in cut

\* "pool empty" is said only when every TCP or UDP port of the pool is held
\* by a quintuple that was active within keepAlive: the wrapping counter
\* skips no port, and no stamp outlives the use of its port.
RefusedOnlyWhenAllInUse ==
  [][\A p \in Protocol \ {"ICMPv4"} :
       next[p] # next'[p] /\ patMap' = patMap /\ process' = "running" =>
         \A s \in Slot(p) : \E q \in Flow :
           q.protocol = p /\ patMap[q] = PortOf(p, s) /\ idle[q] <= KeepAlive]_vars

-----------------------------------------------------------------------------
(* What the documentation says and the code does not do.                   *)


=============================================================================
