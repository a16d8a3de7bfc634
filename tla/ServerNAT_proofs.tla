--------------------------- MODULE ServerNAT_proofs ---------------------------
(***************************************************************************)
(* Proofs about ServerNAT, for every set of quintuples, every pool size    *)
(* and every keepAlive.                                                    *)
(***************************************************************************)
EXTENDS ServerNAT, TLAPS, NaturalsInduction, WellFoundedInduction

-----------------------------------------------------------------------------
(* The inductive invariant.                                                *)

\* Past the distribution the packet's quintuple has a port.
ListenHolds == listen.pc # "idle" => listen.q \in Flow /\ patMap[listen.q] # NoPort

\* A quintuple without a port was never active.
UnmappedIdle == \A q \in Flow : patMap[q] = NoPort => idle[q] = Expired

\* Only a quintuple with a port sends.
SentMapped == \A q \in sent : patMap[q] # NoPort

\* A NAT entry belongs to a quintuple that holds the port it is under.
NatOwnerHolds ==
  \A g \in Guide : nat[g] # NoEntry =>
    /\ patMap[nat[g]] # NoPort
    /\ g = GuideOf(nat[g].protocol, patMap[nat[g]])

\* The entry that handleUpstream works with is one for its packet.
UpstreamFound ==
  upstream.pc \in {"alive", "write"} =>
    /\ upstream.pkt \in UpstreamPacket
    /\ upstream.ni \in Flow
    /\ patMap[upstream.ni] # NoPort
    /\ UpstreamGuide(upstream.pkt) = GuideOf(upstream.ni.protocol, patMap[upstream.ni])

\* The packet answers the quintuple it is said to.
UpstreamAnswers ==
  upstream.pc \in {"alive", "write"} /\ upstream.to # NoFlow =>
    Answers(upstream.pkt, upstream.to)

IInv ==
  /\ TypeOK
  /\ ListenHolds
  /\ UnmappedIdle
  /\ SentMapped
  /\ NatOwnerHolds
  /\ UpstreamFound
  /\ UpstreamAnswers
  /\ PoolTracksUse
  /\ SharedOnlyAfterRecycle
  /\ MissOnlyBeforeRecord

-----------------------------------------------------------------------------
(* Ports, slots and the distributor.                                       *)

\* Ports of a pool and its slots correspond one to one, so convertFromPort
\* undoes what dist adds.
LEMMA PortSlot ==
  ASSUME NEW p \in Protocol
  PROVE  /\ \A s \in Slot(p) : PortOf(p, s) \in Port(p) /\ SlotOf(p, PortOf(p, s)) = s
         /\ \A v \in Port(p) : SlotOf(p, v) \in Slot(p) /\ PortOf(p, SlotOf(p, v)) = v
<1>1. PoolSize[p] \in Nat /\ PoolSize[p] <= 65536
  BY PoolAssumption
<1>2. ASSUME NEW s \in Slot(p)
      PROVE  PortOf(p, s) \in Port(p) /\ SlotOf(p, PortOf(p, s)) = s
  BY <1>1 DEF Slot, Port, PortOf, SlotOf
<1>3. ASSUME NEW v \in Port(p)
      PROVE  SlotOf(p, v) \in Slot(p) /\ PortOf(p, SlotOf(p, v)) = v
  <2>1. PICK s \in Slot(p) : v = PortOf(p, s)
    BY DEF Port
  <2> QED BY <1>2, <2>1
<1> QED BY <1>2, <1>3

\* Every port is a number, so none is the NoPort of an unmapped quintuple.
LEMMA PortValue ==
  ASSUME NEW p \in Protocol, NEW v \in Port(p)
  PROVE  v \in Nat /\ v \in Value /\ v # NoPort
<1>1. PICK s \in Slot(p) : v = PortOf(p, s)
  BY DEF Port
<1>2. PoolSize[p] \in Nat
  BY PoolAssumption
<1>3. v \in Nat
  BY <1>1, <1>2 DEF Slot, PortOf
<1> QED BY <1>3, NoValueAssumption DEF Value

\* A probe of dist looks at a slot of the pool.
LEMMA ProbeSlot ==
  ASSUME TypeOK, NEW p \in Protocol, NEW i \in Nat
  PROVE  Probe(p, i) \in Slot(p)
<1>1. /\ next[p] \in Nat
      /\ PoolSize[p] \in Nat \ {0}
      /\ CounterWrap \in Nat \ {0}
  BY PoolAssumption DEF TypeOK
<1>2. (next[p] + i) % CounterWrap \in Nat
  BY <1>1
<1> QED BY <1>1, <1>2 DEF Probe, Slot

\* A nonempty set of naturals has a least element.
LEMMA LeastNatural ==
  ASSUME NEW S \in SUBSET Nat, S # {}
  PROVE  \E i \in S : \A j \in S : i <= j
<1>1. PICK i \in S : \A j \in S : ~ (<<j, i>> \in OpToRel(<, Nat))
  BY WFMin, NatLessThanWellFounded
<1>2. ASSUME NEW j \in S PROVE i <= j
  <2>1. ~ (j < i)
    BY <1>1 DEF OpToRel
  <2> QED BY <2>1
<1> QED BY <1>2

\* dist finds the first free slot, if there is one.
LEMMA FirstFreeIsFree ==
  ASSUME NEW p \in Protocol, ~ PoolEmpty(p)
  PROVE  FirstFree(p) \in FreeProbes(p)
<1>1. PoolSize[p] \in Nat
  BY PoolAssumption
<1>2. FreeProbes(p) \in SUBSET Nat
  BY <1>1 DEF FreeProbes
<1> QED BY <1>2, LeastNatural DEF FirstFree, PoolEmpty

\* What dist returns is the port of a slot that is not alive.
LEMMA DistributedIsFree ==
  ASSUME TypeOK, NEW p \in Protocol, ~ PoolEmpty(p)
  PROVE  \E s \in Slot(p) : pool[p][s] = Expired /\ Distributed(p) = PortOf(p, s)
<1>1. FirstFree(p) \in FreeProbes(p) /\ FirstFree(p) \in Nat
  BY FirstFreeIsFree, PoolAssumption DEF FreeProbes
<1>2. Probe(p, FirstFree(p)) \in Slot(p)
  BY <1>1, ProbeSlot
<1>3. pool[p][Probe(p, FirstFree(p))] > KeepAlive
  BY <1>1 DEF FreeProbes
<1>4. pool[p][Probe(p, FirstFree(p))] \in Age
  BY <1>2 DEF TypeOK
<1>5. pool[p][Probe(p, FirstFree(p))] = Expired
  BY <1>3, <1>4, KeepAliveAssumption DEF Age, Expired
<1> QED BY <1>2, <1>5 DEF Distributed

\* The counter stays within the range of its type.
LEMMA CounterInRange ==
  ASSUME TypeOK, NEW p \in Protocol
  PROVE  CounterAfter(p) \in 0 .. CounterWrap - 1
<1>1. /\ next[p] \in Nat
      /\ PoolSize[p] \in Nat \ {0}
      /\ CounterWrap \in Nat \ {0}
  BY PoolAssumption DEF TypeOK
<1>2. CASE PoolEmpty(p)
  BY <1>1, <1>2 DEF CounterAfter
<1>3. CASE ~ PoolEmpty(p)
  <2>1. FirstFree(p) \in Nat
    BY <1>1, <1>3, FirstFreeIsFree DEF FreeProbes
  <2> QED BY <1>1, <1>3, <2>1 DEF CounterAfter
<1> QED BY <1>2, <1>3

-----------------------------------------------------------------------------
(* Type correctness.                                                       *)

USE DEF Expired

\* An age stays an age when time passes.
LEMMA OlderAge ==
  ASSUME NEW a \in Age
  PROVE  Older(a) \in Age
BY KeepAliveAssumption DEF Age, Older

\* The empty tables of a starting process have their types.
LEMMA FreshTables ==
  /\ NoPorts \in [Flow -> Value \cup {NoPort}]
  /\ [p \in Protocol |-> 0] \in [Protocol -> 0 .. CounterWrap - 1]
  /\ DOMAIN UnusedPool = Protocol
  /\ \A p \in Protocol : UnusedPool[p] \in [Slot(p) -> Age]
  /\ NoNAT \in [Guide -> Flow \cup {NoEntry}]
  /\ ListenIdle \in [pc : {"idle", "write", "more", "nat", "alive"},
                     q : Flow \cup {NoFlow}, error : BOOLEAN]
  /\ UpstreamIdle \in [pc : {"idle", "alive", "write"},
                       pkt : UpstreamPacket \cup {NoPacket},
                       ni : Flow \cup {NoEntry}, to : Flow \cup {NoFlow}]
  /\ [q \in Flow |-> Expired] \in [Flow -> Age]
<1>1. Expired \in Age
  BY KeepAliveAssumption DEF Age
<1>2. 0 \in 0 .. CounterWrap - 1
  BY PoolAssumption
<1> QED BY <1>1, <1>2 DEF NoPorts, UnusedPool, NoNAT, ListenIdle, UpstreamIdle

LEMMA TypeInit == Init => TypeOK
BY FreshTables DEF Init, TypeOK, NoPorts

\* The slot that handleUpstream stamps is one of the pool it stamps, when its
\* packet was found in the NAT.
LEMMA StampedSlot ==
  ASSUME NEW pkt \in UpstreamPacket, NEW q \in Flow,
         UpstreamGuide(pkt) = GuideOf(q.protocol, patMap[q])
  PROVE  /\ NATProtocol(pkt) = q.protocol
         /\ UpstreamSlot(pkt) \in Slot(q.protocol)
         /\ ~ pkt.error => UpstreamSlot(pkt) = SlotOf(q.protocol, patMap[q])
         /\ pkt.error => q.protocol = "ICMPv4"
         /\ pkt.value = patMap[q]
<1>0. q.protocol \in Protocol
  BY FlowAssumption DEF Quintuple
<1>1. /\ NATDst(pkt) = NATAddr(q.protocol, patMap[q])
      /\ pkt.layer = q.protocol
  BY DEF UpstreamGuide, GuideOf
<1>2. CASE ~ pkt.error
  <2>1. pkt.layer \in Protocol /\ pkt.value \in Port(pkt.layer)
    BY <1>2 DEF UpstreamPacket
  <2>2. pkt.value = patMap[q]
    BY <1>0, <1>1, <1>2, ProtocolAssumption DEF NATDst, NATAddr
  <2> QED BY <1>1, <1>2, <2>1, <2>2, PortSlot DEF NATProtocol, UpstreamSlot
<1>3. CASE pkt.error
  <2>1. /\ pkt.layer = "ICMPv4"
        /\ pkt.emb \in Protocol \cup {"bare"}
        /\ pkt.id \in OuterId
    BY <1>3 DEF UpstreamPacket, Embedded
  <2>2. NATAddr(pkt.emb, pkt.value) = <<"@", patMap[q]>>
    BY <1>1, <1>3, <2>1 DEF NATDst, NATAddr
  <2>3. pkt.emb = "ICMPv4" /\ pkt.value = patMap[q]
    BY <2>1, <2>2, ProtocolAssumption DEF NATAddr
  <2>4. pkt.id \in Slot("ICMPv4")
    BY <1>0, <1>1, <2>1, OuterIdAssumption DEF Slot
  <2> QED BY <1>1, <1>3, <2>1, <2>3, <2>4 DEF NATProtocol, UpstreamSlot
<1>4. pkt.error \in BOOLEAN
  BY DEF UpstreamPacket
<1> QED BY <1>2, <1>3, <1>4

\* The quintuple of a packet that is not an error, or has a key, is a flow.
LEMMA PatKeyFlow ==
  ASSUME NEW pkt \in ClientPacket
  PROVE  /\ pkt.error \in BOOLEAN
         /\ pkt.q \in Flow
         /\ ~ pkt.error => PatKey(pkt) = pkt.q
BY DEF ClientPacket, PatKey

\* The NAT address of a port is the address of an entry.
LEMMA GuideIsGuide ==
  ASSUME NEW q \in Flow, patMap[q] \in Port(q.protocol)
  PROVE  GuideOf(q.protocol, patMap[q]) \in Guide
<1>1. q.protocol \in Protocol
  BY FlowAssumption DEF Quintuple
<1>2. patMap[q] \in Value
  BY <1>1, PortValue
<1> QED BY <1>1, <1>2, ProtocolAssumption DEF GuideOf, Guide, NATAddr

\* A packet's address in the NAT is the address of an entry.
LEMMA UpstreamGuideIsGuide ==
  ASSUME NEW pkt \in UpstreamPacket
  PROVE  UpstreamGuide(pkt) \in Guide
<1>1. pkt.error \in BOOLEAN /\ pkt.layer \in Protocol /\ pkt.value \in Value
  BY DEF UpstreamPacket
<1>2. \A p : NATAddr(p, pkt.value) \in {":", "@"} \X Value \cup {<<"", 0>>}
  BY <1>1 DEF NATAddr
<1>3. NATDst(pkt) \in {":", "@"} \X Value \cup {<<"", 0>>}
  BY <1>2 DEF NATDst
<1> QED BY <1>1, <1>3 DEF UpstreamGuide, Guide

\* Every step preserves the types, given that a packet past the distribution
\* has a port and one found in the NAT has an entry.
LEMMA TypeStep ==
  ASSUME TypeOK, ListenHolds, UpstreamFound, [Next]_vars
  PROVE  TypeOK'
<1> USE DEF ListenHolds
<1>0. \A q \in Flow : q.protocol \in Protocol
  BY FlowAssumption DEF Quintuple
<1>1. ASSUME NEW pkt \in ClientPacket, ListenDistribute(pkt)
      PROVE  TypeOK'
  <2>1. CASE ListenKnown(pkt)
    BY <1>1, <2>1, PatKeyFlow DEF ListenDistribute, ListenKnown, TypeOK
  <2>2. CASE ListenNew(pkt)
    <3> DEFINE q == PatKey(pkt)
    <3>1. /\ q \in Flow
          /\ q.protocol \in Protocol
          /\ ~ PoolEmpty(q.protocol)
          /\ patMap' = [patMap EXCEPT ![q] = Distributed(q.protocol)]
          /\ next' = [next EXCEPT ![q.protocol] = CounterAfter(q.protocol)]
          /\ recycled' \in SUBSET Flow
          /\ listen' = [pc |-> "write", q |-> q, error |-> FALSE]
          /\ UNCHANGED <<process, pool, nat, upstream, idle, sent, cut>>
      BY <1>0, <1>1, <2>2, PatKeyFlow DEF ListenDistribute, ListenNew, OtherHolders, TypeOK
    <3>2. Distributed(q.protocol) \in Port(q.protocol)
      BY <3>1, DistributedIsFree, PortSlot
    <3>3. Distributed(q.protocol) \in Value
      BY <3>1, <3>2, PortValue
    <3>4. CounterAfter(q.protocol) \in 0 .. CounterWrap - 1
      BY <3>1, CounterInRange
    <3>5. patMap' \in [Flow -> Value \cup {NoPort}]
      BY <3>1, <3>3 DEF TypeOK
    <3>6. \A r \in Flow : patMap'[r] # NoPort => patMap'[r] \in Port(r.protocol)
      BY <3>1, <3>2 DEF TypeOK
    <3>7. next' \in [Protocol -> 0 .. CounterWrap - 1]
      BY <3>1, <3>4 DEF TypeOK
    <3> HIDE DEF q
    <3> QED BY <3>1, <3>5, <3>6, <3>7 DEF TypeOK
  <2>3. CASE ListenPoolEmpty(pkt)
    BY <1>0, <1>1, <2>3, PatKeyFlow, CounterInRange
    DEF ListenDistribute, ListenPoolEmpty, TypeOK
  <2>4. CASE ListenMissingNAT(pkt)
    BY <1>1, <2>4 DEF ListenDistribute, ListenMissingNAT, TypeOK
  <2> QED BY <1>1, <2>1, <2>2, <2>3, <2>4 DEF ListenDistribute
<1>2. ASSUME NEW how \in {"stopped", "panicked"}, ProcessEnds(how)
      PROVE  TypeOK'
  BY <1>2, FreshTables DEF ProcessEnds, TypeOK, NoPorts
<1>3. CASE ListenWriteMore \/ ListenWrite
  <2>1. listen.q \in Flow /\ idle' = [idle EXCEPT ![listen.q] = 0] /\ 0 \in Age
    BY <1>3, KeepAliveAssumption DEF ListenWriteMore, ListenWrite, Leaves, Age
  <2>2. idle' \in [Flow -> Age]
    BY <2>1 DEF TypeOK
  <2> QED BY <1>3, <2>1, <2>2 DEF ListenWriteMore, ListenWrite, Leaves, TypeOK
<1>4. CASE ListenWriteError
  BY <1>4, FreshTables DEF ListenWriteError, TypeOK
<1>5. CASE ListenNAT
  <2>1. listen.q \in Flow /\ nat' \in [Guide -> Flow \cup {NoEntry}]
    BY <1>5 DEF ListenNAT, TypeOK
  <2> QED BY <1>5, <2>1 DEF ListenNAT, TypeOK
<1>6. CASE ListenKeepAlive
  <2>1. listen.q \in Flow /\ patMap[listen.q] \in Port(listen.q.protocol)
    BY <1>6 DEF ListenKeepAlive, TypeOK
  <2>2. 0 \in Age
    BY KeepAliveAssumption DEF Age
  <2>3. idle' \in [Flow -> Age]
    BY <1>6, <2>2 DEF ListenKeepAlive, TypeOK
  <2>4. DOMAIN pool' = Protocol /\ \A p \in Protocol : pool'[p] \in [Slot(p) -> Age]
    BY <1>6, <2>2 DEF ListenKeepAlive, TypeOK
  <2> QED BY <1>6, <2>3, <2>4, FreshTables DEF ListenKeepAlive, TypeOK
<1>7. ASSUME NEW pkt \in UpstreamPacket, NEW to \in Flow \cup {NoFlow},
             UpstreamLookup(pkt, to)
      PROVE  TypeOK'
  <2>1. nat[UpstreamGuide(pkt)] \in Flow /\ 0 \in Age
    BY <1>7, UpstreamGuideIsGuide, KeepAliveAssumption DEF UpstreamLookup, TypeOK, Age
  <2>2. idle' \in [Flow -> Age]
    BY <1>7, <2>1 DEF UpstreamLookup, TypeOK
  <2> QED BY <1>7, <2>1, <2>2 DEF UpstreamLookup, TypeOK
<1>8. ASSUME NEW pkt \in UpstreamPacket, UpstreamMiss(pkt)
      PROVE  TypeOK'
  BY <1>8 DEF UpstreamMiss, vars, TypeOK
<1>9. CASE UpstreamKeepAlive
  <2>1. 0 \in Age
    BY KeepAliveAssumption DEF Age
  <2>2. idle' \in [Flow -> Age]
    BY <1>9, <2>1 DEF UpstreamKeepAlive, TypeOK
  <2>3. DOMAIN pool' = Protocol /\ \A p \in Protocol : pool'[p] \in [Slot(p) -> Age]
    BY <1>9, <2>1 DEF UpstreamKeepAlive, TypeOK
  <2> QED BY <1>9, <2>2, <2>3 DEF UpstreamKeepAlive, TypeOK
<1>10. CASE UpstreamWrite
  BY <1>10, FreshTables DEF UpstreamWrite, TypeOK
<1>11. CASE Tick
  <2>1. idle' \in [Flow -> Age]
    BY <1>11, OlderAge DEF Tick, TypeOK
  <2>2. DOMAIN pool' = Protocol /\ \A p \in Protocol : pool'[p] \in [Slot(p) -> Age]
    BY <1>11, OlderAge DEF Tick, TypeOK
  <2> QED BY <1>11, <2>1, <2>2 DEF Tick, TypeOK
<1>12. CASE Restart
  BY <1>12 DEF Restart, TypeOK
<1>13. CASE UNCHANGED vars
  BY <1>13 DEF vars, TypeOK
<1> QED
  BY <1>1, <1>2, <1>3, <1>4, <1>5, <1>6, <1>7, <1>8, <1>9, <1>10, <1>11, <1>12, <1>13
  DEF Next, ListenFragment, Terminate

-----------------------------------------------------------------------------
(* The rest of the inductive invariant.                                    *)

\* The empty tables of a process that starts or ended satisfy the invariant.
LEMMA FreshInv ==
  ASSUME /\ patMap = NoPorts
         /\ pool = UnusedPool
         /\ nat = NoNAT
         /\ listen = ListenIdle
         /\ upstream = UpstreamIdle
         /\ idle = [q \in Flow |-> Expired]
         /\ sent = {}
         /\ recycled = {}
  PROVE  /\ ListenHolds
         /\ UnmappedIdle
         /\ SentMapped
         /\ NatOwnerHolds
         /\ UpstreamFound
         /\ UpstreamAnswers
         /\ PoolTracksUse
         /\ SharedOnlyAfterRecycle
         /\ MissOnlyBeforeRecord
<1>1. ListenHolds /\ UnmappedIdle /\ SentMapped /\ NatOwnerHolds
  BY DEF ListenHolds, ListenIdle, UnmappedIdle, SentMapped, NatOwnerHolds, NoNAT
<1>2. UpstreamFound /\ UpstreamAnswers
  BY DEF UpstreamFound, UpstreamAnswers, UpstreamIdle
<1>3. SharedOnlyAfterRecycle /\ MissOnlyBeforeRecord
  BY DEF SharedOnlyAfterRecycle, SamePort, NoPorts, MissOnlyBeforeRecord
<1>4. ASSUME NEW p \in Protocol, NEW s \in Slot(p)
      PROVE  /\ pool[p][s] = Expired
             /\ \A q \in Flow : patMap[q] # PortOf(p, s)
  BY PortSlot, PortValue DEF UnusedPool, NoPorts
<1>5. PoolTracksUse
  BY <1>4, KeepAliveAssumption DEF PoolTracksUse
<1> QED BY <1>1, <1>2, <1>3, <1>5

\* A quintuple keeps its port as long as the process lives.
LEMMA PortStays ==
  ASSUME TypeOK, [Next]_vars, ~ ProcessEnds("stopped"), ~ ProcessEnds("panicked")
  PROVE  \A q \in Flow : patMap[q] # NoPort => patMap'[q] = patMap[q]
<1>1. ASSUME NEW pkt \in ClientPacket, ListenDistribute(pkt)
      PROVE  \A q \in Flow : patMap[q] # NoPort => patMap'[q] = patMap[q]
  BY <1>1 DEF ListenDistribute, ListenKnown, ListenNew, ListenPoolEmpty,
              ListenMissingNAT, TypeOK
<1>2. CASE UNCHANGED patMap
  BY <1>2
<1> QED
  BY <1>1, <1>2
  DEF Next, vars, ListenFragment, Terminate, ListenWriteMore, ListenWrite,
      ListenWriteError, ListenNAT, ListenKeepAlive, UpstreamLookup, UpstreamMiss,
      UpstreamKeepAlive, UpstreamWrite, Tick, Restart

\* What a step does to handleListen's packet and to the quintuples that sent.
LEMMA ListenStep ==
  ASSUME IInv, [Next]_vars, TypeOK'
  PROVE  ListenHolds' /\ SentMapped'
<1>1. CASE ProcessEnds("stopped") \/ ProcessEnds("panicked")
  BY <1>1, FreshInv DEF ProcessEnds, ListenHolds, SentMapped, ListenIdle
<1>2. CASE ~ ProcessEnds("stopped") /\ ~ ProcessEnds("panicked")
  <2> USE DEF IInv, ListenHolds, SentMapped
  <2>0. \A q \in Flow : patMap[q] # NoPort => patMap'[q] = patMap[q]
    BY <1>2, PortStays
  <2>1. ASSUME NEW pkt \in ClientPacket, ListenDistribute(pkt)
        PROVE  ListenHolds' /\ SentMapped'
    <3>1. SentMapped'
      BY <2>0, <2>1 DEF ListenDistribute, TypeOK
    <3>2. CASE ListenKnown(pkt)
      BY <2>0, <3>1, <3>2, PatKeyFlow DEF ListenKnown
    <3>3. CASE ListenNew(pkt)
      <4>1. PatKey(pkt) \in Flow /\ PatKey(pkt).protocol \in Protocol
        BY <3>3, PatKeyFlow, FlowAssumption DEF ListenNew, Quintuple
      <4>2. Distributed(PatKey(pkt).protocol) # NoPort
        BY <3>3, <4>1, DistributedIsFree, PortSlot, PortValue DEF ListenNew
      <4> QED BY <3>1, <3>3, <4>1, <4>2 DEF ListenNew, TypeOK
    <3>4. CASE UNCHANGED listen
      BY <2>0, <3>1, <3>4
    <3> QED BY <2>1, <3>1, <3>2, <3>3, <3>4
            DEF ListenDistribute, ListenPoolEmpty, ListenMissingNAT
  <2>2. CASE ListenWriteMore \/ ListenWrite
    BY <2>2 DEF ListenWriteMore, ListenWrite, Leaves, TypeOK
  <2>3. CASE ListenWriteError \/ ListenKeepAlive
    BY <2>3 DEF ListenWriteError, ListenKeepAlive, ListenIdle
  <2>4. CASE ListenNAT
    BY <2>4 DEF ListenNAT, TypeOK
  <2>5. CASE UNCHANGED <<listen, sent, patMap>>
    BY <2>5
  <2> QED
    BY <1>2, <2>1, <2>2, <2>3, <2>4, <2>5
    DEF Next, vars, ListenFragment, Terminate, UpstreamLookup, UpstreamMiss,
        UpstreamKeepAlive, UpstreamWrite, Tick, Restart
<1> QED BY <1>1, <1>2

\* A NAT entry stays with a holder of its port.
LEMMA NatStep ==
  ASSUME IInv, [Next]_vars, TypeOK'
  PROVE  NatOwnerHolds'
<1>1. CASE ProcessEnds("stopped") \/ ProcessEnds("panicked")
  BY <1>1 DEF ProcessEnds, NatOwnerHolds, NoNAT
<1>2. CASE ~ ProcessEnds("stopped") /\ ~ ProcessEnds("panicked")
  <2> USE DEF IInv, NatOwnerHolds
  <2>0. \A q \in Flow : patMap[q] # NoPort => patMap'[q] = patMap[q]
    BY <1>2, PortStays
  <2>1. CASE UNCHANGED nat
    BY <2>0, <2>1 DEF TypeOK
  <2>2. CASE ListenNAT
    BY <2>2 DEF ListenNAT, ListenHolds, TypeOK
  <2> QED
    BY <1>2, <2>1, <2>2
    DEF Next, vars, ListenFragment, Terminate, ListenDistribute, ListenWriteMore,
        ListenWrite, ListenWriteError, ListenKeepAlive, UpstreamLookup, UpstreamMiss,
        UpstreamKeepAlive, UpstreamWrite, Tick, Restart
<1> QED BY <1>1, <1>2

\* handleUpstream's packet, entry and quintuple stay consistent.
LEMMA UpstreamStep ==
  ASSUME IInv, [Next]_vars, TypeOK'
  PROVE  UpstreamFound' /\ UpstreamAnswers'
<1>1. CASE ProcessEnds("stopped") \/ ProcessEnds("panicked")
  BY <1>1 DEF ProcessEnds, UpstreamFound, UpstreamAnswers, UpstreamIdle
<1>2. CASE ~ ProcessEnds("stopped") /\ ~ ProcessEnds("panicked")
  <2> USE DEF IInv, UpstreamFound, UpstreamAnswers
  <2>0. \A q \in Flow : patMap[q] # NoPort => patMap'[q] = patMap[q]
    BY <1>2, PortStays
  <2>1. ASSUME NEW pkt \in UpstreamPacket, NEW to \in Flow \cup {NoFlow},
               UpstreamLookup(pkt, to)
        PROVE  UpstreamFound' /\ UpstreamAnswers'
    <3>1. UpstreamAnswers'
      BY <2>1 DEF UpstreamLookup, Answers
    <3>2. UpstreamFound'
      BY <2>1, UpstreamGuideIsGuide DEF UpstreamLookup, NatOwnerHolds, TypeOK
    <3> QED BY <3>1, <3>2
  <2>2. CASE UpstreamWrite
    BY <2>2 DEF UpstreamWrite, UpstreamIdle
  <2>3. CASE UpstreamKeepAlive
    BY <2>3 DEF UpstreamKeepAlive, Answers, TypeOK
  <2>4. CASE UNCHANGED upstream /\ sent \subseteq sent'
    <3>1. UpstreamFound'
      BY <2>0, <2>4
    <3>2. UpstreamAnswers'
      BY <2>0, <2>4 DEF Answers, SentMapped, TypeOK
    <3> QED BY <3>1, <3>2
  <2> QED
    BY <1>2, <2>1, <2>2, <2>3, <2>4
    DEF Next, vars, ListenFragment, Terminate, ListenDistribute, ListenWriteMore,
        ListenWrite, Leaves, ListenWriteError, ListenNAT, ListenKeepAlive, UpstreamMiss,
        Tick, Restart
<1> QED BY <1>1, <1>2

\* A step that refreshes a quintuple stamps its slot, or leaves it unstamped in
\* the hands of a handler, so the stamps keep tracking the use of the ports.
LEMMA PoolStep ==
  ASSUME IInv, [Next]_vars, TypeOK'
  PROVE  UnmappedIdle' /\ PoolTracksUse'
<1> DEFINE Holds(q, p, s) == q.protocol = p /\ patMap[q] = PortOf(p, s)
<1> USE DEF UnmappedIdle
<1>0. /\ \A q \in Flow : q.protocol \in Protocol /\ idle[q] \in Age
      /\ \A p \in Protocol : \A s \in Slot(p) : pool[p][s] \in Age
      /\ \A p \in Protocol : \A s \in Slot(p) : PortOf(p, s) # NoPort
      /\ UnmappedIdle
  BY FlowAssumption, PortSlot, PortValue DEF IInv, TypeOK, Quintuple
<1>1. /\ \A p \in Protocol : \A s \in Slot(p) : \A q \in Flow :
            Holds(q, p, s) => pool[p][s] <= idle[q] \/ Unstamped(q)
      /\ \A p \in Protocol : \A s \in Slot(p) : p # "ICMPv4" /\ pool[p][s] < Expired =>
            \E q \in Flow : Holds(q, p, s) /\ idle[q] <= pool[p][s]
  BY DEF IInv, PoolTracksUse
<1>2. ASSUME /\ \A p \in Protocol : \A s \in Slot(p) : \A q \in Flow :
                   Holds(q, p, s)' => pool'[p][s] <= idle'[q] \/ Unstamped(q)'
             /\ \A p \in Protocol : \A s \in Slot(p) : p # "ICMPv4" /\ pool'[p][s] < Expired =>
                   \E q \in Flow : Holds(q, p, s)' /\ idle'[q] <= pool'[p][s]
      PROVE  PoolTracksUse'
  BY <1>2 DEF PoolTracksUse
<1>3. CASE ProcessEnds("stopped") \/ ProcessEnds("panicked")
  <2>1. PoolTracksUse'
    <3>1. \A p \in Protocol : \A s \in Slot(p) : pool'[p][s] = Expired
      BY <1>3 DEF ProcessEnds, UnusedPool
    <3>2. \A q \in Flow : patMap'[q] = NoPort
      BY <1>3 DEF ProcessEnds, NoPorts
    <3> QED BY <1>0, <1>2, <3>1, <3>2, KeepAliveAssumption
  <2> QED BY <1>3, <2>1 DEF ProcessEnds
<1>4. ASSUME NEW pkt \in ClientPacket, ListenDistribute(pkt), ListenNew(pkt)
      PROVE  UnmappedIdle' /\ PoolTracksUse'
  <2>1. PICK q \in Flow :
          /\ patMap[q] = NoPort
          /\ ~ PoolEmpty(q.protocol)
          /\ patMap' = [patMap EXCEPT ![q] = Distributed(q.protocol)]
          /\ UNCHANGED <<pool, idle>>
          /\ \A r \in Flow : Unstamped(r) => Unstamped(r)'
    BY <1>4, PatKeyFlow DEF ListenNew, ListenDistribute, Unstamped
  <2>2. PICK s0 \in Slot(q.protocol) : /\ pool[q.protocol][s0] = Expired
                                       /\ Distributed(q.protocol) = PortOf(q.protocol, s0)
    BY <1>0, <2>1, DistributedIsFree DEF IInv
  <2>3. idle[q] = Expired
    BY <1>0, <2>1
  <2>4. \A r \in Flow : patMap'[r] = IF r = q THEN PortOf(q.protocol, s0) ELSE patMap[r]
    BY <2>1, <2>2 DEF IInv, TypeOK
  <2>5. \A p \in Protocol : \A s \in Slot(p) : \A r \in Flow :
          Holds(r, p, s)' => pool'[p][s] <= idle'[r] \/ Unstamped(r)'
    BY <1>0, <1>1, <2>1, <2>3, <2>4, KeepAliveAssumption DEF Age
  <2>6. \A p \in Protocol : \A s \in Slot(p) : p # "ICMPv4" /\ pool'[p][s] < Expired =>
          \E r \in Flow : Holds(r, p, s)' /\ idle'[r] <= pool'[p][s]
    BY <1>0, <1>1, <2>1, <2>4
  <2>7. UnmappedIdle'
    BY <1>0, <2>1, <2>4
  <2> QED BY <1>2, <2>5, <2>6, <2>7
<1>5. ASSUME NEW q \in Flow, NEW s0 \in Slot(q.protocol),
             patMap[q] = PortOf(q.protocol, s0),
             pool' = [pool EXCEPT ![q.protocol][s0] = 0],
             idle' = [idle EXCEPT ![q] = 0],
             UNCHANGED patMap,
             \A r \in Flow : r # q /\ Unstamped(r) => Unstamped(r)'
      PROVE  UnmappedIdle' /\ PoolTracksUse'
  <2>1. /\ \A p \in Protocol : \A s \in Slot(p) :
             pool'[p][s] = IF p = q.protocol /\ s = s0 THEN 0 ELSE pool[p][s]
        /\ \A r \in Flow : idle'[r] = IF r = q THEN 0 ELSE idle[r]
    BY <1>5 DEF IInv, TypeOK
  <2>2. \A p \in Protocol : \A s \in Slot(p) : Holds(q, p, s) => p = q.protocol /\ s = s0
    BY <1>0, <1>5, PortSlot
  <2>3. \A p \in Protocol : \A s \in Slot(p) : \A r \in Flow :
          Holds(r, p, s)' => pool'[p][s] <= idle'[r] \/ Unstamped(r)'
    BY <1>0, <1>1, <1>5, <2>1, <2>2, KeepAliveAssumption DEF Age
  <2>4. \A p \in Protocol : \A s \in Slot(p) : p # "ICMPv4" /\ pool'[p][s] < Expired =>
          \E r \in Flow : Holds(r, p, s)' /\ idle'[r] <= pool'[p][s]
    BY <1>0, <1>1, <1>5, <2>1, <2>2
  <2>5. UnmappedIdle'
    BY <1>0, <1>5, <2>1
  <2> QED BY <1>2, <2>3, <2>4, <2>5
<1>10. ASSUME NEW q \in Flow, patMap[q] # NoPort,
              idle' = [idle EXCEPT ![q] = 0],
              UNCHANGED <<patMap, pool>>,
              Unstamped(q)',
              \A r \in Flow : r # q /\ Unstamped(r) => Unstamped(r)'
       PROVE  UnmappedIdle' /\ PoolTracksUse'
  <2>1. \A r \in Flow : idle'[r] = IF r = q THEN 0 ELSE idle[r]
    BY <1>10 DEF IInv, TypeOK
  <2>2. \A p \in Protocol : \A s \in Slot(p) : \A r \in Flow :
          Holds(r, p, s)' => pool'[p][s] <= idle'[r] \/ Unstamped(r)'
    BY <1>0, <1>1, <1>10, <2>1
  <2>3. \A p \in Protocol : \A s \in Slot(p) : p # "ICMPv4" /\ pool'[p][s] < Expired =>
          \E r \in Flow : Holds(r, p, s)' /\ idle'[r] <= pool'[p][s]
    BY <1>0, <1>1, <1>10, <2>1, KeepAliveAssumption DEF Age
  <2>4. UnmappedIdle'
    BY <1>0, <1>10, <2>1
  <2> QED BY <1>2, <2>2, <2>3, <2>4
<1>11. CASE ListenWriteMore \/ ListenWrite
  <2>1. /\ listen.q \in Flow /\ patMap[listen.q] # NoPort
        /\ idle' = [idle EXCEPT ![listen.q] = 0]
        /\ UNCHANGED <<patMap, pool>>
    BY <1>11 DEF ListenWriteMore, ListenWrite, Leaves, IInv, ListenHolds
  <2>2. /\ Unstamped(listen.q)'
        /\ \A r \in Flow : r # listen.q /\ Unstamped(r) => Unstamped(r)'
    BY <1>11 DEF ListenWriteMore, ListenWrite, Leaves, Unstamped, IInv, TypeOK
  <2>3. PICK q : q = listen.q
    OBVIOUS
  <2>4. Unstamped(q)'
    BY <1>11, <2>3 DEF ListenWriteMore, ListenWrite, Leaves, Unstamped, IInv, TypeOK
  <2> QED BY <1>10, <2>1, <2>2, <2>3, <2>4
<1>12. ASSUME NEW pkt \in UpstreamPacket, NEW to \in Flow \cup {NoFlow},
              UpstreamLookup(pkt, to)
       PROVE  UnmappedIdle' /\ PoolTracksUse'
  <2>1. PICK q : q = nat[UpstreamGuide(pkt)]
    OBVIOUS
  <2>2. /\ q \in Flow /\ patMap[q] # NoPort
    BY <1>12, <2>1, UpstreamGuideIsGuide DEF UpstreamLookup, IInv, NatOwnerHolds, TypeOK
  <2>3. /\ upstream.pc = "idle"
        /\ upstream' = [pc |-> "alive", pkt |-> pkt, ni |-> q, to |-> to]
        /\ UNCHANGED <<patMap, pool, listen, cut>>
    BY <1>12, <2>1 DEF UpstreamLookup
  <2>4. \A r \in Flow : Unstamped(r) => Unstamped(r)'
    BY <2>3 DEF Unstamped
  <2>5. CASE pkt.error
    <3>1. UNCHANGED idle
      BY <1>12, <2>5 DEF UpstreamLookup
    <3> QED BY <1>0, <1>1, <1>2, <2>3, <2>4, <3>1
  <2>6. CASE ~ pkt.error
    <3>1. idle' = [idle EXCEPT ![q] = 0]
      BY <1>12, <2>1, <2>6 DEF UpstreamLookup
    <3>2. Unstamped(q)'
      BY <2>3, <2>6 DEF Unstamped
    <3> QED BY <1>10, <2>2, <2>3, <2>4, <3>1, <3>2
  <2> QED BY <2>5, <2>6
<1>6. CASE ListenKeepAlive
  <2>1. listen.q \in Flow /\ patMap[listen.q] \in Port(listen.q.protocol)
    BY <1>6 DEF ListenKeepAlive, IInv, ListenHolds, TypeOK
  <2>2. /\ SlotOf(listen.q.protocol, patMap[listen.q]) \in Slot(listen.q.protocol)
        /\ PortOf(listen.q.protocol, SlotOf(listen.q.protocol, patMap[listen.q])) = patMap[listen.q]
    BY <1>0, <2>1, PortSlot
  <2>3. \A r \in Flow : r # listen.q /\ Unstamped(r) => Unstamped(r)'
    BY <1>6 DEF ListenKeepAlive, Unstamped
  <2> QED BY <1>5, <1>6, <2>1, <2>2, <2>3 DEF ListenKeepAlive
<1>7. CASE UpstreamKeepAlive
  <2> DEFINE q == upstream.ni
             pkt == upstream.pkt
  <2>1. /\ q \in Flow
        /\ patMap[q] \in Port(q.protocol)
        /\ pkt \in UpstreamPacket
        /\ UpstreamGuide(pkt) = GuideOf(q.protocol, patMap[q])
    BY <1>7 DEF UpstreamKeepAlive, IInv, UpstreamFound, TypeOK
  <2>2. /\ NATProtocol(pkt) = q.protocol
        /\ UpstreamSlot(pkt) \in Slot(q.protocol)
        /\ ~ pkt.error => UpstreamSlot(pkt) = SlotOf(q.protocol, patMap[q])
        /\ pkt.error => q.protocol = "ICMPv4"
    BY <2>1, StampedSlot
  <2>3. /\ pool' = [pool EXCEPT ![q.protocol][UpstreamSlot(pkt)] = 0]
        /\ pkt.error => idle' = idle
        /\ ~ pkt.error => idle' = [idle EXCEPT ![q] = 0]
        /\ UNCHANGED patMap
    BY <1>7, <2>2 DEF UpstreamKeepAlive
  <2>7. /\ \A r \in Flow : r # q /\ Unstamped(r) => Unstamped(r)'
        /\ pkt.error => \A r \in Flow : Unstamped(r) => Unstamped(r)'
    BY <1>7 DEF UpstreamKeepAlive, Unstamped
  <2> HIDE DEF q, pkt
  <2>4. CASE ~ pkt.error
    <3>1. PortOf(q.protocol, UpstreamSlot(pkt)) = patMap[q]
      BY <1>0, <2>1, <2>2, <2>4, PortSlot
    <3> QED BY <1>5, <2>1, <2>2, <2>3, <2>4, <2>7, <3>1
  <2>5. CASE pkt.error
    <3>1. \A p \in Protocol : \A s \in Slot(p) :
            pool'[p][s] = IF p = "ICMPv4" /\ s = UpstreamSlot(pkt) THEN 0 ELSE pool[p][s]
      BY <2>1, <2>2, <2>3, <2>5 DEF IInv, TypeOK
    <3>2. \A p \in Protocol : \A s \in Slot(p) : \A r \in Flow :
            Holds(r, p, s)' => pool'[p][s] <= idle'[r] \/ Unstamped(r)'
      BY <1>0, <1>1, <2>3, <2>5, <2>7, <3>1, KeepAliveAssumption DEF Age
    <3>3. \A p \in Protocol : \A s \in Slot(p) : p # "ICMPv4" /\ pool'[p][s] < Expired =>
            \E r \in Flow : Holds(r, p, s)' /\ idle'[r] <= pool'[p][s]
      BY <1>0, <1>1, <2>3, <2>5, <3>1
    <3> QED BY <1>0, <1>2, <2>3, <2>5, <3>2, <3>3
  <2>6. pkt.error \in BOOLEAN
    BY <2>1 DEF UpstreamPacket
  <2> QED BY <2>4, <2>5, <2>6
<1>8. CASE Tick
  <2>1. /\ \A p \in Protocol : \A s \in Slot(p) : pool'[p][s] = Older(pool[p][s])
        /\ \A r \in Flow : idle'[r] = Older(idle[r])
        /\ UNCHANGED patMap
        /\ \A r \in Flow : Unstamped(r) => Unstamped(r)'
    BY <1>8 DEF Tick, Unstamped
  <2>2. \A p \in Protocol : \A s \in Slot(p) : \A r \in Flow :
          Holds(r, p, s)' => pool'[p][s] <= idle'[r] \/ Unstamped(r)'
    BY <1>0, <1>1, <2>1, KeepAliveAssumption DEF Age, Older
  <2>3. \A p \in Protocol : \A s \in Slot(p) : p # "ICMPv4" /\ pool'[p][s] < Expired =>
          \E r \in Flow : Holds(r, p, s)' /\ idle'[r] <= pool'[p][s]
    BY <1>0, <1>1, <2>1, KeepAliveAssumption DEF Age, Older
  <2>4. UnmappedIdle'
    BY <1>0, <2>1 DEF Older
  <2> QED BY <1>2, <2>2, <2>3, <2>4
<1>9. CASE /\ UNCHANGED <<patMap, pool, idle>>
           /\ \A r \in Flow : Unstamped(r) => Unstamped(r)'
  BY <1>0, <1>1, <1>2, <1>9
<1>13. ASSUME NEW pkt \in ClientPacket, ListenDistribute(pkt), ~ ListenNew(pkt)
       PROVE  UnmappedIdle' /\ PoolTracksUse'
  BY <1>9, <1>13
  DEF ListenDistribute, ListenKnown, ListenPoolEmpty, ListenMissingNAT, Unstamped
<1>14. CASE \/ ListenWriteError \/ ListenNAT \/ UpstreamWrite \/ Restart
            \/ UNCHANGED vars
  <2>1. UNCHANGED <<patMap, pool, idle>>
    BY <1>14 DEF ListenWriteError, ListenNAT, UpstreamWrite, Restart, vars
  <2>2. \A r \in Flow : Unstamped(r) => Unstamped(r)'
    BY <1>14
    DEF ListenWriteError, ListenNAT, UpstreamWrite, Restart, vars, Unstamped, IInv, TypeOK
  <2> QED BY <1>9, <2>1, <2>2
<1> QED
  BY <1>3, <1>4, <1>6, <1>7, <1>8, <1>11, <1>12, <1>13, <1>14
  DEF Next, ListenFragment, Terminate, UpstreamMiss

\* Only dist makes two quintuples share a port, and then every earlier holder
\* has been idle for too long.
LEMMA SharedStep ==
  ASSUME IInv, [Next]_vars, TypeOK'
  PROVE  SharedOnlyAfterRecycle'
<1> USE DEF SharedOnlyAfterRecycle, SamePort
<1>0. SharedOnlyAfterRecycle /\ TypeOK
  BY DEF IInv
<1>1. CASE ProcessEnds("stopped") \/ ProcessEnds("panicked")
  BY <1>1 DEF ProcessEnds, NoPorts
<1>2. ASSUME NEW pkt \in ClientPacket, ListenNew(pkt)
      PROVE  SharedOnlyAfterRecycle'
  <2> DEFINE q == PatKey(pkt)
             p == q.protocol
             v == Distributed(p)
  <2>1. /\ q \in Flow
        /\ p \in Protocol
        /\ ~ PoolEmpty(p)
        /\ patMap' = [patMap EXCEPT ![q] = v]
        /\ recycled' = recycled \cup
             {r \in OtherHolders(q, v) : idle[r] > KeepAlive \/ Unstamped(r)}
    BY <1>2, PatKeyFlow, FlowAssumption DEF ListenNew, Quintuple
  <2>2. PICK s0 \in Slot(p) : pool[p][s0] = Expired /\ v = PortOf(p, s0)
    BY <1>0, <2>1, DistributedIsFree
  <2>3. \A r \in Flow : r.protocol = p /\ patMap[r] = v => idle[r] > KeepAlive \/ Unstamped(r)
    <3>1. ASSUME NEW r \in Flow, r.protocol = p, patMap[r] = v
          PROVE  idle[r] >= Expired \/ Unstamped(r)
      BY <2>1, <2>2, <3>1 DEF IInv, PoolTracksUse
    <3> QED BY <1>0, <3>1, KeepAliveAssumption DEF TypeOK, Age
  <2>4. \A r \in Flow : r # q /\ r.protocol = p /\ patMap[r] = v => r \in recycled'
    BY <2>1, <2>3 DEF OtherHolders
  <2>5. \A r \in Flow : patMap'[r] = IF r = q THEN v ELSE patMap[r]
    BY <1>0, <2>1 DEF TypeOK
  <2> HIDE DEF q, v
  <2> QED BY <1>0, <2>1, <2>4, <2>5
<1>3. CASE UNCHANGED <<patMap, recycled>>
  BY <1>0, <1>3
<1> QED
  BY <1>1, <1>2, <1>3
  DEF Next, vars, ListenFragment, Terminate, ListenDistribute, ListenKnown,
      ListenPoolEmpty, ListenMissingNAT, ListenWriteMore, ListenWrite,
      ListenWriteError, ListenNAT, ListenKeepAlive, UpstreamLookup, UpstreamMiss, UpstreamKeepAlive, UpstreamWrite,
      Tick, Restart

\* Once recorded, a port stays in the NAT; between write and record the
\* packet is handleListen's, or it was cut short.
LEMMA MissStep ==
  ASSUME IInv, [Next]_vars, TypeOK'
  PROVE  MissOnlyBeforeRecord'
<1> USE DEF MissOnlyBeforeRecord
<1>0. MissOnlyBeforeRecord /\ TypeOK /\ SentMapped /\ ListenHolds
  BY DEF IInv
<1>1. CASE ProcessEnds("stopped") \/ ProcessEnds("panicked")
  BY <1>1 DEF ProcessEnds
<1>2. CASE ~ ProcessEnds("stopped") /\ ~ ProcessEnds("panicked")
  <2>0. \A q \in sent : patMap'[q] = patMap[q]
    BY <1>0, <1>2, PortStays DEF SentMapped, TypeOK
  <2>1. ASSUME NEW pkt \in ClientPacket, ListenDistribute(pkt)
        PROVE  MissOnlyBeforeRecord'
    <3>1. listen.pc = "idle" /\ UNCHANGED <<nat, sent, cut>>
      BY <2>1 DEF ListenDistribute
    <3> QED BY <1>0, <2>0, <3>1
  <2>2. CASE ListenWriteMore \/ ListenWrite
    <3>1. /\ UNCHANGED <<nat, cut, patMap>>
          /\ sent' \subseteq sent \cup {listen.q}
          /\ listen.pc # "nat"
          /\ listen'.q = listen.q
          /\ listen'.error = listen.error
          /\ IF listen.error THEN sent' = sent ELSE listen'.pc \in {"more", "nat"}
      BY <1>0, <2>2 DEF ListenWriteMore, ListenWrite, Leaves, TypeOK
    <3> QED BY <1>0, <3>1
  <2>3. CASE ListenWriteError \/ ListenKeepAlive
    BY <1>0, <2>0, <2>3 DEF ListenWriteError, ListenKeepAlive
  <2>4. CASE ListenNAT
    <3>1. listen.q \in Flow /\ patMap[listen.q] \in Port(listen.q.protocol)
      BY <1>0, <2>4 DEF ListenNAT, ListenHolds, TypeOK
    <3>2. GuideOf(listen.q.protocol, patMap[listen.q]) \in Guide
      BY <3>1, GuideIsGuide
    <3> QED BY <1>0, <2>0, <2>4, <3>1, <3>2, NoValueAssumption DEF ListenNAT, TypeOK
  <2>5. CASE UNCHANGED <<listen, sent, cut, nat, patMap>>
    BY <1>0, <2>5
  <2> QED
    BY <1>2, <2>1, <2>2, <2>3, <2>4, <2>5
    DEF Next, vars, ListenFragment, Terminate, UpstreamLookup, UpstreamMiss,
        UpstreamKeepAlive, UpstreamWrite, Tick, Restart
<1> QED BY <1>1, <1>2

-----------------------------------------------------------------------------
(* The theorems.                                                           *)

\* The strengthened invariant holds in every reachable state of the server.
THEOREM Inductive == Spec => []IInv
<1>1. Init => IInv
  BY TypeInit, FreshInv DEF Init, IInv
<1>2. IInv /\ [Next]_vars => IInv'
  <2> SUFFICES ASSUME IInv, [Next]_vars PROVE IInv'
    OBVIOUS
  <2>1. TypeOK'
    BY TypeStep DEF IInv
  <2> QED
    BY <2>1, ListenStep, NatStep, UpstreamStep, PoolStep, SharedStep, MissStep DEF IInv
<1> QED BY <1>1, <1>2, PTL DEF Spec

\* The tables, the goroutines' packets and the counters keep their types: a
\* stamp never falls outside its pool, a port never outside its range.
THEOREM TypeCorrect == Spec => []TypeOK
<1>1. IInv => TypeOK
  BY DEF IInv
<1> QED BY <1>1, Inductive, PTL

\* dist never gives a port away under a quintuple that was active within
\* keepAlive, but for one with an unstamped packet, for any pool size,
\* keepAlive and interleaving.
THEOREM SharingNeedsRecycling == Spec => []SharedOnlyAfterRecycle
<1>1. IInv => SharedOnlyAfterRecycle
  BY DEF IInv
<1> QED BY <1>1, Inductive, PTL

\* The stamps of the pools follow the use of the ports: late only for a packet
\* in the hands of a handler or cut short, and never without use.
THEOREM PoolsTrackUse == Spec => []PoolTracksUse
<1>1. IInv => PoolTracksUse
  BY DEF IInv
<1> QED BY <1>1, Inductive, PTL

\* A reply reaches the quintuple that it answers, unless a port was recycled.
THEOREM RepliesReturn == Spec => []RepliesReachTheirSource
<1>1. IInv => RepliesReachTheirSource
  <2> SUFFICES ASSUME IInv, upstream.pc = "write", upstream.to # NoFlow,
                      upstream.ni # upstream.to
               PROVE  {upstream.ni, upstream.to} \cap recycled # {}
    BY DEF RepliesReachTheirSource
  <2> DEFINE q == upstream.ni
             r == upstream.to
             pkt == upstream.pkt
  <2>1. /\ pkt \in UpstreamPacket
        /\ q \in Flow
        /\ patMap[q] # NoPort
        /\ UpstreamGuide(pkt) = GuideOf(q.protocol, patMap[q])
        /\ r \in Flow
        /\ Answers(pkt, r)
    BY DEF IInv, UpstreamFound, UpstreamAnswers, TypeOK
  <2>2. NATProtocol(pkt) = q.protocol /\ pkt.value = patMap[q]
    BY <2>1, StampedSlot
  <2>3. SamePort(q, r)
    BY <2>1, <2>2 DEF SamePort, Answers
  <2>4. q \in recycled \/ r \in recycled
    BY <2>1, <2>3 DEF IInv, SharedOnlyAfterRecycle
  <2> QED BY <2>4
<1> QED BY <1>1, Inductive, PTL

\* A reply finds no NAT entry only before handleListen records it, or after a
\* write that failed midway.
THEOREM MissesAreBrief == Spec => []MissOnlyBeforeRecord
<1>1. IInv => MissOnlyBeforeRecord
  BY DEF IInv
<1> QED BY <1>1, Inductive, PTL

-----------------------------------------------------------------------------
(* dist refuses only when all ports are in use.                            *)

\* A remainder is determined by the multiple that is taken away.
LEMMA Remainder ==
  ASSUME NEW n \in Nat \ {0}, NEW k \in Nat, NEW t \in 0 .. n - 1
  PROVE  (k * n + t) % n = t
OBVIOUS

\* Every slot is some probe of dist: its counter wraps at a multiple of the
\* pool size, so PoolSize probes in a row visit PoolSize slots.
LEMMA EverySlotProbed ==
  ASSUME TypeOK, NEW p \in Protocol, NEW s \in Slot(p)
  PROVE  \E i \in 0 .. PoolSize[p] - 1 : Probe(p, i) = s
<1> DEFINE n == PoolSize[p]
           w == CounterWrap
           c == next[p]
           a == c \div n
           m == w \div n
<1>1. /\ n \in Nat \ {0}
      /\ w \in Nat \ {0}
      /\ w % n = 0
      /\ c \in 0 .. w - 1
      /\ s \in 0 .. n - 1
  BY PoolAssumption DEF TypeOK, Slot
<1> DEFINE r == c % n
           i == IF r <= s THEN s - r ELSE s - r + n
           b == IF r <= s THEN a ELSE a + 1
<1> SUFFICES ((c + i) % w) % n = s /\ i \in 0 .. n - 1
  BY DEF Probe
<1> HIDE DEF n, w, c
<1>2. /\ a \in Nat /\ r \in 0 .. n - 1 /\ c = a * n + r
      /\ m \in Nat /\ w = m * n
  BY <1>1
<1> HIDE DEF a, r, m
<1>3. i \in 0 .. n - 1 /\ b \in Nat /\ c + i = b * n + s
  BY <1>1, <1>2
<1> HIDE DEF i, b
<1>4. CASE c + i < w
  <2>1. (c + i) % w = b * n + s
    BY <1>1, <1>3, <1>4
  <2>2. (b * n + s) % n = s
    BY <1>1, <1>3, Remainder
  <2> QED BY <1>3, <2>1, <2>2
<1>5. CASE c + i >= w
  <2>1. n <= w
    BY <1>1, <1>2
  <2>2. c + i - w \in 0 .. w - 1
    BY <1>1, <1>3, <1>5, <2>1
  <2>3. (c + i) % w = c + i - w
    BY <1>1, <1>3, <2>2
  <2>4. b - m \in Nat /\ c + i - w = (b - m) * n + s
    BY <1>1, <1>2, <1>3, <1>5
  <2>5. ((b - m) * n + s) % n = s
    BY <1>1, <2>4, Remainder
  <2> QED BY <1>3, <2>3, <2>4, <2>5
<1> QED BY <1>1, <1>3, <1>4, <1>5

\* "pool empty" is answered only when each TCP or UDP port of the pool is held
\* by a quintuple that was active within keepAlive.
THEOREM RefusalsAreNeeded == Spec => RefusedOnlyWhenAllInUse
<1> DEFINE Refusal == \A p \in Protocol \ {"ICMPv4"} :
             next[p] # next'[p] /\ patMap' = patMap /\ process' = "running" =>
               \A s \in Slot(p) : \E q \in Flow :
                 q.protocol = p /\ patMap[q] = PortOf(p, s) /\ idle[q] <= KeepAlive
<1>1. IInv /\ [Next]_vars => [Refusal]_vars
  <2> SUFFICES ASSUME IInv, Next,
                      NEW p \in Protocol \ {"ICMPv4"}, next[p] # next'[p],
                      patMap' = patMap, process' = "running",
                      NEW s \in Slot(p)
               PROVE  \E q \in Flow : /\ q.protocol = p
                                       /\ patMap[q] = PortOf(p, s)
                                       /\ idle[q] <= KeepAlive
    BY DEF vars
  <2>1. PICK pkt \in ClientPacket : ListenDistribute(pkt)
    BY DEF Next, ListenFragment, Terminate, ProcessEnds, ListenWriteMore, ListenWrite,
           ListenWriteError, ListenNAT, ListenKeepAlive, UpstreamLookup, UpstreamMiss, UpstreamKeepAlive,
           UpstreamWrite, Tick, Restart, vars
  <2>2. ~ ListenNew(pkt)
    <3> SUFFICES ASSUME ListenNew(pkt) PROVE FALSE
      OBVIOUS
    <3>1. PatKey(pkt) \in Flow /\ PatKey(pkt).protocol \in Protocol
      BY PatKeyFlow, FlowAssumption DEF ListenNew, Quintuple
    <3>2. Distributed(PatKey(pkt).protocol) # NoPort
      BY <3>1, DistributedIsFree, PortSlot, PortValue DEF ListenNew, IInv
    <3> QED BY <3>1, <3>2 DEF ListenNew, IInv, TypeOK
  <2>3. ListenPoolEmpty(pkt)
    BY <2>1, <2>2 DEF ListenDistribute, ListenKnown, ListenMissingNAT
  <2>4. PoolEmpty(p)
    BY <2>3 DEF ListenPoolEmpty, IInv, TypeOK
  <2>5. PICK i \in 0 .. PoolSize[p] - 1 : Probe(p, i) = s
    BY EverySlotProbed DEF IInv
  <2>6. pool[p][s] \in Age /\ ~ (pool[p][s] > KeepAlive)
    BY <2>4, <2>5 DEF PoolEmpty, FreeProbes, IInv, TypeOK
  <2>7. pool[p][s] < Expired /\ pool[p][s] <= KeepAlive
    BY <2>6, KeepAliveAssumption DEF Age
  <2>8. PICK q \in Flow : /\ q.protocol = p
                         /\ patMap[q] = PortOf(p, s)
                         /\ idle[q] <= pool[p][s]
    BY <2>7 DEF IInv, PoolTracksUse
  <2>9. idle[q] <= KeepAlive
    BY <2>6, <2>7, <2>8, KeepAliveAssumption DEF IInv, TypeOK, Age, Expired
  <2> QED BY <2>8, <2>9
<1> QED BY <1>1, Inductive, PTL DEF Spec, RefusedOnlyWhenAllInUse

=============================================================================
