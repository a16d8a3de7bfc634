---------------------------- MODULE Client_proofs ----------------------------
(***************************************************************************)
(* Proofs about Client, for all sources, devices and frames, every         *)
(* capacity of the channel and every number of captures and fragments.     *)
(***************************************************************************)
EXTENDS Client, SequenceTheorems, WellFoundedInduction, TLAPS

-----------------------------------------------------------------------------
(* The inductive invariant.                                                *)

\* What handleUpstream has at hand at each of its points.
UpstreamHolds ==
  /\ upstream.pc # "idle" => upstream.ip \in IP
  /\ upstream.pc = "lookup" => wrote = <<>>
  /\ upstream.pc = "write" => upstream.ni \in Place /\ upstream.left >= 1

\* handleListen records the packet that was forwarded last.
RecordsLast ==
  listen.pc = "record" =>
    Len(forwarded) > 0 /\ forwarded[Len(forwarded)] = listen.pkt

\* The packets of a source of which nat may know.
Recorded(i) == IF Recording(i) THEN From(i) \ {Len(forwarded)} ELSE From(i)

NatFollows == \A i \in IP : Follows(nat[i], Recorded(i))

\* What is written for a fragment of a reply to address i with entry ni.
Reply(i, ni) == [ip |-> i, link |-> LinkLayer(ni), conn |-> ni.conn]

\* While fragments are written, the entry in hand is that of a packet that was
\* forwarded, and all fragments so far went there.
ReplyInHand ==
  upstream.pc = "write" =>
    /\ \E m \in From(upstream.ip) : upstream.ni = PlaceOf(forwarded[m].frame)
    /\ \A j \in DOMAIN wrote : wrote[j] = Reply(upstream.ip, upstream.ni)

IInv ==
  /\ TypeOK
  /\ UpstreamHolds
  /\ RecordsLast
  /\ NatFollows
  /\ ReplyInHand
  /\ RepliesStayTogether

-----------------------------------------------------------------------------
(* Types.                                                                  *)

Written == [ip : IP, link : HardwareAddr \cup {"loopback"}, conn : Conn]

LEMMA FrameTypes ==
  ASSUME NEW p \in Packet
  PROVE  /\ p.frame \in Frame
         /\ p.frame.ip \in IP /\ p.frame.hw \in HardwareAddr
         /\ p.frame.conn \in Conn /\ p.frame.kind \in Kind
         /\ PlaceOf(p.frame) \in Place
         /\ PlaceOf(p.frame) # None /\ p # None
BY FrameAssumption, NoneAssumption DEF Packet, Place, PlaceOf

LEMMA ReplyType ==
  ASSUME NEW i \in IP, NEW ni \in Place
  PROVE  Reply(i, ni) \in Written
BY DEF Reply, Written, LinkLayer, Place

\* TypeOK and UpstreamHolds are kept by every step.
LEMMA TypeStep ==
  ASSUME TypeOK, UpstreamHolds, [Next]_vars
  PROVE  TypeOK' /\ UpstreamHolds'
<1>0. /\ reader \in [Conn -> Packet \cup {None}]
      /\ c \in Seq(Packet) /\ Len(c) <= Capacity
      /\ listen \in [pc : {"idle", "parse", "record"}, pkt : Packet \cup {None}]
      /\ listen.pc = "idle" <=> listen.pkt = None
      /\ nat \in [IP -> Place \cup {None}]
      /\ upstream \in [pc : {"idle", "lookup", "write"}, ip : IP \cup {None}, whole : BOOLEAN,
                       ni : Place \cup {None}, left : 0 .. MaxFragments]
      /\ captures \in 0 .. MaxCaptures
      /\ known \subseteq IP
      /\ forwarded \in Seq(Packet)
      /\ wrote \in Seq(Written)
      /\ Capacity \in Nat \ {0} /\ MaxCaptures \in Nat /\ MaxFragments \in Nat \ {0}
  BY BoundAssumption DEF TypeOK, Written
<1>1. ASSUME NEW f \in Frame, Capture(f)
      PROVE  TypeOK' /\ UpstreamHolds'
  <2>1. [n |-> captures + 1, frame |-> f] \in Packet /\ captures' \in 0 .. MaxCaptures
    BY <1>0, <1>1 DEF Capture, Packet
  <2>2. reader' \in [Conn -> Packet \cup {None}]
    BY <1>0, <1>1, <2>1 DEF Capture
  <2> QED BY <1>1, <2>1, <2>2 DEF Capture, TypeOK, UpstreamHolds
<1>2. ASSUME NEW k \in Conn, Enqueue(k)
      PROVE  TypeOK' /\ UpstreamHolds'
  <2>1. reader[k] \in Packet
    BY <1>0, <1>2 DEF Enqueue
  <2>2. c' \in Seq(Packet) /\ Len(c') <= Capacity
    BY <1>0, <1>2, <2>1 DEF Enqueue
  <2>3. reader' \in [Conn -> Packet \cup {None}]
    BY <1>0, <1>2 DEF Enqueue
  <2> QED BY <1>2, <2>2, <2>3 DEF Enqueue, TypeOK, UpstreamHolds
<1>3. CASE ListenTake
  <2>1. Head(c) \in Packet /\ c' \in Seq(Packet) /\ Len(c') <= Capacity
    BY <1>0, <1>3 DEF ListenTake
  <2>2. Head(c) # None
    BY <2>1, FrameTypes
  <2>3. /\ listen' \in [pc : {"idle", "parse", "record"}, pkt : Packet \cup {None}]
        /\ (listen.pc = "idle" <=> listen.pkt = None)'
    BY <1>3, <2>1, <2>2 DEF ListenTake
  <2> QED BY <1>3, <2>1, <2>3 DEF ListenTake, TypeOK, UpstreamHolds, upstreamVars
<1>4. CASE ListenBad \/ Publish \/ ListenWriteError
  BY <1>0, <1>4 DEF ListenBad, Publish, ListenWriteError, ListenIdle, TypeOK, UpstreamHolds,
                    upstreamVars
<1>5. CASE ListenWrite
  <2>1. listen.pkt \in Packet /\ listen.pkt.frame.ip \in IP /\ listen.pkt # None
    BY <1>0, <1>5, FrameTypes DEF ListenWrite
  <2>2. forwarded' \in Seq(Packet) /\ known' \subseteq IP
    BY <1>0, <1>5, <2>1 DEF ListenWrite
  <2>3. listen' = [pc |-> "record", pkt |-> listen.pkt]
    BY <1>0, <1>5 DEF ListenWrite
  <2> QED BY <1>5, <2>1, <2>2, <2>3 DEF ListenWrite, TypeOK, UpstreamHolds, upstreamVars
<1>6. CASE ListenRecord
  <2>1. listen.pkt \in Packet /\ PlaceOf(listen.pkt.frame) \in Place
    BY <1>0, <1>6, FrameTypes DEF ListenRecord
  <2>2. nat' \in [IP -> Place \cup {None}]
    BY <1>0, <1>6, <2>1 DEF ListenRecord
  <2> QED BY <1>6, <2>2 DEF ListenRecord, ListenIdle, TypeOK, UpstreamHolds, upstreamVars
<1>7. ASSUME NEW i \in IP, NEW whole \in BOOLEAN, UpstreamRead(i, whole)
      PROVE  TypeOK' /\ UpstreamHolds'
  <2>1. /\ upstream' = [pc |-> "lookup", ip |-> i, whole |-> whole, ni |-> None, left |-> 0]
        /\ wrote' = <<>>
    BY <1>7 DEF UpstreamRead, UpstreamIdle
  <2> QED BY <1>0, <1>7, <2>1 DEF UpstreamRead, TypeOK, UpstreamHolds, listenVars
<1> DEFINE UType == [pc : {"idle", "lookup", "write"}, ip : IP \cup {None}, whole : BOOLEAN,
                     ni : Place \cup {None}, left : 0 .. MaxFragments]
<1>8. ASSUME upstream' \in UType, wrote' \in Seq(Written), UpstreamHolds',
              UNCHANGED <<listenVars, nat, known>>
       PROVE  TypeOK' /\ UpstreamHolds'
  BY <1>0, <1>8 DEF TypeOK, listenVars, Written
<1>9. UpstreamIdle \in UType /\ UpstreamIdle.pc = "idle"
  BY <1>0 DEF UpstreamIdle
<1>10. CASE UpstreamMiss \/ UpstreamWriteError
  <2>1. UNCHANGED <<listenVars, nat, known, wrote>> /\ upstream' = UpstreamIdle
    BY <1>10 DEF UpstreamMiss, UpstreamWriteError
  <2>2. UpstreamHolds'
    BY <1>9, <2>1 DEF UpstreamHolds
  <2>3. upstream' \in UType /\ wrote' \in Seq(Written)
    BY <1>0, <1>9, <2>1
  <2> QED BY <1>8, <2>1, <2>2, <2>3
<1>11. ASSUME NEW count \in 1 .. MaxFragments, UpstreamLookup(count)
      PROVE  TypeOK' /\ UpstreamHolds'
  <2>1. upstream.ip \in IP /\ nat[upstream.ip] \in Place
    BY <1>0, <1>11 DEF UpstreamLookup, UpstreamHolds
  <2>2. upstream' = [pc |-> "write", ip |-> upstream.ip, whole |-> upstream.whole,
                     ni |-> nat[upstream.ip], left |-> count]
    BY <1>0, <1>11 DEF UpstreamLookup
  <2>3. upstream' \in UType
    <3>1. upstream.whole \in BOOLEAN /\ count \in 0 .. MaxFragments
      BY <1>0
    <3> QED BY <2>1, <2>2, <3>1
  <2>4. UpstreamHolds'
    BY <2>1, <2>2 DEF UpstreamHolds
  <2>5. UNCHANGED <<listenVars, nat, known, wrote>>
    BY <1>11 DEF UpstreamLookup
  <2> QED BY <1>0, <1>8, <2>3, <2>4, <2>5
<1>12. CASE UpstreamWrite
  <2>1. upstream.ip \in IP /\ upstream.ni \in Place /\ upstream.left >= 1
    BY <1>12 DEF UpstreamWrite, UpstreamHolds
  <2>2. wrote' \in Seq(Written) /\ UNCHANGED <<listenVars, nat, known>>
    BY <1>0, <1>12, <2>1, ReplyType DEF UpstreamWrite, Reply
  <2>3. CASE upstream.left = 1
    <3>1. upstream' = UpstreamIdle
      BY <1>12, <2>3 DEF UpstreamWrite
    <3>2. UpstreamHolds'
      BY <1>9, <3>1 DEF UpstreamHolds
    <3> QED BY <1>8, <1>9, <2>2, <3>1, <3>2
  <2>4. CASE upstream.left # 1
    <3>1. upstream' = [pc |-> "write", ip |-> upstream.ip, whole |-> upstream.whole,
                       ni |-> upstream.ni, left |-> upstream.left - 1]
      BY <1>0, <1>12, <2>4 DEF UpstreamWrite
    <3>2. upstream.left - 1 \in 0 .. MaxFragments /\ upstream.left - 1 >= 1
      BY <1>0, <2>1, <2>4
    <3>3. upstream' \in UType
      <4>1. upstream.whole \in BOOLEAN
        BY <1>0
      <4> QED BY <2>1, <3>1, <3>2, <4>1
    <3>4. UpstreamHolds'
      BY <2>1, <3>1, <3>2 DEF UpstreamHolds
    <3> QED BY <1>8, <2>2, <3>3, <3>4
  <2> QED BY <2>3, <2>4
<1>13. CASE UpstreamPanic \/ Terminate
  <2>1. ProcessEnds
    BY <1>13 DEF UpstreamPanic, Terminate
  <2> QED BY <1>0, <2>1 DEF ProcessEnds, NoNAT, ListenIdle, UpstreamIdle, TypeOK, UpstreamHolds
<1>14. CASE UNCHANGED vars
  BY <1>14 DEF vars, TypeOK, UpstreamHolds
<1> QED BY <1>1, <1>2, <1>3, <1>4, <1>5, <1>6, <1>7, <1>10, <1>11, <1>12, <1>13, <1>14 DEF Next

-----------------------------------------------------------------------------
(* The entries of nat.                                                     *)

\* Follows, of any sequence of forwarded packets.
FollowsIn(F, entry, S) ==
  IF S = {} THEN entry = None
  ELSE \E m \in S :
         /\ \A j \in S : j >= m => F[j].frame.hw = F[m].frame.hw
         /\ \A l \in S : l < m =>
              \E j \in l .. m - 1 : j \in S /\ F[j].frame.hw # F[m].frame.hw
         /\ entry = PlaceOf(F[m].frame)

\* An entry depends on the packets of its source alone.
LEMMA FollowsStable ==
  ASSUME NEW F, NEW G, NEW S, NEW entry, S \in SUBSET Nat,
         \A m \in S : G[m] = F[m], FollowsIn(F, entry, S)
  PROVE  FollowsIn(G, entry, S)
<1>1. CASE S = {}
  BY <1>1 DEF FollowsIn
<1>2. CASE S # {}
  <2>1. PICK m \in S :
          /\ \A j \in S : j >= m => F[j].frame.hw = F[m].frame.hw
          /\ \A l \in S : l < m =>
               \E j \in l .. m - 1 : j \in S /\ F[j].frame.hw # F[m].frame.hw
          /\ entry = PlaceOf(F[m].frame)
    BY <1>2 DEF FollowsIn
  <2>2. \A j \in S : G[j].frame.hw = F[j].frame.hw
    OBVIOUS
  <2>3. entry = PlaceOf(G[m].frame)
    BY <2>1
  <2>4. \A j \in S : j >= m => G[j].frame.hw = G[m].frame.hw
    BY <2>1, <2>2
  <2>5. \A l \in S : l < m => \E j \in l .. m - 1 : j \in S /\ G[j].frame.hw # G[m].frame.hw
    BY <2>1, <2>2
  <2> QED BY <1>2, <2>3, <2>4, <2>5 DEF FollowsIn
<1> QED BY <1>1, <1>2

\* The assignment of ListenRecord makes an entry follow one more packet, the
\* last.
LEMMA FollowsNext ==
  ASSUME NEW F, NEW S, NEW entry, NEW n \in Nat, S \in SUBSET Nat,
         \A j \in S : j < n,
         \A j \in S : PlaceOf(F[j].frame) # None,
         FollowsIn(F, entry, S)
  PROVE  FollowsIn(F, IF Outdated(entry, F[n].frame) THEN PlaceOf(F[n].frame) ELSE entry,
                   S \cup {n})
<1> DEFINE T == S \cup {n}
           next == IF Outdated(entry, F[n].frame) THEN PlaceOf(F[n].frame) ELSE entry
<1>0. T # {} /\ n \in T /\ T \in SUBSET Nat
  OBVIOUS
<1>1. CASE S = {}
  <2>1. next = PlaceOf(F[n].frame)
    BY <1>1 DEF FollowsIn, Outdated
  <2>2. \A j \in T : j = n
    BY <1>1
  <2> QED BY <1>0, <2>1, <2>2 DEF FollowsIn
<1>2. CASE S # {}
  <2>1. PICK m \in S :
          /\ \A j \in S : j >= m => F[j].frame.hw = F[m].frame.hw
          /\ \A l \in S : l < m =>
               \E j \in l .. m - 1 : j \in S /\ F[j].frame.hw # F[m].frame.hw
          /\ entry = PlaceOf(F[m].frame)
    BY <1>2 DEF FollowsIn
  <2>2. entry # None /\ entry.hw = F[m].frame.hw /\ m < n /\ m \in T /\ m \in Nat
    BY <2>1 DEF PlaceOf
  <2>3. CASE F[n].frame.hw = F[m].frame.hw
    <3>1. next = PlaceOf(F[m].frame)
      BY <2>1, <2>2, <2>3 DEF Outdated
    <3>2. \A j \in T : j >= m => F[j].frame.hw = F[m].frame.hw
      BY <2>1, <2>3
    <3>3. \A l \in T : l < m =>
            \E j \in l .. m - 1 : j \in T /\ F[j].frame.hw # F[m].frame.hw
      BY <2>1, <2>2
    <3> QED BY <1>0, <2>2, <3>1, <3>2, <3>3 DEF FollowsIn
  <2>4. CASE F[n].frame.hw # F[m].frame.hw
    <3>1. next = PlaceOf(F[n].frame)
      BY <2>1, <2>2, <2>4 DEF Outdated
    <3>2. \A j \in T : j >= n => F[j].frame.hw = F[n].frame.hw
      OBVIOUS
    <3>3. ASSUME NEW l \in T, l < n
          PROVE  \E j \in l .. n - 1 : j \in T /\ F[j].frame.hw # F[n].frame.hw
      <4>1. l \in S
        BY <3>3
      <4>2. CASE l >= m
        <5>1. l \in l .. n - 1 /\ F[l].frame.hw # F[n].frame.hw
          BY <2>1, <2>4, <3>3, <4>1, <4>2
        <5> QED BY <5>1
      <4>3. CASE l < m
        <5>1. m \in l .. n - 1
          BY <2>2, <4>1, <4>3
        <5> QED BY <2>2, <2>4, <5>1
      <4> QED BY <4>1, <4>2, <4>3
    <3> QED BY <1>0, <3>1, <3>2, <3>3 DEF FollowsIn
  <2> QED BY <2>3, <2>4
<1> QED BY <1>1, <1>2

\* NatFollows in terms of FollowsIn, in a state and in the next.
LEMMA NatFollowsIn ==
  /\ NatFollows <=> \A i \in IP : FollowsIn(forwarded, nat[i], Recorded(i))
  /\ NatFollows' <=> \A i \in IP : FollowsIn(forwarded', nat'[i], Recorded(i)')
<1>1. NatFollows <=> \A i \in IP : FollowsIn(forwarded, nat[i], Recorded(i))
  BY DEF NatFollows, Follows, FollowsIn, SameAddressSince, HwOf
<1>2. NatFollows' <=> \A i \in IP : FollowsIn(forwarded', nat'[i], Recorded(i)')
  BY DEF NatFollows, Follows, FollowsIn, SameAddressSince, HwOf
<1> QED BY <1>1, <1>2

LEMMA FromType ==
  ASSUME forwarded \in Seq(Packet), NEW i \in IP
  PROVE  /\ From(i) \in SUBSET Nat /\ Recorded(i) \in SUBSET Nat
         /\ Recorded(i) \subseteq From(i)
         /\ \A m \in From(i) : /\ m \in 1 .. Len(forwarded) /\ forwarded[m] \in Packet
                               /\ PlaceOf(forwarded[m].frame) # None
<1>1. DOMAIN forwarded = 1 .. Len(forwarded) /\ Len(forwarded) \in Nat
  OBVIOUS
<1>2. From(i) \subseteq 1 .. Len(forwarded) /\ Recorded(i) \subseteq From(i)
  BY <1>1 DEF From, Recorded
<1>3. \A m \in From(i) : forwarded[m] \in Packet
  BY <1>1, <1>2
<1> QED BY <1>1, <1>2, <1>3, FrameTypes

\* nat follows the packets forwarded, and every step keeps it so.
LEMMA NatStep ==
  ASSUME TypeOK, RecordsLast, NatFollows, [Next]_vars
  PROVE  RecordsLast' /\ NatFollows'
<1>0. /\ forwarded \in Seq(Packet)
      /\ listen \in [pc : {"idle", "parse", "record"}, pkt : Packet \cup {None}]
      /\ listen.pc = "idle" <=> listen.pkt = None
      /\ nat \in [IP -> Place \cup {None}]
  BY DEF TypeOK
<1>1. ASSUME UNCHANGED <<nat, forwarded>>,
             listen' = listen \/ (listen.pc # "record" /\ listen'.pc # "record")
      PROVE  RecordsLast' /\ NatFollows'
  <2>1. RecordsLast'
    BY <1>1 DEF RecordsLast
  <2>2. \A i \in IP : Recorded(i)' = Recorded(i)
    BY <1>1 DEF Recorded, Recording, From
  <2> QED BY <1>1, <2>1, <2>2, NatFollowsIn
<1>2. CASE ListenWrite
  <2> DEFINE p == listen.pkt
             n == Len(forwarded) + 1
  <2>1. /\ p \in Packet /\ p.frame.ip \in IP
        /\ forwarded' = Append(forwarded, p) /\ nat' = nat
        /\ listen.pc = "parse" /\ listen'.pc = "record" /\ listen'.pkt = p
    BY <1>0, <1>2, FrameTypes DEF ListenWrite
  <2>2. /\ Len(forwarded') = n /\ forwarded'[n] = p /\ n > 0
        /\ DOMAIN forwarded' = 1 .. n /\ DOMAIN forwarded = 1 .. (n - 1)
        /\ \A m \in 1 .. (n - 1) : forwarded'[m] = forwarded[m]
        /\ n \in Nat
    BY <1>0, <2>1
  <2>3. RecordsLast'
    BY <2>1, <2>2 DEF RecordsLast
  <2>4. ASSUME NEW i \in IP
        PROVE  FollowsIn(forwarded', nat'[i], Recorded(i)')
    <3>1. Recorded(i) = From(i)
      BY <2>1 DEF Recorded, Recording
    <3>2. CASE p.frame.ip = i
      <4>1. From(i)' = From(i) \cup {n}
        BY <2>2, <3>2 DEF From
      <4>2. Recorded(i)' = From(i)' \ {n}
        BY <2>1, <2>2, <3>2 DEF Recorded, Recording
      <4>3. n \notin From(i)
        BY <2>2 DEF From
      <4>4. Recorded(i)' = Recorded(i)
        BY <3>1, <4>1, <4>2, <4>3
      <4>5. \A m \in Recorded(i) : forwarded'[m] = forwarded[m]
        BY <2>2, <3>1 DEF From
      <4> QED BY <1>0, <2>1, <4>4, <4>5, NatFollowsIn, FromType, FollowsStable, ZenonT(60)
    <3>3. CASE p.frame.ip # i
      <4>1. From(i)' = From(i)
        BY <2>2, <3>3 DEF From
      <4>2. Recorded(i)' = From(i)'
        BY <2>1, <3>3 DEF Recorded, Recording
      <4>3. Recorded(i)' = Recorded(i)
        BY <3>1, <4>1, <4>2
      <4>4. \A m \in Recorded(i) : forwarded'[m] = forwarded[m]
        BY <2>2, <3>1 DEF From
      <4> QED BY <1>0, <2>1, <4>3, <4>4, NatFollowsIn, FromType, FollowsStable, ZenonT(60)
    <3> QED BY <3>2, <3>3
  <2> QED BY <2>3, <2>4, NatFollowsIn
<1>3. CASE ListenRecord
  <2> DEFINE p == listen.pkt
             n == Len(forwarded)
  <2>1. /\ p \in Packet /\ p.frame.ip \in IP /\ listen.pc = "record"
        /\ forwarded' = forwarded /\ listen'.pc = "idle"
        /\ n \in Nat /\ n > 0 /\ forwarded[n] = p
    BY <1>0, <1>3, FrameTypes DEF ListenRecord, ListenIdle, RecordsLast
  <2>2. RecordsLast'
    BY <2>1 DEF RecordsLast
  <2>3. nat' = IF Outdated(nat[p.frame.ip], p.frame)
               THEN [nat EXCEPT ![p.frame.ip] = PlaceOf(p.frame)] ELSE nat
    BY <1>3 DEF ListenRecord
  <2>4. ASSUME NEW i \in IP
        PROVE  FollowsIn(forwarded', nat'[i], Recorded(i)')
    <3>1. Recorded(i)' = From(i)
      BY <2>1 DEF Recorded, Recording, From
    <3>2. CASE p.frame.ip = i
      <4>1. n \in From(i)
        BY <1>0, <2>1, <3>2 DEF From
      <4>2. Recorded(i) = From(i) \ {n}
        BY <2>1, <3>2 DEF Recorded, Recording
      <4>3. Recorded(i)' = Recorded(i) \cup {n}
        BY <3>1, <4>1, <4>2
      <4>4. nat'[i] = IF Outdated(nat[i], forwarded[n].frame)
                      THEN PlaceOf(forwarded[n].frame) ELSE nat[i]
        BY <1>0, <2>1, <2>3, <3>2
      <4>5. \A m \in Recorded(i) : m < n /\ PlaceOf(forwarded[m].frame) # None
        BY <1>0, <2>1, <4>2, FromType
      <4>6. FollowsIn(forwarded, nat[i], Recorded(i)) /\ Recorded(i) \in SUBSET Nat
        BY <1>0, NatFollowsIn, FromType
      <4>7. FollowsIn(forwarded, IF Outdated(nat[i], forwarded[n].frame)
                                 THEN PlaceOf(forwarded[n].frame) ELSE nat[i],
                      Recorded(i) \cup {n})
        BY <2>1, <4>5, <4>6, FollowsNext
      <4> QED BY <2>1, <4>3, <4>4, <4>7
    <3>3. CASE p.frame.ip # i
      <4>1. Recorded(i) = From(i)
        BY <3>3 DEF Recorded, Recording
      <4>2. nat'[i] = nat[i]
        BY <1>0, <2>1, <2>3, <3>3
      <4> QED BY <2>1, <3>1, <4>1, <4>2, NatFollowsIn
    <3> QED BY <3>2, <3>3
  <2> QED BY <2>2, <2>4, NatFollowsIn
<1>4. CASE UpstreamPanic \/ Terminate
  <2>1. /\ forwarded' = <<>> /\ listen'.pc = "idle"
        /\ nat' = [i \in IP |-> None]
    BY <1>4 DEF UpstreamPanic, Terminate, ProcessEnds, ListenIdle, NoNAT
  <2>2. RecordsLast'
    BY <2>1 DEF RecordsLast
  <2>3. \A i \in IP : From(i)' = {} /\ Recorded(i)' = From(i)'
    BY <2>1 DEF From, Recorded, Recording
  <2>4. \A i \in IP : FollowsIn(forwarded', nat'[i], Recorded(i)')
    BY <2>1, <2>3 DEF FollowsIn
  <2> QED BY <2>2, <2>4, NatFollowsIn
<1>5. ASSUME NEW f \in Frame, Capture(f) PROVE RecordsLast' /\ NatFollows'
  BY <1>1, <1>5 DEF Capture
<1>6. ASSUME NEW k \in Conn, Enqueue(k) PROVE RecordsLast' /\ NatFollows'
  BY <1>1, <1>6 DEF Enqueue
<1>7. CASE ListenTake \/ ListenBad \/ Publish \/ ListenWriteError
  BY <1>1, <1>7 DEF ListenTake, ListenBad, Publish, ListenWriteError, ListenIdle
<1>8. ASSUME NEW i \in IP, NEW whole \in BOOLEAN, UpstreamRead(i, whole)
      PROVE  RecordsLast' /\ NatFollows'
  BY <1>1, <1>8 DEF UpstreamRead, listenVars
<1>9. ASSUME NEW count \in 1 .. MaxFragments, UpstreamLookup(count)
      PROVE  RecordsLast' /\ NatFollows'
  BY <1>1, <1>9 DEF UpstreamLookup, listenVars
<1>10. CASE UpstreamMiss \/ UpstreamWrite \/ UpstreamWriteError
  BY <1>1, <1>10 DEF UpstreamMiss, UpstreamWrite, UpstreamWriteError, listenVars
<1>11. CASE UNCHANGED vars
  BY <1>1, <1>11 DEF vars
<1> QED BY <1>2, <1>3, <1>4, <1>5, <1>6, <1>7, <1>8, <1>9, <1>10, <1>11 DEF Next

-----------------------------------------------------------------------------
(* The fragments of a reply.                                               *)

\* Something was forwarded from where an entry is.
LEMMA EntryHasPacket ==
  ASSUME NEW F, NEW S, NEW entry, entry # None, FollowsIn(F, entry, S)
  PROVE  \E m \in S : entry = PlaceOf(F[m].frame)
BY DEF FollowsIn

\* All fragments of a reply go to one place, and every step keeps it so.
LEMMA ReplyStep ==
  ASSUME TypeOK, UpstreamHolds, NatFollows, ReplyInHand, RepliesStayTogether, [Next]_vars
  PROVE  ReplyInHand' /\ RepliesStayTogether'
<1>0. /\ forwarded \in Seq(Packet) /\ wrote \in Seq(Written)
      /\ listen \in [pc : {"idle", "parse", "record"}, pkt : Packet \cup {None}]
      /\ listen.pc = "idle" <=> listen.pkt = None
  BY DEF TypeOK, Written
<1>1. ASSUME UNCHANGED <<upstream, wrote>>, DOMAIN forwarded \subseteq DOMAIN forwarded',
             \A m \in DOMAIN forwarded : forwarded'[m] = forwarded[m]
      PROVE  ReplyInHand' /\ RepliesStayTogether'
  <2>1. \A i \in IP : \A m \in From(i) : m \in From(i)' /\ forwarded'[m] = forwarded[m]
    BY <1>1 DEF From
  <2>2. ReplyInHand'
    BY <1>1, <2>1 DEF ReplyInHand, UpstreamHolds, Reply, LinkLayer
  <2>3. RepliesStayTogether'
    BY <1>1 DEF RepliesStayTogether, LinkLayer, PlaceOf
  <2> QED BY <2>2, <2>3
<1>2. ASSUME UNCHANGED forwarded, upstream'.pc # "write",
             wrote' = wrote \/ wrote' = <<>>
      PROVE  ReplyInHand' /\ RepliesStayTogether'
  <2>1. ReplyInHand'
    BY <1>2 DEF ReplyInHand
  <2>2. RepliesStayTogether'
    BY <1>2 DEF RepliesStayTogether, LinkLayer, PlaceOf
  <2> QED BY <2>1, <2>2
<1>3. ASSUME NEW f \in Frame, Capture(f) PROVE ReplyInHand' /\ RepliesStayTogether'
  BY <1>1, <1>3 DEF Capture
<1>4. ASSUME NEW k \in Conn, Enqueue(k) PROVE ReplyInHand' /\ RepliesStayTogether'
  BY <1>1, <1>4 DEF Enqueue
<1>5. CASE ListenTake \/ ListenBad \/ Publish \/ ListenWriteError \/ ListenRecord
  BY <1>1, <1>5
     DEF ListenTake, ListenBad, Publish, ListenWriteError, ListenRecord, upstreamVars
<1>6. CASE ListenWrite
  <2>1. /\ listen.pkt \in Packet /\ forwarded' = Append(forwarded, listen.pkt)
        /\ UNCHANGED <<upstream, wrote>>
    BY <1>0, <1>6 DEF ListenWrite, upstreamVars
  <2>2. /\ DOMAIN forwarded \subseteq DOMAIN forwarded'
        /\ \A m \in DOMAIN forwarded : forwarded'[m] = forwarded[m]
    BY <1>0, <2>1
  <2> QED BY <1>1, <2>1, <2>2
<1>7. ASSUME NEW i \in IP, NEW whole \in BOOLEAN, UpstreamRead(i, whole)
      PROVE  ReplyInHand' /\ RepliesStayTogether'
  <2>1. UNCHANGED forwarded /\ upstream'.pc # "write" /\ wrote' = <<>>
    BY <1>7 DEF UpstreamRead, listenVars, UpstreamIdle
  <2> QED BY <1>2, <2>1
<1>8. CASE UpstreamMiss \/ UpstreamWriteError
  BY <1>2, <1>8 DEF UpstreamMiss, UpstreamWriteError, UpstreamIdle, listenVars
<1>9. ASSUME NEW count \in 1 .. MaxFragments, UpstreamLookup(count)
      PROVE  ReplyInHand' /\ RepliesStayTogether'
  <2>1. /\ upstream.ip \in IP /\ nat[upstream.ip] # None /\ wrote = <<>>
        /\ UNCHANGED <<forwarded, wrote>>
    BY <1>9 DEF UpstreamLookup, UpstreamHolds, listenVars
  <2>2. upstream'.ip = upstream.ip /\ upstream'.ni = nat[upstream.ip]
    BY <1>9 DEF UpstreamLookup, TypeOK
  <2>3. FollowsIn(forwarded, nat[upstream.ip], Recorded(upstream.ip))
    BY <2>1, NatFollowsIn
  <2>4. \E m \in From(upstream.ip) : nat[upstream.ip] = PlaceOf(forwarded[m].frame)
    BY <1>0, <2>1, <2>3, EntryHasPacket, FromType
  <2>5. \E m \in From(upstream.ip)' : upstream'.ni = PlaceOf(forwarded'[m].frame)
    BY <2>1, <2>2, <2>4 DEF From
  <2>6. ReplyInHand'
    BY <2>1, <2>2, <2>5 DEF ReplyInHand, From
  <2>7. RepliesStayTogether'
    BY <2>1 DEF RepliesStayTogether
  <2> QED BY <2>6, <2>7
<1>10. CASE UpstreamWrite
  <2> DEFINE R == Reply(upstream.ip, upstream.ni)
  <2>1. /\ upstream.ip \in IP /\ upstream.ni \in Place
        /\ wrote' = Append(wrote, R) /\ UNCHANGED forwarded
        /\ \A j \in DOMAIN wrote : wrote[j] = R
    BY <1>10 DEF UpstreamWrite, UpstreamHolds, listenVars, Reply, ReplyInHand
  <2>2. \A j \in DOMAIN wrote' : wrote'[j] = R /\ 1 \in DOMAIN wrote'
    <3>1. R \in Written
      BY <2>1, ReplyType
    <3> HIDE DEF R
    <3> QED BY <1>0, <2>1, <3>1
  <2>3. PICK m \in From(upstream.ip) : upstream.ni = PlaceOf(forwarded[m].frame)
    BY <1>10 DEF UpstreamWrite, ReplyInHand
  <2>4. /\ m \in DOMAIN forwarded'
        /\ R = [ip |-> forwarded'[m].frame.ip, link |-> LinkLayer(PlaceOf(forwarded'[m].frame)),
                conn |-> forwarded'[m].frame.conn]
    BY <2>1, <2>3 DEF From, Reply, PlaceOf
  <2>5. RepliesStayTogether'
    BY <2>2, <2>4 DEF RepliesStayTogether
  <2>6. upstream'.pc = "write" => upstream'.ip = upstream.ip /\ upstream'.ni = upstream.ni
    BY <1>10 DEF UpstreamWrite, UpstreamIdle, TypeOK
  <2>7. \E l \in DOMAIN forwarded' : /\ forwarded'[l].frame.ip = upstream.ip
                                     /\ upstream.ni = PlaceOf(forwarded'[l].frame)
    BY <2>1, <2>3 DEF From
  <2>8. ReplyInHand'
    BY <2>2, <2>6, <2>7 DEF ReplyInHand, From, Reply
  <2> QED BY <2>5, <2>8
<1>11. CASE UpstreamPanic \/ Terminate
  <2>1. wrote' = <<>> /\ upstream'.pc = "idle"
    BY <1>11 DEF UpstreamPanic, Terminate, ProcessEnds, UpstreamIdle
  <2> QED BY <2>1 DEF ReplyInHand, RepliesStayTogether
<1>12. CASE UNCHANGED vars
  BY <1>1, <1>12 DEF vars
<1> QED BY <1>3, <1>4, <1>5, <1>6, <1>7, <1>8, <1>9, <1>10, <1>11, <1>12 DEF Next

-----------------------------------------------------------------------------
(* The packets of one device.                                              *)

\* A set of naturals that has 0 and with every number the next has them all.
LEMMA Induction ==
  ASSUME NEW B, 0 \in B, \A n \in Nat : n \in B => n + 1 \in B
  PROVE  \A n \in Nat : n \in B
<1>1. PICK R : R = OpToRel(<, Nat)
  OBVIOUS
<1>2. IsWellFoundedOn(R, Nat)
  BY <1>1, NatLessThanWellFounded, Zenon
<1>3. \A x, y \in Nat : y < x => <<y, x>> \in R
  BY <1>1, Zenon DEF OpToRel
<1>4. SUFFICES ASSUME Nat \ B # {} PROVE FALSE
  OBVIOUS
<1>5. \E x \in Nat \ B : \A y \in Nat \ B : <<y, x>> \notin R
  <2>1. (Nat \ B) \subseteq Nat
    OBVIOUS
  <2> QED BY <1>2, <1>4, <2>1, WFMin, Zenon
<1>6. PICK x \in Nat \ B : \A y \in Nat \ B : <<y, x>> \notin R
  BY <1>5
<1>7. x # 0
  OBVIOUS
<1>8. PICK y : y = x - 1
  OBVIOUS
<1>9. y \in Nat /\ y < x /\ y + 1 = x
  BY <1>7, <1>8
<1>10. <<y, x>> \in R
  BY <1>3, <1>9, Zenon
<1>11. y \in B
  BY <1>6, <1>9, <1>10, Zenon
<1> QED BY <1>9, <1>11

\* The i-th step of OfConn, and all of them.
Chosen(k, s, F, i) ==
  IF i = 0 THEN <<>>
  ELSE IF s[i].frame.conn = k THEN Append(F[i - 1], s[i]) ELSE F[i - 1]

Chooses(k, s, F) ==
  /\ F[0] = <<>> /\ OfConn(k, s) = F[Len(s)]
  /\ \A i \in 1 .. Len(s) : F[i] = IF s[i].frame.conn = k THEN Append(F[i - 1], s[i]) ELSE F[i - 1]
  /\ \A i \in 0 .. Len(s) : F[i] \in Seq(Packet)

LEMMA OfConnIsRecursive ==
  ASSUME NEW k, NEW s \in Seq(Packet)
  PROVE  \E F : F = [i \in 0 .. Len(s) |-> Chosen(k, s, F, i)] /\ OfConn(k, s) = F[Len(s)]
<1> DEFINE P == {n \in Nat : \E F : F = [i \in 0 .. n |-> Chosen(k, s, F, i)]}
<1>1. 0 \in P
  <2>1. PICK F : F = [i \in 0 .. 0 |-> <<>>]
    OBVIOUS
  <2>2. F = [i \in 0 .. 0 |-> Chosen(k, s, F, i)]
    BY <2>1 DEF Chosen
  <2> QED BY <2>2
<1>2. ASSUME NEW n \in Nat, n \in P PROVE n + 1 \in P
  <2>1. PICK F : F = [i \in 0 .. n |-> Chosen(k, s, F, i)]
    BY <1>2
  <2>2. PICK G : G = [i \in 0 .. n + 1 |-> Chosen(k, s, F, i)]
    OBVIOUS
  <2>3. \A i \in 0 .. n : G[i] = F[i]
    BY <2>1, <2>2
  <2>4. \A i \in 0 .. n + 1 : Chosen(k, s, F, i) = Chosen(k, s, G, i)
    <3> SUFFICES ASSUME NEW i \in 0 .. n + 1, i # 0 PROVE F[i - 1] = G[i - 1]
      BY DEF Chosen
    <3> QED BY <2>3
  <2>5. G = [i \in 0 .. n + 1 |-> Chosen(k, s, G, i)]
    BY <2>2, <2>4
  <2> QED BY <2>5
<1> HIDE DEF P
<1>3. Len(s) \in P
  BY <1>1, <1>2, Induction, LenProperties
<1>4. \E F : F = [i \in 0 .. Len(s) |-> Chosen(k, s, F, i)]
  BY <1>3 DEF P
<1>5. OfConn(k, s) = (CHOOSE F : F = [i \in 0 .. Len(s) |-> Chosen(k, s, F, i)])[Len(s)]
  BY Zenon DEF OfConn, Chosen
<1> QED BY <1>4, <1>5

LEMMA OfConnChooses ==
  ASSUME NEW k, NEW s \in Seq(Packet)
  PROVE  \E F : Chooses(k, s, F)
<1>1. PICK F : F = [i \in 0 .. Len(s) |-> Chosen(k, s, F, i)] /\ OfConn(k, s) = F[Len(s)]
  BY OfConnIsRecursive
<1>2. Len(s) \in Nat /\ \A i \in 1 .. Len(s) : s[i] \in Packet
  BY LenProperties, ElementOfSeq
<1>3. /\ F[0] = <<>>
      /\ \A i \in 1 .. Len(s) :
           F[i] = IF s[i].frame.conn = k THEN Append(F[i - 1], s[i]) ELSE F[i - 1]
  <2>1. \A i \in 0 .. Len(s) : F[i] = Chosen(k, s, F, i)
    BY <1>1
  <2>2. F[0] = <<>>
    BY <1>2, <2>1 DEF Chosen
  <2>3. ASSUME NEW i \in 1 .. Len(s)
        PROVE  F[i] = IF s[i].frame.conn = k THEN Append(F[i - 1], s[i]) ELSE F[i - 1]
    <3>1. i \in 0 .. Len(s) /\ i # 0
      BY <1>2
    <3> QED BY <2>1, <3>1 DEF Chosen
  <2> QED BY <2>2, <2>3
<1>4. \A i \in 0 .. Len(s) : F[i] \in Seq(Packet)
  <2> DEFINE B == {n \in Nat : n <= Len(s) => F[n] \in Seq(Packet)}
  <2>1. 0 \in B
    <3>1. F[0] \in Seq(Packet)
      BY <1>3
    <3> QED BY <3>1
  <2>2. ASSUME NEW n \in Nat, n \in B PROVE n + 1 \in B
    <3> SUFFICES ASSUME n + 1 <= Len(s) PROVE F[n + 1] \in Seq(Packet)
      OBVIOUS
    <3>1. F[n] \in Seq(Packet) /\ s[n + 1] \in Packet /\ n + 1 \in 1 .. Len(s)
          /\ (n + 1) - 1 = n
      BY <1>2, <2>2
    <3>2. F[n + 1] = F[n] \/ F[n + 1] = Append(F[n], s[n + 1])
      BY <1>3, <3>1
    <3> QED BY <3>1, <3>2, AppendProperties, ZenonT(60)
  <2> HIDE DEF B
  <2>3. \A n \in Nat : n \in B
    BY <2>1, <2>2, Induction
  <2> QED BY <1>2, <2>3 DEF B
<1> QED BY <1>1, <1>3, <1>4 DEF Chooses

LEMMA OfConnType ==
  ASSUME NEW k, NEW s \in Seq(Packet)
  PROVE  OfConn(k, s) \in Seq(Packet)
<1>1. PICK F : Chooses(k, s, F)
  BY OfConnChooses
<1>2. Len(s) \in 0 .. Len(s)
  BY LenProperties
<1> QED BY <1>1, <1>2 DEF Chooses

LEMMA OfConnEmpty ==
  ASSUME NEW k
  PROVE  OfConn(k, <<>>) = <<>>
<1>1. <<>> \in Seq(Packet) /\ Len(<<>>) = 0
  OBVIOUS
<1>2. PICK F : Chooses(k, <<>>, F)
  BY <1>1, OfConnChooses
<1> QED BY <1>1, <1>2 DEF Chooses

\* A packet at the end is at the end of those of its device.
LEMMA OfConnAppend ==
  ASSUME NEW k, NEW s \in Seq(Packet), NEW p \in Packet
  PROVE  OfConn(k, Append(s, p)) =
           IF p.frame.conn = k THEN Append(OfConn(k, s), p) ELSE OfConn(k, s)
<1>1. PICK t : t = Append(s, p)
  OBVIOUS
<1>2. /\ t \in Seq(Packet) /\ Len(t) = Len(s) + 1 /\ Len(s) \in Nat /\ t[Len(s) + 1] = p
      /\ \A i \in 1 .. Len(s) : t[i] = s[i]
  BY <1>1, AppendProperties, LenProperties
<1>3. PICK F : Chooses(k, s, F)
  BY OfConnChooses
<1>4. PICK G : Chooses(k, t, G)
  BY <1>2, OfConnChooses
<1> DEFINE B == {n \in Nat : n <= Len(s) => G[n] = F[n]}
<1>5. 0 \in B
  BY <1>3, <1>4 DEF Chooses
<1>6. ASSUME NEW n \in Nat, n \in B PROVE n + 1 \in B
  <2> SUFFICES ASSUME n + 1 <= Len(s) PROVE G[n + 1] = F[n + 1]
    OBVIOUS
  <2>1. G[n] = F[n] /\ n + 1 \in 1 .. Len(s) /\ n + 1 \in 1 .. Len(t) /\ (n + 1) - 1 = n
    BY <1>2, <1>6
  <2>2. /\ F[n + 1] = IF s[n + 1].frame.conn = k THEN Append(F[n], s[n + 1]) ELSE F[n]
        /\ G[n + 1] = IF t[n + 1].frame.conn = k THEN Append(G[n], t[n + 1]) ELSE G[n]
    BY <1>3, <1>4, <2>1 DEF Chooses
  <2> QED BY <1>2, <2>1, <2>2
<1> HIDE DEF B
<1>7. Len(s) \in B
  BY <1>2, <1>5, <1>6, Induction
<1>8. G[Len(s)] = F[Len(s)]
  BY <1>2, <1>7 DEF B
<1>9. Len(t) \in 1 .. Len(t) /\ Len(t) - 1 = Len(s)
  BY <1>2
<1>10. G[Len(t)] = IF t[Len(t)].frame.conn = k THEN Append(G[Len(s)], t[Len(t)]) ELSE G[Len(s)]
  BY <1>4, <1>9 DEF Chooses
<1> QED BY <1>1, <1>2, <1>3, <1>4, <1>8, <1>10 DEF Chooses

LEMMA ConcatAppend ==
  ASSUME NEW a \in Seq(Packet), NEW b \in Seq(Packet), NEW p \in Packet
  PROVE  Append(a \o b, p) = a \o Append(b, p)
<1>1. a \o b \in Seq(Packet) /\ <<p>> \in Seq(Packet)
  BY ConcatProperties
<1>2. Append(a \o b, p) = (a \o b) \o <<p>> /\ Append(b, p) = b \o <<p>>
  BY <1>1, AppendIsConcat
<1>3. (a \o b) \o <<p>> = a \o (b \o <<p>>)
  BY <1>1, ConcatAssociative
<1> QED BY <1>2, <1>3

\* A packet at the front is at the front of those of its device.
First(k, p) == IF p.frame.conn = k THEN <<p>> ELSE <<>>

LEMMA OfConnFirst ==
  ASSUME NEW k, NEW s \in Seq(Packet), NEW p \in Packet
  PROVE  OfConn(k, <<p>> \o s) = First(k, p) \o OfConn(k, s)
<1>1. PICK t : t = <<p>> \o s
  OBVIOUS
<1>2. /\ t \in Seq(Packet) /\ Len(t) = Len(s) + 1 /\ Len(s) \in Nat /\ t[1] = p
      /\ \A i \in 1 .. Len(s) : t[i + 1] = s[i]
  BY <1>1, LenProperties
<1>3. PICK F : Chooses(k, s, F)
  BY OfConnChooses
<1>4. PICK G : Chooses(k, t, G)
  BY <1>2, OfConnChooses
<1>5. PICK h : h = First(k, p)
  OBVIOUS
<1>6. h \in Seq(Packet)
  BY <1>5 DEF First
<1> DEFINE B == {n \in Nat : n <= Len(s) => G[n + 1] = h \o F[n]}
<1>7. 0 \in B
  <2>1. G[1] = IF p.frame.conn = k THEN Append(<<>>, p) ELSE <<>>
    <3>1. 1 \in 1 .. Len(t) /\ 1 - 1 = 0
      BY <1>2
    <3> QED BY <1>2, <1>4, <3>1 DEF Chooses
  <2>2. G[1] = h
    BY <1>5, <2>1 DEF First
  <2>3. F[0] = <<>>
    BY <1>3 DEF Chooses
  <2>4. h \o <<>> = h
    BY <1>6, ConcatEmptySeq
  <2>5. G[0 + 1] = h \o F[0]
    BY <2>2, <2>3, <2>4
  <2> QED BY <2>5
<1>8. ASSUME NEW n \in Nat, n \in B PROVE n + 1 \in B
  <2> SUFFICES ASSUME n + 1 <= Len(s) PROVE G[n + 2] = h \o F[n + 1]
    OBVIOUS
  <2>1. /\ G[n + 1] = h \o F[n] /\ n + 1 \in 1 .. Len(s) /\ (n + 1) - 1 = n
        /\ n + 2 \in 1 .. Len(t) /\ (n + 2) - 1 = n + 1 /\ n \in 0 .. Len(s)
    BY <1>2, <1>8
  <2>2. t[n + 2] = s[n + 1] /\ s[n + 1] \in Packet
    BY <1>2, <2>1, ElementOfSeq
  <2>3. /\ F[n + 1] = IF s[n + 1].frame.conn = k THEN Append(F[n], s[n + 1]) ELSE F[n]
        /\ G[n + 2] = IF t[n + 2].frame.conn = k THEN Append(G[n + 1], t[n + 2]) ELSE G[n + 1]
        /\ F[n] \in Seq(Packet)
    BY <1>3, <1>4, <2>1 DEF Chooses
  <2>4. PICK f, q : f = F[n] /\ q = s[n + 1]
    OBVIOUS
  <2>5. Append(h \o f, q) = h \o Append(f, q)
    BY <1>6, <2>2, <2>3, <2>4, ConcatAppend
  <2> QED BY <2>1, <2>2, <2>3, <2>4, <2>5
<1> HIDE DEF B
<1>9. Len(s) \in B
  BY <1>2, <1>7, <1>8, Induction
<1>10. G[Len(s) + 1] = h \o F[Len(s)]
  BY <1>2, <1>9 DEF B
<1> QED BY <1>1, <1>2, <1>3, <1>4, <1>5, <1>10 DEF Chooses

-----------------------------------------------------------------------------
(* Every step is a step of the abstract paths, or none.                    *)

queue == [k \in Conn |-> Waiting(k)]
out == [k \in Conn |-> OfConn(k, forwarded)]

\* A goroutine has packets of its own device only.
ReadersOwn == \A k \in Conn : reader[k] # None => reader[k].frame.conn = k

Held(k) == IF reader[k] = None THEN <<>> ELSE <<reader[k]>>

LEMMA ReadersOwnStep ==
  ASSUME TypeOK, ReadersOwn, [Next]_vars
  PROVE  ReadersOwn'
<1>0. reader \in [Conn -> Packet \cup {None}]
  BY DEF TypeOK
<1>1. ASSUME NEW f \in Frame, Capture(f) PROVE ReadersOwn'
  <2>1. f.conn \in Conn
    BY FrameAssumption
  <2> QED BY <1>0, <1>1, <2>1 DEF Capture, ReadersOwn
<1>2. ASSUME NEW k \in Conn, Enqueue(k) PROVE ReadersOwn'
  BY <1>0, <1>2 DEF Enqueue, ReadersOwn
<1>3. CASE UpstreamPanic \/ Terminate
  BY <1>3 DEF UpstreamPanic, Terminate, ProcessEnds, ReadersOwn
<1>4. CASE UNCHANGED reader
  BY <1>4 DEF ReadersOwn
<1> QED BY <1>1, <1>2, <1>3, <1>4
  DEF Next, vars, ListenTake, ListenBad, Publish, ListenWriteError, ListenWrite, ListenRecord,
      UpstreamRead, UpstreamMiss, UpstreamLookup, UpstreamWrite, UpstreamWriteError, listenVars

LEMMA WaitingTypes ==
  ASSUME TypeOK
  PROVE  /\ Sent \in Seq(Packet) /\ c \in Seq(Packet) /\ forwarded \in Seq(Packet)
         /\ listen.pc = "parse" => listen.pkt \in Packet
         /\ \A k \in Conn : /\ Held(k) \in Seq(Packet) /\ OfConn(k, Sent) \in Seq(Packet)
                            /\ Waiting(k) = OfConn(k, Sent) \o Held(k)
                            /\ Waiting(k) \in Seq(Packet)
<1>1. c \in Seq(Packet) /\ forwarded \in Seq(Packet)
      /\ (listen.pc = "parse" => listen.pkt \in Packet)
  BY DEF TypeOK
<1>2. Sent \in Seq(Packet)
  BY <1>1 DEF Sent
<1>3. \A k \in Conn : Held(k) \in Seq(Packet)
  BY DEF TypeOK, Held
<1>4. \A k \in Conn : OfConn(k, Sent) \in Seq(Packet)
  BY <1>2, OfConnType
<1>5. \A k \in Conn : Waiting(k) = OfConn(k, Sent) \o Held(k)
  BY DEF Waiting, Held
<1> QED BY <1>1, <1>2, <1>3, <1>4, <1>5, ConcatProperties

\* What every listen device has waiting is as before, and so are the packets
\* that were forwarded.
LEMMA PathsStutter ==
  ASSUME UNCHANGED forwarded, \A k \in Conn : Waiting(k)' = Waiting(k)
  PROVE  UNCHANGED <<queue, out>>
BY DEF queue, out

LEMMA CaptureSends ==
  ASSUME TypeOK, TypeOK', NEW f \in Frame, Capture(f)
  PROVE  Paths!Send(f.conn) /\ f.conn \in Conn
<1> DEFINE k == f.conn
           p == [n |-> captures + 1, frame |-> f]
<1>1. /\ reader[k] = None /\ reader' = [reader EXCEPT ![k] = p]
      /\ UNCHANGED <<c, listen, forwarded>>
  BY DEF Capture
<1>2. k \in Conn /\ p \in Packet /\ p # None /\ reader \in [Conn -> Packet \cup {None}]
  BY FrameAssumption, NoneAssumption DEF TypeOK, Packet
<1>3. Sent' = Sent
  BY <1>1 DEF Sent
<1>4. reader'[k] = p /\ \A j \in Conn : j # k => reader'[j] = reader[j]
  BY <1>1, <1>2
<1> HIDE DEF p
<1>5. \A j \in Conn : j # k => Waiting(j)' = Waiting(j)
  BY <1>3, <1>4 DEF Waiting
<1>6. PICK w : w = OfConn(k, Sent)
  OBVIOUS
<1>7. w \in Seq(Packet)
  BY <1>2, <1>6, WaitingTypes
<1>8. Waiting(k) = w /\ Waiting(k)' = w \o <<p>>
  <2>1. Waiting(k) = w \o <<>> /\ Waiting(k)' = w \o <<p>>
    BY <1>1, <1>2, <1>3, <1>4, <1>6 DEF Waiting
  <2> QED BY <1>7, <2>1, ConcatEmptySeq
<1>9. w \o <<p>> = Append(w, p) /\ Append(w, p) # <<>>
      /\ Append(w, p)[Len(Append(w, p))] = p
  BY <1>2, <1>7, AppendIsConcat, AppendProperties
<1>10. queue'[k] = Append(w, p) /\ queue[k] = w
  BY <1>2, <1>8, <1>9 DEF queue
<1>11. queue' = [queue EXCEPT ![k] = Append(queue[k], queue'[k][Len(queue'[k])])]
  <2>1. queue'[k][Len(queue'[k])] = p
    BY <1>9, <1>10
  <2>2. \A j \in Conn : queue'[j] = [queue EXCEPT ![k] = Append(w, p)][j]
    BY <1>2, <1>5, <1>10 DEF queue
  <2>3. queue' = [queue EXCEPT ![k] = Append(w, p)]
    BY <1>2, <2>2 DEF queue
  <2> QED BY <1>10, <2>1, <2>3
<1>12. out' = out
  BY <1>1 DEF out
<1> QED BY <1>2, <1>9, <1>10, <1>11, <1>12 DEF Paths!Send, queue, out

\* From the goroutine of a device to c: the packet stays the last of its device.
LEMMA EnqueueStutters ==
  ASSUME TypeOK, ReadersOwn, NEW k \in Conn, Enqueue(k)
  PROVE  UNCHANGED <<queue, out>>
<1>1. /\ reader[k] # None /\ reader' = [reader EXCEPT ![k] = None]
      /\ c' = Append(c, reader[k]) /\ UNCHANGED <<listen, forwarded>>
  BY DEF Enqueue
<1>2. PICK p : p = reader[k]
  OBVIOUS
<1>3. /\ p \in Packet /\ p.frame.conn = k /\ reader'[k] = None
      /\ \A j \in Conn : j # k => reader'[j] = reader[j]
  BY <1>1, <1>2 DEF TypeOK, ReadersOwn
<1>4. Sent' = Append(Sent, p)
  <2>1. CASE listen.pc = "parse"
    <3>1. <<listen.pkt>> \in Seq(Packet) /\ c \in Seq(Packet)
      BY <2>1, WaitingTypes
    <3> QED BY <1>1, <1>2, <1>3, <2>1, <3>1, ConcatAppend DEF Sent
  <2>2. CASE listen.pc # "parse"
    BY <1>1, <1>2, <2>2 DEF Sent
  <2> QED BY <2>1, <2>2
<1>5. ASSUME NEW j \in Conn PROVE Waiting(j)' = Waiting(j)
  <2>0. PICK s, t : s = Sent /\ t = Sent'
    OBVIOUS
  <2>1. s \in Seq(Packet) /\ OfConn(j, s) \in Seq(Packet) /\ t = Append(s, p)
    BY <1>4, <2>0, WaitingTypes
  <2>2. OfConn(j, t) = IF k = j THEN Append(OfConn(j, s), p) ELSE OfConn(j, s)
    BY <1>3, <2>1, OfConnAppend
  <2>3. CASE j = k
    <3>1. Waiting(j)' = OfConn(j, t) \o <<>> /\ Waiting(j) = OfConn(j, s) \o <<p>>
      BY <1>1, <1>2, <1>3, <2>0, <2>3 DEF Waiting
    <3>2. Append(OfConn(j, s), p) = OfConn(j, s) \o <<p>>
      BY <1>3, <2>1, AppendIsConcat
    <3>3. OfConn(j, t) = OfConn(j, s) \o <<p>> /\ OfConn(j, t) \in Seq(Packet)
      BY <1>3, <2>1, <2>2, <2>3, <3>2, AppendProperties
    <3> QED BY <3>1, <3>3, ConcatEmptySeq
  <2>4. CASE j # k
    BY <1>3, <2>0, <2>2, <2>4 DEF Waiting
  <2> QED BY <2>3, <2>4
<1> QED BY <1>1, <1>5, PathsStutter

\* handleListen takes the oldest packet of c.
LEMMA TakeStutters ==
  ASSUME TypeOK, ListenTake
  PROVE  UNCHANGED <<queue, out>>
<1>1. /\ listen.pc = "idle" /\ c # <<>> /\ listen' = [pc |-> "parse", pkt |-> Head(c)]
      /\ c' = Tail(c) /\ UNCHANGED <<reader, forwarded>> /\ c \in Seq(Packet)
  BY DEF ListenTake, TypeOK
<1>2. Sent = c /\ Sent' = <<Head(c)>> \o Tail(c)
  BY <1>1 DEF Sent
<1>3. <<Head(c)>> \o Tail(c) = c
  BY <1>1, HeadTailProperties
<1> QED BY <1>1, <1>2, <1>3, PathsStutter DEF Waiting

\* The packet that handleListen has is the oldest of its device; the packets
\* of other devices stay when it is done with it.
LEMMA Handles ==
  ASSUME TypeOK, listen.pc = "parse", listen'.pc # "parse", UNCHANGED <<reader, c>>
  PROVE  LET k == listen.pkt.frame.conn
         IN /\ k \in Conn /\ queue[k] # <<>> /\ Head(queue[k]) = listen.pkt
            /\ queue' = [queue EXCEPT ![k] = Tail(queue[k])]
<1>1. PICK p, k : p = listen.pkt /\ k = p.frame.conn
  OBVIOUS
<1>2. p \in Packet /\ k \in Conn /\ c \in Seq(Packet) /\ k = p.frame.conn
  BY <1>1, WaitingTypes, FrameTypes
<1>3. Sent = <<p>> \o c /\ Sent' = c
  BY <1>1 DEF Sent
<1>4. ASSUME NEW j \in Conn
      PROVE  /\ OfConn(j, c) \o Held(j) \in Seq(Packet)
             /\ Waiting(j) = First(j, p) \o (OfConn(j, c) \o Held(j))
             /\ Waiting(j)' = OfConn(j, c) \o Held(j)
  <2>1. OfConn(j, Sent) = First(j, p) \o OfConn(j, c)
    BY <1>2, <1>3, OfConnFirst
  <2>2. First(j, p) \in Seq(Packet) /\ OfConn(j, c) \in Seq(Packet)
        /\ Held(j) \in Seq(Packet)
    BY <1>2, OfConnType, WaitingTypes DEF First
  <2>3. (First(j, p) \o OfConn(j, c)) \o Held(j) = First(j, p) \o (OfConn(j, c) \o Held(j))
    BY <2>2, ConcatAssociative
  <2>4. OfConn(j, c) \o Held(j) \in Seq(Packet)
    BY <2>2, ConcatProperties
  <2>5. Waiting(j) = OfConn(j, Sent) \o Held(j) /\ Waiting(j)' = OfConn(j, c) \o Held(j)
    BY <1>3 DEF Waiting, Held
  <2> QED BY <2>1, <2>3, <2>4, <2>5
<1>5. PICK w : w = OfConn(k, c) \o Held(k)
  OBVIOUS
<1>6. w \in Seq(Packet) /\ Waiting(k) = <<p>> \o w /\ Waiting(k)' = w
  BY <1>2, <1>4, <1>5 DEF First
<1>7. <<p>> \o w # <<>> /\ Head(<<p>> \o w) = p /\ Tail(<<p>> \o w) = w
  BY <1>2, <1>6
<1>8. ASSUME NEW j \in Conn, j # k PROVE Waiting(j)' = Waiting(j)
  <2>1. First(j, p) = <<>>
    BY <1>2, <1>8 DEF First
  <2> QED BY <1>4, <2>1, ConcatEmptySeq
<1>9. queue[k] = <<p>> \o w /\ queue'[k] = w
  BY <1>2, <1>6 DEF queue
<1>10. queue' = [queue EXCEPT ![k] = w]
  BY <1>2, <1>6, <1>8 DEF queue
<1> QED BY <1>1, <1>2, <1>7, <1>9, <1>10

LEMMA DropsOldest ==
  ASSUME TypeOK, ListenBad \/ Publish \/ ListenWriteError
  PROVE  \E k \in Conn : Paths!Drop(k)
<1>1. listen.pc = "parse" /\ listen'.pc # "parse" /\ UNCHANGED <<reader, c, forwarded>>
  BY DEF ListenBad, Publish, ListenWriteError, ListenIdle
<1>2. PICK k \in Conn : queue[k] # <<>> /\ queue' = [queue EXCEPT ![k] = Tail(queue[k])]
  BY <1>1, Handles
<1>3. out' = out
  BY <1>1 DEF out
<1> QED BY <1>2, <1>3 DEF Paths!Drop, queue, out

LEMMA WriteDelivers ==
  ASSUME TypeOK, ListenWrite
  PROVE  \E k \in Conn : Paths!Deliver(k)
<1>1. /\ listen.pc = "parse" /\ listen'.pc # "parse" /\ UNCHANGED <<reader, c>>
      /\ forwarded' = Append(forwarded, listen.pkt)
  BY DEF ListenWrite, TypeOK
<1>2. PICK p, k : p = listen.pkt /\ k = p.frame.conn
  OBVIOUS
<1>3. /\ k \in Conn /\ queue[k] # <<>> /\ Head(queue[k]) = p
      /\ queue' = [queue EXCEPT ![k] = Tail(queue[k])]
  BY <1>1, <1>2, Handles
<1>4. p \in Packet /\ forwarded \in Seq(Packet)
  BY <1>1, <1>2, WaitingTypes
<1>5. \A j \in Conn : OfConn(j, forwarded') =
         IF j = k THEN Append(OfConn(j, forwarded), p) ELSE OfConn(j, forwarded)
  BY <1>1, <1>2, <1>4, OfConnAppend
<1>6. out' = [out EXCEPT ![k] = Append(out[k], p)]
  BY <1>3, <1>5 DEF out
<1> QED BY <1>3, <1>6 DEF Paths!Deliver, queue, out

LEMMA EndsReset ==
  ASSUME ProcessEnds
  PROVE  Paths!Reset
<1>1. reader' = [k \in Conn |-> None] /\ c' = <<>> /\ listen'.pc = "idle"
      /\ forwarded' = <<>>
  BY DEF ProcessEnds, ListenIdle
<1>2. Sent' = <<>>
  BY <1>1 DEF Sent
<1>3. \A k \in Conn : Waiting(k)' = <<>> /\ OfConn(k, forwarded') = <<>>
  <2>1. <<>> \o <<>> = <<>>
    OBVIOUS
  <2> QED BY <1>1, <1>2, <2>1, OfConnEmpty DEF Waiting
<1>4. queue' = [k \in Conn |-> <<>>] /\ out' = [k \in Conn |-> <<>>]
  BY <1>3 DEF queue, out
<1> QED BY <1>4 DEF Paths!Reset, queue, out

LEMMA StepOfPaths ==
  ASSUME TypeOK, TypeOK', ReadersOwn, [Next]_vars
  PROVE  Paths!Next \/ UNCHANGED <<queue, out>>
<1>1. CASE \E f \in Frame : Capture(f)
  BY <1>1, CaptureSends DEF Paths!Next
<1>2. CASE \E k \in Conn : Enqueue(k)
  BY <1>2, EnqueueStutters
<1>3. CASE ListenTake
  BY <1>3, TakeStutters
<1>4. CASE ListenBad \/ Publish \/ ListenWriteError
  BY <1>4, DropsOldest DEF Paths!Next
<1>5. CASE ListenWrite
  BY <1>5, WriteDelivers DEF Paths!Next
<1>6. CASE ListenRecord
  <2>1. listen.pc = "record" /\ listen'.pc = "idle" /\ UNCHANGED <<reader, c, forwarded>>
    BY <1>6 DEF ListenRecord, ListenIdle
  <2>2. Sent' = Sent
    BY <2>1 DEF Sent
  <2> QED BY <2>1, <2>2, PathsStutter DEF Waiting
<1>7. CASE UpstreamPanic \/ Terminate
  BY <1>7, EndsReset DEF Paths!Next, UpstreamPanic, Terminate
<1>8. CASE UNCHANGED <<reader, c, listen, forwarded>>
  BY <1>8, PathsStutter DEF Waiting, Sent
<1> QED BY <1>1, <1>2, <1>3, <1>4, <1>5, <1>6, <1>7, <1>8
  DEF Next, vars, UpstreamRead, UpstreamMiss, UpstreamLookup, UpstreamWrite, UpstreamWriteError,
      listenVars

-----------------------------------------------------------------------------
(* The theorems.                                                           *)

\* IInv holds in every state of ikago-client: it holds at the start, with
\* nothing captured, and each step of each goroutine, failure and restart
\* keeps it.
THEOREM Inductive == Spec => []IInv
<1>1. Init => IInv
  <2> SUFFICES ASSUME Init PROVE IInv
    OBVIOUS
  <2>1. TypeOK /\ UpstreamHolds
    BY BoundAssumption DEF Init, TypeOK, UpstreamHolds, ListenIdle, UpstreamIdle, NoNAT
  <2>2. \A i \in IP : Recorded(i) = {} /\ nat[i] = None
    <3>1. DOMAIN forwarded = {} /\ listen.pc = "idle" /\ nat = NoNAT
      BY DEF Init, ListenIdle
    <3>2. \A i \in IP : Recorded(i) = From(i) /\ nat[i] = None
      BY <3>1 DEF Recorded, Recording, NoNAT
    <3> QED BY <3>1, <3>2 DEF From
  <2>3. NatFollows
    BY <2>2 DEF NatFollows, Follows
  <2>4. RecordsLast /\ ReplyInHand /\ RepliesStayTogether
    BY DEF Init, RecordsLast, ReplyInHand, RepliesStayTogether, ListenIdle, UpstreamIdle
  <2> QED BY <2>1, <2>3, <2>4 DEF IInv
<1>2. IInv /\ [Next]_vars => IInv'
  BY TypeStep, NatStep, ReplyStep DEF IInv
<1> QED BY <1>1, <1>2, PTL DEF Spec

\* The goroutines' state has its type, and c is never longer than its
\* capacity (TypeOK), for every capacity and every number of devices.
THEOREM TypeCorrect == Spec => []TypeOK
<1>1. IInv => TypeOK
  BY DEF IInv
<1> QED BY <1>1, Inductive, PTL

\* Except between handleListen's write to the server and its record, the
\* entry of a source in nat is the hardware address it used last, on the
\* device where it first used it since (NatFollowsAddress), whatever sources,
\* devices and changes of address there are.
THEOREM NatFollowsSources == Spec => []NatFollowsAddress
<1>1. IInv => NatFollowsAddress
  BY DEF IInv, NatFollows, NatFollowsAddress, Recorded
<1> QED BY <1>1, Inductive, PTL

\* handleUpstream writes all fragments of a reply to one place, from where a
\* packet of the source came (RepliesStayTogether), even when handleListen
\* changes nat between two fragments.
THEOREM RepliesAreTogether == Spec => []RepliesStayTogether
<1>1. IInv => RepliesStayTogether
  BY DEF IInv
<1> QED BY <1>1, Inductive, PTL

\* The packets of every listen device are written to the server in the order
\* in which they were captured, each at most once (ForwardsInOrder): the
\* goroutines of the devices, c and handleListen together implement the
\* abstract paths, for every capacity of c.
THEOREM ForwardsAsPaths == Spec => ForwardsInOrder
<1>1. Init => Paths!Init /\ ReadersOwn
  <2> SUFFICES ASSUME Init PROVE Paths!Init /\ ReadersOwn
    OBVIOUS
  <2>1. reader = [k \in Conn |-> None] /\ Sent = <<>> /\ forwarded = <<>>
    BY DEF Init, ListenIdle, Sent
  <2>2. \A k \in Conn : Waiting(k) = <<>> /\ OfConn(k, forwarded) = <<>>
    <3>1. <<>> \o <<>> = <<>>
      OBVIOUS
    <3> QED BY <2>1, <3>1, OfConnEmpty DEF Waiting
  <2>3. ReadersOwn
    BY <2>1 DEF ReadersOwn
  <2> QED BY <2>2, <2>3 DEF Paths!Init
<1>2. TypeOK /\ ReadersOwn /\ [Next]_vars => ReadersOwn'
  BY ReadersOwnStep
<1>3. TypeOK /\ TypeOK' /\ ReadersOwn /\ [Next]_vars => [Paths!Next]_<<queue, out>>
  BY StepOfPaths
<1> QED BY <1>1, <1>2, <1>3, TypeCorrect, PTL DEF ForwardsInOrder, Paths!Spec, Spec, queue, out

=============================================================================
