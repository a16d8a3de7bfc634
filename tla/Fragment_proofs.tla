--------------------------- MODULE Fragment_proofs ---------------------------
(***************************************************************************)
(* Proofs about the two halves of internal/pcap/fragment.go: Fragment, for *)
(* every payload and every size limit that leaves room for 16 bytes, and   *)
(* Defragmenter, for every number of datagrams, of fragments and of        *)
(* duplicates; and that what the first creates is what the second assumes. *)
(***************************************************************************)
EXTENDS Fragment, Defragmenter, SequenceTheorems, WellFoundedInduction, TLAPS

-----------------------------------------------------------------------------
(* The inductive invariant.                                                *)

\* What is left to fragment starts at a multiple of 8 and is 8 bytes at least.
RestIsAligned ==
  transport = "other" =>
    /\ payload >= 8
    /\ i < payload => i % 8 = 0 /\ payload - i >= 8

\* Before the packet is serialized whole it fits, and nothing was created.
WholeFits ==
  pc = "whole" => fragments = <<>> /\ i = 0 /\ Header + payload <= fragment

\* The k-th segment has the k-th Id.
IdsCount ==
  transport = "TCP" =>
    \A k \in 1 .. Len(fragments) : fragments[k].id = (Id0 + (k - 1)) % IdWrap

IInv ==
  /\ TypeOK
  /\ RestIsAligned
  /\ WholeFits
  /\ IdsCount
  /\ Contiguous
  /\ Placeable
  /\ FitsSize
  /\ AtLeastEightBytes

-----------------------------------------------------------------------------

\* The variables that never change, as numbers.
LEMMA Sizes ==
  ASSUME TypeOK
  PROVE  /\ payload \in 0 .. IPv4MaxSize
         /\ i \in 0 .. payload
         /\ fragment \in Nat /\ Header \in Nat /\ fragment - Header >= 16
BY PayloadAssumption, HeaderAssumption, FragmentAssumption DEF TypeOK, Header

\* An iteration takes a piece that fits and is not empty.
LEMMA LongestFits ==
  ASSUME TypeOK, i < payload
  PROVE  /\ Longest \in 1 .. payload - i
         /\ Header + Longest <= fragment
BY Sizes DEF Longest

\* An iteration of the IPv4 loop takes 8 bytes at least, and what it leaves
\* is nothing, or 8 bytes at least from a multiple of 8 on.
LEMMA LengthFits ==
  ASSUME TypeOK, RestIsAligned, transport = "other", i < payload
  PROVE  /\ Length \in 8 .. payload - i
         /\ Header + Length <= fragment
         /\ Remain(Length) > 0 => Length % 8 = 0 /\ Remain(Length) >= 8
         /\ Remain(Length) = payload - (i + Length)
<1> DEFINE a == Align(Longest)
<1>1. /\ payload - i >= 8
      /\ payload \in Nat /\ i \in Nat
      /\ Longest \in 8 .. payload - i
      /\ Header \in Nat /\ fragment \in Nat /\ Header + Longest <= fragment
      /\ Remain(Longest) > 0 => Longest >= 16
  BY Sizes, LongestFits DEF RestIsAligned, Longest, Remain
<1>2. /\ a \in 8 .. payload - i
      /\ a <= Longest
      /\ Remain(a) > 0 => a % 8 = 0 /\ a >= 16
  BY <1>1 DEF Align, Remain
<1> HIDE DEF a
<1>3. Length = IF Remain(a) > 0 /\ Remain(a) < 8 THEN a - 8 ELSE a
  BY DEF Length, LeaveForLast, a
<1> QED BY <1>1, <1>2, <1>3 DEF Remain

\* Appending the piece from i on keeps the packets a prefix of the payload.
LEMMA AppendStep ==
  ASSUME IInv, NEW f \in Packet, f.start = i, f.length \in 1 .. payload - i,
         Header + f.length <= fragment,
         fragments' = Append(fragments, f), i' = i + f.length,
         UNCHANGED <<transport, link, payload, fragment>>,
         transport = "other" =>
           /\ f.offset * 8 = i
           /\ f.length >= 8
           /\ f.more => f.length % 8 = 0
           /\ f.more <=> i + f.length < payload
  PROVE  /\ i' \in 0 .. payload
         /\ fragments' \in Seq(Packet)
         /\ Contiguous'
         /\ Placeable'
         /\ FitsSize'
         /\ AtLeastEightBytes'
<1>0. /\ payload \in 0 .. IPv4MaxSize /\ i \in 0 .. payload
      /\ fragments \in Seq(Packet)
      /\ Len(fragments) \in Nat
  BY Sizes DEF IInv, TypeOK
<1> PICK n \in Nat : n = Len(fragments)
  BY <1>0
<1>1. /\ fragments' \in Seq(Packet)
      /\ fragments' # <<>>
      /\ Len(fragments') = n + 1
      /\ \A k \in 1 .. n : fragments'[k] = fragments[k]
      /\ fragments'[n + 1] = f
  BY <1>0
<1>2. i' \in 0 .. payload
  BY <1>0 DEF Packet
<1>3. \A k \in 1 .. n : End(k)' = End(k)
  BY <1>1 DEF End
<1>4. End(n + 1)' = i'
  BY <1>0, <1>1 DEF End
<1>5. Contiguous'
  <2>1. fragments # <<>> => n > 0
    BY <1>0
  <2>2. ASSUME NEW k \in 1 .. n
        PROVE  fragments'[k].start = IF k = 1 THEN 0 ELSE End(k - 1)'
    BY <1>0, <1>1, <1>3 DEF IInv, Contiguous
  <2>3. fragments'[n + 1].start = IF n + 1 = 1 THEN 0 ELSE End(n)'
    BY <1>0, <1>1, <1>3, <2>1 DEF IInv, Contiguous
  <2>4. ASSUME NEW k \in 1 .. n + 1
        PROVE  fragments'[k].start = IF k = 1 THEN 0 ELSE End(k - 1)'
    <3>1. CASE k \in 1 .. n
      BY <2>2, <3>1
    <3>2. CASE k = n + 1
      BY <2>3, <3>2
    <3> QED BY <3>1, <3>2
  <2>5. fragments' # <<>> => End(Len(fragments))' = i'
    BY <1>1, <1>4 DEF End
  <2> QED BY <1>1, <2>4, <2>5 DEF Contiguous
<1>6. Placeable'
  <2> SUFFICES ASSUME transport = "other", NEW k \in 1 .. n + 1
               PROVE  /\ fragments'[k].offset * 8 = fragments'[k].start
                      /\ fragments'[k].more => fragments'[k].length % 8 = 0
                      /\ fragments'[k].more <=> End(k)' < payload
    BY <1>1 DEF Placeable
  <2>1. CASE k \in 1 .. n
    BY <1>1, <1>3, <2>1 DEF IInv, Placeable
  <2>2. CASE k = n + 1
    BY <1>1, <1>4, <2>2
  <2> QED BY <2>1, <2>2
<1>7. FitsSize'
  BY <1>0, <1>1 DEF IInv, FitsSize, Header
<1>8. AtLeastEightBytes'
  BY <1>0, <1>1 DEF IInv, AtLeastEightBytes
<1> QED BY <1>1, <1>2, <1>5, <1>6, <1>7, <1>8

\* The strengthened invariant holds throughout a call.
THEOREM Inductive == CreateFragmentPackets => []IInv
<1>1. Called => IInv
  <2> SUFFICES ASSUME Called PROVE IInv
    OBVIOUS
  <2>1. TypeOK
    BY PayloadAssumption DEF Called, TypeOK
  <2>2. RestIsAligned /\ IdsCount
    BY <2>1, Sizes DEF Called, RestIsAligned, IdsCount
  <2>3. WholeFits
    BY <2>1, Sizes DEF Called, WholeFits, Oversize
  <2>4. Contiguous /\ Placeable /\ FitsSize /\ AtLeastEightBytes
    BY DEF Called, Contiguous, Placeable, FitsSize, AtLeastEightBytes
  <2> QED BY <2>1, <2>2, <2>3, <2>4 DEF IInv
<1>2. IInv /\ [Iterate]_callVars => IInv'
  <2> SUFFICES ASSUME IInv, [Iterate]_callVars PROVE IInv'
    OBVIOUS
  <2>0. /\ payload \in 0 .. IPv4MaxSize /\ i \in 0 .. payload
        /\ IPv4MaxSize \in Nat
        /\ fragments \in Seq(Packet) /\ Len(fragments) \in Nat
        /\ Header \in Nat /\ fragment \in Nat
    BY Sizes, PayloadAssumption DEF IInv, TypeOK
  <2>1. CASE CreateWhole
    <3> DEFINE f == [start |-> 0, length |-> payload, more |-> FALSE,
                     offset |-> 0, seq |-> Seq0, id |-> Id0]
    <3>1. f \in Packet
      BY <2>0, WrapAssumption DEF Packet
    <3>2. /\ fragments' = <<f>> /\ i' = payload /\ i = 0 /\ pc' = "done"
          /\ Header + payload <= fragment
          /\ UNCHANGED <<transport, link, payload, fragment>>
      BY <2>1 DEF CreateWhole, IInv, WholeFits
    <3>3. TypeOK' /\ RestIsAligned' /\ WholeFits'
      BY <2>0, <3>1, <3>2 DEF IInv, TypeOK, RestIsAligned, WholeFits
    <3>4. Len(fragments') = 1 /\ fragments'[1] = f /\ fragments' # <<>>
      BY <3>2
    <3>5. IdsCount' /\ FitsSize'
      BY <2>0, <3>2, <3>4, WrapAssumption DEF IdsCount, FitsSize, Header
    <3>6. Contiguous' /\ Placeable'
      BY <2>0, <3>2, <3>4 DEF Contiguous, Placeable, End
    <3>7. transport = "other" => payload >= 8
      BY <2>0, <2>1, <3>2 DEF CreateWhole, IInv, RestIsAligned
    <3>8. AtLeastEightBytes'
      BY <2>0, <3>2, <3>4, <3>7 DEF AtLeastEightBytes
    <3> QED BY <3>3, <3>5, <3>6, <3>8 DEF IInv
  <2>2. CASE CreateIPv4Fragment
    <3> DEFINE f == [start |-> i, length |-> Length, more |-> Remain(Length) > 0,
                     offset |-> i \div 8, seq |-> Seq0, id |-> Id0]
    <3>1. /\ fragments' = Append(fragments, f) /\ i' = i + Length
          /\ transport = "other" /\ i < payload /\ pc = "loop"
          /\ UNCHANGED <<transport, link, payload, fragment, pc>>
      BY <2>2 DEF CreateIPv4Fragment
    <3>2. /\ Length \in 8 .. payload - i
          /\ Header + Length <= fragment
          /\ Remain(Length) > 0 => Length % 8 = 0 /\ Remain(Length) >= 8
          /\ Remain(Length) = payload - (i + Length)
      BY <3>1, LengthFits DEF IInv
    <3>3. i % 8 = 0
      BY <3>1 DEF IInv, RestIsAligned
    <3>4. f \in Packet
      BY <2>0, <3>2, WrapAssumption DEF Packet
    <3>5. (i \div 8) * 8 = i
      BY <2>0, <3>3
    <3>6. (Remain(Length) > 0) <=> (i + Length < payload)
      BY <2>0, <3>2
    <3>7. /\ i' \in 0 .. payload /\ fragments' \in Seq(Packet)
          /\ Contiguous' /\ Placeable' /\ FitsSize' /\ AtLeastEightBytes'
      <4>1. /\ f.start = i /\ f.length = Length /\ f.offset * 8 = i
            /\ f.more = (Remain(Length) > 0)
        BY <3>5
      <4>2. /\ f.length \in 1 .. payload - i /\ f.length >= 8
            /\ f.more => f.length % 8 = 0
            /\ f.more <=> i + f.length < payload
        <5>1. f.length \in 1 .. payload - i /\ f.length >= 8
          BY <2>0, <3>2, <4>1
        <5>2. (f.more <=> Remain(Length) > 0) /\ (f.more <=> i + f.length < payload)
          BY <3>6, <4>1, Zenon
        <5>3. f.more => f.length % 8 = 0
          BY <3>2, <4>1, <5>2, Zenon
        <5> HIDE DEF f
        <5> QED BY <5>1, <5>2, <5>3
      <4> HIDE DEF f
      <4> QED BY <3>1, <3>2, <3>4, <4>1, <4>2, AppendStep
    <3>8. RestIsAligned'
      <4> PICK m \in Int : m = Length
        BY <2>0, <3>2
      <4>1. ASSUME i + m < payload
            PROVE  (i + m) % 8 = 0 /\ payload - (i + m) >= 8
        BY <2>0, <3>2, <3>3, <4>1
      <4>2. payload >= 8
        BY <3>1 DEF IInv, RestIsAligned
      <4> QED BY <3>1, <4>1, <4>2 DEF RestIsAligned
    <3>9. TypeOK' /\ WholeFits' /\ IdsCount'
      BY <3>1, <3>7 DEF IInv, TypeOK, WholeFits, IdsCount
    <3> QED BY <3>7, <3>8, <3>9 DEF IInv
  <2>3. CASE CreateTCPSegment
    <3> DEFINE s == IF link THEN Seq0 ELSE (Seq0 + i) % SeqWrap
               d == (Id0 + Len(fragments)) % IdWrap
               f == [start |-> i, length |-> Longest, more |-> FALSE,
                     offset |-> 0, seq |-> s, id |-> d]
    <3>1. /\ fragments' = Append(fragments, f) /\ i' = i + Longest
          /\ transport = "TCP" /\ i < payload /\ pc = "loop"
          /\ UNCHANGED <<transport, link, payload, fragment, pc>>
      BY <2>3 DEF CreateTCPSegment
    <3>2. Longest \in 1 .. payload - i /\ Header + Longest <= fragment
      BY <3>1, LongestFits DEF IInv
    <3>3. s \in 0 .. SeqWrap - 1 /\ d \in 0 .. IdWrap - 1
      BY <2>0, WrapAssumption
    <3> HIDE DEF s
    <3>4. f \in Packet
      BY <2>0, <3>2, <3>3 DEF Packet
    <3>5. /\ i' \in 0 .. payload /\ fragments' \in Seq(Packet)
          /\ Contiguous' /\ Placeable' /\ FitsSize' /\ AtLeastEightBytes'
      BY <2>0, <3>1, <3>2, <3>4, AppendStep
    <3>6. IdsCount'
      <4> PICK n \in Nat : n = Len(fragments)
        BY <2>0
      <4>1. /\ Len(fragments') = n + 1
            /\ \A k \in 1 .. n : fragments'[k] = fragments[k]
            /\ fragments'[n + 1].id = (Id0 + n) % IdWrap
        BY <2>0, <3>1, <3>4
      <4>2. ASSUME NEW k \in 1 .. n + 1
            PROVE  fragments'[k].id = (Id0 + (k - 1)) % IdWrap
        <5>1. CASE k \in 1 .. n
          BY <3>1, <4>1, <5>1 DEF IInv, IdsCount
        <5>2. CASE k = n + 1
          <6>1. k - 1 = n
            BY <5>2
          <6> QED BY <4>1, <5>2, <6>1
        <5> QED BY <5>1, <5>2
      <4> QED BY <4>1, <4>2 DEF IdsCount
    <3>7. TypeOK' /\ WholeFits' /\ RestIsAligned'
      BY <3>1, <3>5 DEF IInv, TypeOK, WholeFits, RestIsAligned
    <3> QED BY <3>5, <3>6, <3>7 DEF IInv
  <2>4. CASE Return \/ UNCHANGED callVars
    <3>1. UNCHANGED <<transport, link, payload, fragment, i, fragments>>
      BY <2>4 DEF Return, callVars
    <3>2. TypeOK' /\ WholeFits'
      BY <2>4, <3>1 DEF Return, callVars, IInv, TypeOK, WholeFits, Header
    <3>3. RestIsAligned' /\ IdsCount' /\ AtLeastEightBytes'
      BY <3>1 DEF IInv, RestIsAligned, IdsCount, AtLeastEightBytes
    <3>4. Contiguous' /\ Placeable' /\ FitsSize'
      BY <3>1 DEF IInv, Contiguous, Placeable, FitsSize, End, Header
    <3> QED BY <3>2, <3>3, <3>4 DEF IInv
  <2> QED BY <2>1, <2>2, <2>3, <2>4 DEF Iterate
<1> QED BY <1>1, <1>2, PTL DEF CreateFragmentPackets

\* Sizes and positions stay in range, for every payload and size limit.
THEOREM TypeCorrect == CreateFragmentPackets => []TypeOK
<1>1. IInv => TypeOK
  BY DEF IInv
<1> QED BY <1>1, Inductive, PTL

\* The packets of a call hold the payload once, from its beginning on.
THEOREM PayloadIsCovered == CreateFragmentPackets => []Contiguous
<1>1. IInv => Contiguous
  BY DEF IInv
<1> QED BY <1>1, Inductive, PTL

\* A receiver can place every IPv4 fragment.
THEOREM FragmentsArePlaceable == CreateFragmentPackets => []Placeable
<1>1. IInv => Placeable
  BY DEF IInv
<1> QED BY <1>1, Inductive, PTL

\* No packet exceeds the size limit.
THEOREM PacketsFit == CreateFragmentPackets => []FitsSize
<1>1. IInv => FitsSize
  BY DEF IInv
<1> QED BY <1>1, Inductive, PTL

\* The last fragment has 8 bytes at least, as the code's comment says.
THEOREM LastIsNotTiny == CreateFragmentPackets => []AtLeastEightBytes
<1>1. IInv => AtLeastEightBytes
  BY DEF IInv
<1> QED BY <1>1, Inductive, PTL

\* Numbers closer than a modulus with the same remainder are the same.
LEMMA SameRemainder ==
  ASSUME NEW w \in Nat \ {0}, NEW x \in Nat, NEW y \in Nat,
         x % w = y % w, x - y < w, y - x < w
  PROVE  x = y
<1>1. PICK a \in Nat : x = a * w + (x % w)
  BY x \div w \in Nat /\ x = (x \div w) * w + (x % w)
<1>2. PICK b \in Nat : y = b * w + (y % w)
  BY y \div w \in Nat /\ y = (y \div w) * w + (y % w)
<1>3. x - y = (a - b) * w
  BY <1>1, <1>2
<1>4. CASE a > b
  BY <1>3, <1>4
<1>5. CASE a < b
  BY <1>3, <1>5
<1>6. CASE a = b
  BY <1>3, <1>6
<1> QED BY <1>4, <1>5, <1>6

\* The segments of a packet have different Ids.
THEOREM SegmentIdsAreDistinct == CreateFragmentPackets => []SegmentIdsDiffer
<1>1. IInv => SegmentIdsDiffer
  <2> SUFFICES ASSUME IInv, transport = "TCP", Len(fragments) <= IdWrap,
                      NEW k \in 1 .. Len(fragments), NEW l \in 1 .. Len(fragments),
                      fragments[k].id = fragments[l].id
               PROVE  k = l
    BY DEF SegmentIdsDiffer
  <2>1. Len(fragments) \in Nat /\ Id0 \in Nat /\ IdWrap \in Nat \ {0}
    BY WrapAssumption DEF IInv, TypeOK
  <2> DEFINE x == Id0 + (k - 1)
             y == Id0 + (l - 1)
  <2>2. x % IdWrap = y % IdWrap
    BY DEF IInv, IdsCount
  <2>3. x \in Nat /\ y \in Nat /\ x - y < IdWrap /\ y - x < IdWrap
    BY <2>1
  <2> HIDE DEF x, y
  <2>4. x = y
    BY <2>1, <2>2, <2>3, SameRemainder
  <2> QED BY <2>1, <2>4 DEF x, y
<1> QED BY <1>1, Inductive, PTL

\* Every iteration of the two loops takes something off the payload and never
\* more than is left, which is why they end (Terminates, which TLC checks).
THEOREM IterationsTakeSome ==
  CreateFragmentPackets => [][pc = "loop" /\ pc' = "loop" => i < i' /\ i' <= payload]_callVars
<1>1. ASSUME IInv, [Iterate]_callVars
      PROVE  [pc = "loop" /\ pc' = "loop" => i < i' /\ i' <= payload]_callVars
  <2>1. payload \in Nat /\ i \in 0 .. payload
    BY <1>1, Sizes, PayloadAssumption DEF IInv
  <2>2. CASE CreateWhole
    BY <2>2 DEF CreateWhole
  <2>3. CASE CreateIPv4Fragment
    <3>1. PICK l : l = Length
      OBVIOUS
    <3>2. l \in 8 .. payload - i /\ i' = i + l
      BY <1>1, <2>3, <3>1, LengthFits DEF CreateIPv4Fragment, IInv
    <3> QED BY <2>1, <3>2
  <2>4. CASE CreateTCPSegment
    <3>1. PICK l : l = Longest
      OBVIOUS
    <3>2. l \in 1 .. payload - i /\ i' = i + l
      BY <1>1, <2>4, <3>1, LongestFits DEF CreateTCPSegment, IInv
    <3> QED BY <2>1, <3>2
  <2>5. CASE Return
    BY <2>5 DEF Return
  <2>6. CASE UNCHANGED callVars
    BY <2>6
  <2> QED BY <1>1, <2>2, <2>3, <2>4, <2>5, <2>6 DEF Iterate
<1> QED BY <1>1, Inductive, PTL DEF CreateFragmentPackets

-----------------------------------------------------------------------------
(* From Fragment to Defragmenter.                                          *)

\* A set of naturals that has 0 and with every number the next has them all.
LEMMA Induction ==
  ASSUME NEW B, 0 \in B, \A n \in Nat : n \in B => n + 1 \in B
  PROVE  \A n \in Nat : n \in B
<1>1. PICK R : R = OpToRel(<, Nat)
  OBVIOUS
<1>2. IsWellFoundedOn(R, Nat)
  BY <1>1, NatLessThanWellFounded, Zenon
<1>3. \A x, y \in Nat : y < x => <<y, x>> \in R
  BY <1>1, Zenon DEF OpToRel
<1>4. SUFFICES ASSUME Nat \ B # {} PROVE FALSE
  OBVIOUS
<1>5. \E x \in Nat \ B : \A y \in Nat \ B : <<y, x>> \notin R
  <2>1. (Nat \ B) \subseteq Nat
    OBVIOUS
  <2> QED BY <1>2, <1>4, <2>1, WFMin, Zenon
<1>6. PICK x \in Nat \ B : \A y \in Nat \ B : <<y, x>> \notin R
  BY <1>5
<1>7. x # 0
  OBVIOUS
<1>8. PICK y : y = x - 1
  OBVIOUS
<1>9. y \in Nat /\ y < x /\ y + 1 = x
  BY <1>7, <1>8
<1>10. <<y, x>> \in R
  BY <1>3, <1>9, Zenon
<1>11. y \in B
  BY <1>6, <1>9, <1>10, Zenon
<1> QED BY <1>9, <1>11

Offsets == [k \in 1 .. Len(fragments) |-> fragments[k].offset]

\* What Defragmenter assumes of a datagram (IsCut, MoreFragments and
\* PayloadLength), of the IPv4 fragments that a call returns.
CutAsAssumed ==
  pc = "done" /\ transport = "other" =>
    /\ IsCut(Offsets)
    /\ \A k \in 1 .. Len(fragments) : fragments[k].more <=> k < Len(fragments)
    /\ \A k \in 1 .. Len(fragments) - 1 :
         fragments[k].length = 8 * (Offsets[k + 1] - Offsets[k])

\* A call returns when the payload is used up.
UsedUp == pc = "done" => i = payload

\* UsedUp holds throughout a call.
LEMMA CallUsesUp == CreateFragmentPackets => []UsedUp
<1>1. Called => UsedUp
  BY DEF Called, UsedUp
<1>2. IInv /\ UsedUp /\ [Iterate]_callVars => UsedUp'
  <2> SUFFICES ASSUME IInv, UsedUp, [Iterate]_callVars PROVE UsedUp'
    OBVIOUS
  <2>1. CASE CreateWhole
    BY <2>1 DEF CreateWhole, UsedUp
  <2>2. CASE CreateIPv4Fragment
    BY <2>2 DEF CreateIPv4Fragment, UsedUp
  <2>3. CASE CreateTCPSegment
    BY <2>3 DEF CreateTCPSegment, UsedUp
  <2>4. CASE Return
    BY <2>4, Sizes DEF Return, UsedUp, IInv
  <2>5. CASE UNCHANGED callVars
    BY <2>5 DEF callVars, UsedUp
  <2> QED BY <2>1, <2>2, <2>3, <2>4, <2>5 DEF Iterate
<1> QED BY <1>1, <1>2, Inductive, PTL DEF CreateFragmentPackets

\* The sizes of a packet are numbers.
LEMMA PacketFields ==
  ASSUME NEW p \in Packet
  PROVE  p.start \in Nat /\ p.length \in Nat /\ p.offset \in Nat
BY PayloadAssumption DEF Packet

\* No fragment ends behind the payload: every one is before the last.
LEMMA EndsInside ==
  ASSUME IInv, NEW k \in 1 .. Len(fragments)
  PROVE  End(k) <= payload
<1>1. PICK n, e : n = Len(fragments) /\ e = [m \in 1 .. n |-> End(m)]
  OBVIOUS
<1>2. n \in Nat /\ fragments \in Seq(Packet) /\ payload \in Nat /\ i \in 0 .. payload
      /\ IPv4MaxSize \in Nat
  BY <1>1, Sizes, PayloadAssumption DEF IInv, TypeOK
<1>3. ASSUME NEW m \in 1 .. n PROVE e[m] \in Nat /\ e[m] = End(m)
  <2>1. fragments[m] \in Packet
    BY <1>1, <1>2
  <2>2. fragments[m].start \in Nat /\ fragments[m].length \in Nat
    BY <2>1, PacketFields
  <2>3. End(m) \in Nat
    BY <2>2 DEF End
  <2>4. e[m] = End(m)
    BY <1>1
  <2> QED BY <2>3, <2>4
<1>4. ASSUME NEW m \in 1 .. n - 1 PROVE e[m] <= e[m + 1]
  <2>1. m \in 1 .. n /\ m + 1 \in 1 .. n /\ m + 1 # 1 /\ (m + 1) - 1 = m
    BY <1>2
  <2>2. fragments[m + 1].start = End(m)
    BY <1>1, <2>1 DEF IInv, Contiguous
  <2>3. fragments[m + 1] \in Packet
    BY <1>1, <1>2, <2>1
  <2>4. fragments[m + 1].length \in Nat
    BY <2>3, PacketFields
  <2>5. End(m + 1) = End(m) + fragments[m + 1].length
    BY <2>2 DEF End
  <2> QED BY <1>3, <2>1, <2>4, <2>5
<1>5. n >= 1 /\ e[n] = i
  <2>1. n \in 1 .. n /\ fragments # << >>
    BY <1>1, <1>2
  <2> QED BY <1>1, <1>2, <1>3, <2>1 DEF IInv, Contiguous
<1> DEFINE B == {j \in Nat : j < n => e[n - j] <= i}
<1>6. 0 \in B
  BY <1>2, <1>5
<1>7. ASSUME NEW j \in Nat, j \in B PROVE j + 1 \in B
  <2> SUFFICES ASSUME j + 1 < n PROVE e[n - (j + 1)] <= i
    OBVIOUS
  <2>1. PICK m : m = n - (j + 1)
    OBVIOUS
  <2>2. m \in 1 .. n - 1 /\ m \in 1 .. n /\ m + 1 \in 1 .. n /\ m + 1 = n - j
    BY <1>2, <2>1
  <2>3. e[m] <= e[m + 1] /\ e[m] \in Nat /\ e[m + 1] \in Nat /\ e[m + 1] <= i
    BY <1>2, <1>3, <1>4, <1>7, <2>2
  <2> QED BY <1>2, <2>1, <2>3
<1> HIDE DEF B
<1>8. \A j \in Nat : j \in B
  BY <1>6, <1>7, Induction
<1>9. PICK j : j = n - k
  OBVIOUS
<1>10. j \in Nat /\ j < n /\ n - j = k
  BY <1>1, <1>2, <1>9
<1>11. e[k] <= i
  BY <1>8, <1>10 DEF B
<1> QED BY <1>1, <1>2, <1>3, <1>11

\* The fragments of a packet, whatever its size and the limit, are a datagram
\* as Defragmenter assumes it: the 16-bit length that fragIndicator sums up
\* does not overflow (65535 < 65536), the offsets increase from 0 on, and the
\* length of all but the last is the distance to the next offset.
THEOREM CreatedIsCut ==
  ASSUME IPv4MaxSize < 8 * LengthWrap
  PROVE  CreateFragmentPackets => []CutAsAssumed
<1>1. ASSUME IInv, UsedUp PROVE CutAsAssumed
  <2> SUFFICES ASSUME pc = "done", transport = "other"
               PROVE  /\ IsCut(Offsets)
                      /\ \A k \in 1 .. Len(fragments) : fragments[k].more <=> k < Len(fragments)
                      /\ \A k \in 1 .. Len(fragments) - 1 :
                           fragments[k].length = 8 * (Offsets[k + 1] - Offsets[k])
    BY DEF CutAsAssumed
  <2>1. PICK n, o : n = Len(fragments) /\ o = Offsets
    OBVIOUS
  <2>2. /\ payload \in 0 .. IPv4MaxSize /\ i = payload /\ payload >= 8
        /\ IPv4MaxSize \in Nat /\ LengthWrap \in Nat
        /\ fragments \in Seq(Packet) /\ n \in Nat
    BY <1>1, <2>1, Sizes, PayloadAssumption, BoundAssumption
       DEF IInv, TypeOK, UsedUp, RestIsAligned
  <2>3. n >= 1
    BY <1>1, <2>1, <2>2 DEF IInv, Contiguous
  <2>4. ASSUME NEW k \in 1 .. n
        PROVE  /\ fragments[k].start \in Nat /\ fragments[k].length \in Nat
               /\ fragments[k].offset \in Nat /\ fragments[k].length >= 8
               /\ o[k] = fragments[k].offset /\ o[k] * 8 = fragments[k].start
               /\ End(k) = fragments[k].start + fragments[k].length
               /\ fragments[k].more <=> End(k) < payload
    <3>1. fragments[k] \in Packet /\ o[k] = fragments[k].offset
      BY <2>1, <2>2 DEF Offsets
    <3>2. /\ fragments[k].start \in Nat /\ fragments[k].length \in Nat
          /\ fragments[k].offset \in Nat
      BY <3>1, PacketFields
    <3>3. fragments[k].length >= 8 /\ fragments[k].offset * 8 = fragments[k].start
      BY <1>1, <2>1 DEF IInv, AtLeastEightBytes, Placeable
    <3>4. fragments[k].more <=> End(k) < payload
      BY <1>1, <2>1, Zenon DEF IInv, Placeable
    <3>5. End(k) = fragments[k].start + fragments[k].length
      BY DEF End
    <3> QED BY <3>1, <3>2, <3>3, <3>4, <3>5
  <2>5. ASSUME NEW k \in 1 .. n - 1
        PROVE  /\ fragments[k + 1].start = End(k) /\ o[k + 1] * 8 = End(k)
               /\ o[k] < o[k + 1]
               /\ fragments[k].length = 8 * (o[k + 1] - o[k])
    <3>1. k \in 1 .. n /\ k + 1 \in 1 .. n /\ k + 1 # 1 /\ (k + 1) - 1 = k
      BY <2>2
    <3>2. fragments[k + 1].start = End(k)
      BY <1>1, <2>1, <3>1 DEF IInv, Contiguous
    <3>3. o[k] \in Nat /\ o[k + 1] \in Nat /\ o[k + 1] * 8 = End(k)
      BY <2>4, <3>1, <3>2
    <3> QED BY <2>4, <3>1, <3>2, <3>3
  <2>6. o[1] = 0
    <3>1. 1 \in 1 .. n /\ fragments[1].start = 0
      BY <1>1, <2>1, <2>2, <2>3 DEF IInv, Contiguous
    <3> QED BY <2>4, <3>1
  <2>7. End(n) = payload
    <3>1. fragments # << >>
      BY <2>1, <2>3
    <3> QED BY <1>1, <2>1, <2>2, <3>1 DEF IInv, Contiguous
  <2>8. ASSUME NEW k \in 1 .. n PROVE (fragments[k].more <=> k < n) /\ End(k) <= payload
    <3>1. CASE k = n
      <4>1. ~ (End(k) < payload) /\ ~ (k < n) /\ End(k) <= payload
        BY <2>2, <2>7, <3>1
      <4>2. fragments[k].more <=> End(k) < payload
        BY <2>4
      <4> QED BY <4>1, <4>2
    <3>2. CASE k # n
      <4>1. k \in 1 .. n - 1 /\ k + 1 \in 1 .. n /\ k < n
        BY <2>2, <3>2
      <4>2. fragments[k + 1].start = End(k) /\ fragments[k + 1].length >= 8
            /\ End(k + 1) = fragments[k + 1].start + fragments[k + 1].length
            /\ fragments[k + 1].length \in Nat /\ End(k) \in Nat
        BY <2>4, <2>5, <4>1
      <4>3. End(k + 1) <= payload
        BY <1>1, <2>1, <4>1, EndsInside
      <4>4. End(k) < payload
        BY <2>2, <4>2, <4>3
      <4>5. fragments[k].more <=> End(k) < payload
        BY <2>4
      <4> QED BY <2>2, <4>1, <4>2, <4>4, <4>5
    <3> QED BY <3>1, <3>2
  <2>9. ASSUME NEW k \in 1 .. n PROVE o[k] \in Nat /\ o[k] < LengthWrap
    <3>1. PICK a, b : a = fragments[k].start /\ b = fragments[k].length
      OBVIOUS
    <3>2. o[k] \in Nat /\ a \in Nat /\ b \in Nat /\ o[k] * 8 = a /\ End(k) = a + b
      BY <2>4, <3>1
    <3>3. a + b <= payload
      BY <2>8, <3>2
    <3>4. o[k] * 8 < 8 * LengthWrap
      BY <2>2, <3>2, <3>3
    <3> QED BY <2>2, <3>2, <3>4
  <2>10. Len(o) = n
    BY <2>1, <2>2 DEF Offsets
  <2>11. IsCut(o)
    BY <2>3, <2>5, <2>6, <2>9, <2>10 DEF IsCut
  <2> QED BY <2>1, <2>5, <2>8, <2>11
<1> QED BY <1>1, Inductive, CallUsesUp, PTL

-----------------------------------------------------------------------------
(* The fragments of one datagram.                                          *)

Piece == {f \in [d : Datagram, k : Nat] : f.k \in 1 .. Len(Cut[f.d])}

\* Fragments of the datagram d, by their offsets.
InOrder(d, s) ==
  /\ s \in Seq(Piece)
  /\ \A n \in 1 .. Len(s) : s[n].d = d
  /\ \A m, n \in 1 .. Len(s) : m < n => s[m].k <= s[n].k

Has(s, k) == \E n \in 1 .. Len(s) : s[n].k = k

\* The offsets of a datagram increase, also of fragments that are far apart.
LEMMA CutFacts ==
  ASSUME NEW d \in Datagram
  PROVE  /\ Len(Cut[d]) \in Nat /\ Len(Cut[d]) >= 1 /\ Cut[d][1] = 0
         /\ \A k \in 1 .. Len(Cut[d]) : Cut[d][k] \in Nat /\ Cut[d][k] < LengthWrap
         /\ \A k \in 1 .. Len(Cut[d]) - 1 : Cut[d][k] < Cut[d][k + 1]
         /\ \A j, k \in 1 .. Len(Cut[d]) : j < k => Cut[d][j] < Cut[d][k]
<1>1. PICK c : c = Cut[d]
  OBVIOUS
<1>2. c \in Seq(Nat) /\ IsCut(c)
  BY <1>1, DatagramAssumption
<1>3. /\ Len(c) \in Nat /\ Len(c) >= 1 /\ c[1] = 0
      /\ \A k \in 1 .. Len(c) : c[k] \in Nat /\ c[k] < LengthWrap
      /\ \A k \in 1 .. Len(c) - 1 : c[k] < c[k + 1]
  BY <1>2, LenProperties DEF IsCut
<1>4. ASSUME NEW j \in 1 .. Len(c) PROVE \A k \in 1 .. Len(c) : j < k => c[j] < c[k]
  <2> DEFINE B == {n \in Nat : j < n /\ n <= Len(c) => c[j] < c[n]}
  <2>1. 0 \in B
    BY <1>3
  <2>2. ASSUME NEW n \in Nat, n \in B PROVE n + 1 \in B
    <3> SUFFICES ASSUME j < n + 1, n + 1 <= Len(c) PROVE c[j] < c[n + 1]
      OBVIOUS
    <3>1. n \in 1 .. Len(c) - 1 /\ n \in 1 .. Len(c) /\ n + 1 \in 1 .. Len(c)
      BY <1>3
    <3>2. c[n] < c[n + 1] /\ c[n] \in Nat /\ c[n + 1] \in Nat /\ c[j] \in Nat
      BY <1>3, <3>1
    <3>3. c[j] <= c[n]
      BY <1>3, <2>2, <3>1, <3>2
    <3> QED BY <3>2, <3>3
  <2> HIDE DEF B
  <2>3. \A n \in Nat : n \in B
    BY <2>1, <2>2, Induction
  <2> QED BY <1>3, <2>3 DEF B
<1> QED BY <1>1, <1>3, <1>4

\* Where f is inserted.
IsPlace(s, f, p) ==
  /\ p \in 1 .. Len(s) + 1
  /\ \A m \in 1 .. p - 1 : s[m].k <= f.k
  /\ \A m \in p .. Len(s) : s[m].k > f.k

\* There is a place in a sorted sequence for every fragment.
LEMMA PlaceExists ==
  ASSUME NEW d, NEW s, NEW f \in Piece, InOrder(d, s)
  PROVE  \E p : IsPlace(s, f, p)
<1>1. /\ Len(s) \in Nat /\ f.k \in Nat /\ \A n \in 1 .. Len(s) : s[n].k \in Nat
      /\ \A m, n \in 1 .. Len(s) : m < n => s[m].k <= s[n].k
  BY LenProperties, ElementOfSeq DEF InOrder, Piece
<1> SUFFICES ASSUME \A p : ~ IsPlace(s, f, p) PROVE FALSE
  OBVIOUS
<1> DEFINE B == {n \in Nat : n <= Len(s) => \A m \in 1 .. n : s[m].k <= f.k}
<1>2. 0 \in B
  OBVIOUS
<1>3. ASSUME NEW n \in Nat, n \in B PROVE n + 1 \in B
  <2> SUFFICES ASSUME n + 1 <= Len(s) PROVE \A m \in 1 .. n + 1 : s[m].k <= f.k
    OBVIOUS
  <2>1. \A m \in 1 .. n : s[m].k <= f.k
    BY <1>1, <1>3
  <2>2. s[n + 1].k <= f.k
    <3> SUFFICES ASSUME ~ (s[n + 1].k <= f.k) PROVE FALSE
      OBVIOUS
    <3>1. s[n + 1].k > f.k /\ n + 1 \in 1 .. Len(s)
      BY <1>1
    <3>2. \A m \in n + 1 .. Len(s) : s[m].k > f.k
      <4> SUFFICES ASSUME NEW m \in n + 1 .. Len(s) PROVE s[m].k > f.k
        OBVIOUS
      <4>1. m \in 1 .. Len(s) /\ (m = n + 1 \/ n + 1 < m)
        BY <1>1
      <4>2. s[n + 1].k <= s[m].k /\ s[m].k \in Nat /\ s[n + 1].k \in Nat
        BY <1>1, <3>1, <4>1
      <4> QED BY <1>1, <3>1, <4>2
    <3>3. IsPlace(s, f, n + 1)
      BY <1>1, <2>1, <3>1, <3>2 DEF IsPlace
    <3> QED BY <3>3
  <2> QED BY <2>1, <2>2
<1> HIDE DEF B
<1>4. Len(s) \in B
  BY <1>1, <1>2, <1>3, Induction
<1>5. IsPlace(s, f, Len(s) + 1)
  BY <1>1, <1>4 DEF B, IsPlace
<1> QED BY <1>5

\* The fragments behind f move up by one.
LEMMA SortedInserts ==
  ASSUME NEW d \in Datagram, NEW s, NEW f \in Piece, f.d = d, InOrder(d, s)
  PROVE  \E p : /\ IsPlace(s, f, p)
                /\ Sorted(s, f) = [n \in 1 .. Len(s) + 1 |->
                     IF n < p THEN s[n] ELSE IF n = p THEN f ELSE s[n - 1]]
<1>1. PICK p : IsPlace(s, f, p)
  BY PlaceExists
<1>2. /\ Len(s) \in Nat /\ f.k \in 1 .. Len(Cut[d]) /\ p \in 1 .. Len(s) + 1
      /\ \A n \in 1 .. Len(s) : s[n].k \in 1 .. Len(Cut[d]) /\ s[n].d = d
  BY <1>1, LenProperties, ElementOfSeq DEF InOrder, Piece, IsPlace
<1>3. ASSUME NEW n \in 1 .. Len(s) PROVE FragOffset(s[n]) > FragOffset(f) <=> n >= p
  <2>1. PICK j, k : j = s[n].k /\ k = f.k
    OBVIOUS
  <2>2. j \in 1 .. Len(Cut[d]) /\ k \in 1 .. Len(Cut[d]) /\ Len(Cut[d]) \in Nat
    BY <1>2, <2>1, CutFacts
  <2>3. Cut[d][j] \in Nat /\ Cut[d][k] \in Nat /\ (j < k => Cut[d][j] < Cut[d][k])
        /\ (k < j => Cut[d][k] < Cut[d][j])
    BY <2>2, CutFacts
  <2>4. Cut[d][j] > Cut[d][k] <=> j > k
    BY <2>2, <2>3
  <2>5. FragOffset(s[n]) = Cut[d][j] /\ FragOffset(f) = Cut[d][k]
    BY <1>2, <2>1 DEF FragOffset
  <2>6. j > k <=> n >= p
    <3>1. CASE n >= p
      <4>1. n \in p .. Len(s)
        BY <1>2, <3>1
      <4> QED BY <1>1, <2>1, <3>1, <4>1 DEF IsPlace
    <3>2. CASE n < p
      <4>1. n \in 1 .. p - 1
        BY <1>2, <3>2
      <4>2. j <= k
        BY <1>1, <2>1, <4>1 DEF IsPlace
      <4> QED BY <1>2, <2>2, <3>2, <4>2
    <3> QED BY <1>2, <3>1, <3>2
  <2> QED BY <2>4, <2>5, <2>6
<1>4. ASSUME NEW n \in 1 .. Len(s) + 1
      PROVE  (IF n <= Len(s) /\ ~ (FragOffset(s[n]) > FragOffset(f)) THEN s[n]
              ELSE IF n > 1 /\ FragOffset(s[n - 1]) > FragOffset(f) THEN s[n - 1] ELSE f)
             = IF n < p THEN s[n] ELSE IF n = p THEN f ELSE s[n - 1]
  <2>1. n <= Len(s) => (FragOffset(s[n]) > FragOffset(f) <=> n >= p)
    BY <1>2, <1>3
  <2>2. n > 1 => (FragOffset(s[n - 1]) > FragOffset(f) <=> n - 1 >= p)
    <3> SUFFICES ASSUME n > 1 PROVE n - 1 \in 1 .. Len(s)
      BY <1>3
    <3> QED BY <1>2
  <2> HIDE DEF FragOffset
  <2> QED BY <1>2, <2>1, <2>2
<1>5. Sorted(s, f) = [n \in 1 .. Len(s) + 1 |->
        IF n < p THEN s[n] ELSE IF n = p THEN f ELSE s[n - 1]]
  BY <1>4 DEF Sorted
<1> QED BY <1>1, <1>5

\* Sorted keeps the order, adds f and nothing else, and hides no duplicate.
LEMMA SortedFacts ==
  ASSUME NEW d \in Datagram, NEW s, NEW f \in Piece, f.d = d, InOrder(d, s),
         NEW t, t = Sorted(s, f)
  PROVE  /\ InOrder(d, t) /\ t # <<>>
         /\ \A k : Has(t, k) <=> Has(s, k) \/ k = f.k
         /\ ~ Twice(t) => ~ Twice(s) /\ ~ Has(s, f.k)
<1>1. PICK p : /\ IsPlace(s, f, p)
               /\ t = [n \in 1 .. Len(s) + 1 |->
                         IF n < p THEN s[n] ELSE IF n = p THEN f ELSE s[n - 1]]
  BY SortedInserts
<1>2. /\ Len(s) \in Nat /\ f.k \in Nat /\ p \in 1 .. Len(s) + 1 /\ s \in Seq(Piece)
      /\ \A n \in 1 .. Len(s) : s[n] \in Piece /\ s[n].k \in Nat /\ s[n].d = d
      /\ \A m, n \in 1 .. Len(s) : m < n => s[m].k <= s[n].k
  BY <1>1, LenProperties, ElementOfSeq DEF InOrder, Piece, IsPlace
<1>3. /\ \A n \in 1 .. p - 1 : n \in 1 .. Len(s) /\ t[n] = s[n]
      /\ t[p] = f
      /\ \A n \in p .. Len(s) : t[n + 1] = s[n]
      /\ \A n \in p + 1 .. Len(s) + 1 :
           n - 1 \in p .. Len(s) /\ n - 1 \in 1 .. Len(s) /\ t[n] = s[n - 1]
  BY <1>1, <1>2
<1>4. t \in Seq(Piece) /\ Len(t) = Len(s) + 1
  <2>1. \A n \in 1 .. Len(s) + 1 : t[n] \in Piece
    BY <1>2, <1>3
  <2>2. t \in [1 .. Len(s) + 1 -> Piece]
    BY <1>1, <2>1
  <2> QED BY <1>2, <2>2
<1>5. \A n \in 1 .. Len(t) : n \in 1 .. p - 1 \/ n = p \/ n \in p + 1 .. Len(s) + 1
  BY <1>2, <1>4
<1>6. InOrder(d, t)
  <2>1. \A n \in 1 .. Len(t) : t[n].d = d
    BY <1>2, <1>3, <1>5
  <2>2. ASSUME NEW m \in 1 .. Len(t), NEW n \in 1 .. Len(t), m < n PROVE t[m].k <= t[n].k
    <3>0. \A j \in 1 .. p - 1 : s[j].k <= f.k
      BY <1>1 DEF IsPlace
    <3>00. \A j \in p .. Len(s) : s[j].k > f.k
      BY <1>1 DEF IsPlace
    <3>1. CASE m \in 1 .. p - 1 /\ n \in 1 .. p - 1
      BY <1>2, <1>3, <2>2, <3>1
    <3>2. CASE m \in 1 .. p - 1 /\ n = p
      BY <1>3, <3>0, <3>2
    <3>3. CASE m \in 1 .. p - 1 /\ n \in p + 1 .. Len(s) + 1
      <4>1. t[m] = s[m] /\ t[n] = s[n - 1] /\ m \in 1 .. Len(s)
            /\ n - 1 \in 1 .. Len(s) /\ m < n - 1
        BY <1>2, <1>3, <3>3
      <4> QED BY <1>2, <4>1
    <3>4. CASE m = p /\ n \in p + 1 .. Len(s) + 1
      <4>1. t[m] = f /\ t[n] = s[n - 1] /\ n - 1 \in p .. Len(s) /\ n - 1 \in 1 .. Len(s)
        BY <1>3, <3>4
      <4> QED BY <1>2, <3>00, <4>1
    <3>5. CASE m \in p + 1 .. Len(s) + 1
      <4>1. t[m] = s[m - 1] /\ m - 1 \in 1 .. Len(s) /\ n \in p + 1 .. Len(s) + 1
        BY <1>2, <1>3, <1>4, <2>2, <3>5
      <4>2. t[n] = s[n - 1] /\ n - 1 \in 1 .. Len(s) /\ m - 1 < n - 1
        BY <1>3, <2>2, <4>1
      <4> QED BY <1>2, <4>1, <4>2
    <3> QED BY <1>2, <1>4, <1>5, <2>2, <3>1, <3>2, <3>3, <3>4, <3>5
  <2> QED BY <1>4, <2>1, <2>2 DEF InOrder
<1>7. ASSUME NEW n \in 1 .. Len(s)
      PROVE  \E m \in 1 .. Len(t) : m # p /\ t[m] = s[n] /\ m = (IF n < p THEN n ELSE n + 1)
  BY <1>2, <1>3, <1>4
<1>8. ASSUME NEW k PROVE Has(t, k) <=> Has(s, k) \/ k = f.k
  <2>1. ASSUME Has(t, k) PROVE Has(s, k) \/ k = f.k
    <3>1. PICK n \in 1 .. Len(t) : t[n].k = k
      BY <2>1 DEF Has
    <3> QED BY <1>3, <1>5, <3>1 DEF Has
  <2>2. ASSUME Has(s, k) PROVE Has(t, k)
    BY <1>7, <2>2 DEF Has
  <2>3. Has(t, f.k)
    BY <1>2, <1>3, <1>4 DEF Has
  <2> QED BY <2>1, <2>2, <2>3
<1>9. ASSUME Has(s, f.k) PROVE Twice(t)
  <2>1. PICK n \in 1 .. Len(s) : s[n].k = f.k
    BY <1>9 DEF Has
  <2>2. s[n] = f
    <3>1. s[n] \in [d : Datagram, k : Nat] /\ f \in [d : Datagram, k : Nat]
      BY <1>2 DEF Piece
    <3>2. s[n].d = f.d /\ s[n].k = f.k
      BY <1>2, <2>1
    <3> QED BY <3>1, <3>2
  <2>3. PICK m \in 1 .. Len(t) : m # p /\ t[m] = s[n]
    BY <1>7
  <2>4. m \in DOMAIN t /\ p \in DOMAIN t
    BY <1>2, <1>4, LenProperties
  <2> QED BY <1>3, <2>2, <2>3, <2>4 DEF Twice
<1>10. ASSUME Twice(s) PROVE Twice(t)
  <2>1. PICK m, n \in 1 .. Len(s) : m # n /\ s[m] = s[n]
    BY <1>2, <1>10, LenProperties DEF Twice
  <2>2. PICK q \in 1 .. Len(t) : t[q] = s[m] /\ q = (IF m < p THEN m ELSE m + 1)
    BY <1>7
  <2>3. PICK j \in 1 .. Len(t) : t[j] = s[n] /\ j = (IF n < p THEN n ELSE n + 1)
    BY <1>7
  <2>4. q # j
    BY <1>2, <2>1, <2>2, <2>3
  <2>5. q \in DOMAIN t /\ j \in DOMAIN t
    BY <1>4, LenProperties
  <2> QED BY <2>1, <2>2, <2>3, <2>4, <2>5 DEF Twice
<1> QED BY <1>2, <1>4, <1>6, <1>8, <1>9, <1>10

-----------------------------------------------------------------------------
(* The sum of the lengths of the fragments that a sequence holds, the last *)
(* one left out: C[k] is the sum of those before the k-th.                  *)

IsPartial(d, s, C) ==
  /\ C \in [1 .. Len(Cut[d]) -> Nat] /\ C[1] = 0
  /\ \A k \in 1 .. Len(Cut[d]) - 1 :
       C[k + 1] = C[k] + IF Has(s, k) THEN Cut[d][k + 1] - Cut[d][k] ELSE 0

IsLength(d, s, length) == \E C : IsPartial(d, s, C) /\ C[Len(Cut[d])] = length

\* The sum reaches the offset of the last fragment exactly when no other
\* fragment is missing, and is not 0 when one of them is there.
LEMMA LengthBounds ==
  ASSUME NEW d \in Datagram, NEW s, NEW length, IsLength(d, s, length)
  PROVE  /\ length \in Nat /\ length <= Cut[d][Len(Cut[d])]
         /\ (\A k \in 1 .. Len(Cut[d]) - 1 : Has(s, k)) => length = Cut[d][Len(Cut[d])]
         /\ (\E k \in 1 .. Len(Cut[d]) - 1 : ~ Has(s, k)) => length < Cut[d][Len(Cut[d])]
         /\ (\E k \in 1 .. Len(Cut[d]) - 1 : Has(s, k)) => length > 0
<1>1. PICK c, L : c = Cut[d] /\ L = Len(Cut[d])
  OBVIOUS
<1>2. PICK C : IsPartial(d, s, C) /\ C[L] = length
  BY <1>1 DEF IsLength
<1>3. PICK H : H = {k \in 1 .. L - 1 : Has(s, k)}
  OBVIOUS
<1>4. /\ L \in Nat /\ L >= 1 /\ c[1] = 0
      /\ \A k \in 1 .. L : c[k] \in Nat
      /\ \A k \in 1 .. L - 1 : c[k] < c[k + 1]
  BY <1>1, CutFacts
<1>5. /\ \A k \in 1 .. L : C[k] \in Nat
      /\ C[1] = 0
      /\ \A k \in 1 .. L - 1 : C[k + 1] = C[k] + IF k \in H THEN c[k + 1] - c[k] ELSE 0
  BY <1>1, <1>2, <1>3 DEF IsPartial
<1> DEFINE B == {n \in Nat : n + 1 <= L =>
                  /\ C[n + 1] <= c[n + 1]
                  /\ (\A k \in 1 .. n : k \in H) => C[n + 1] = c[n + 1]
                  /\ (\E k \in 1 .. n : k \notin H) => C[n + 1] < c[n + 1]
                  /\ (\E k \in 1 .. n : k \in H) => C[n + 1] > 0}
<1>6. 0 \in B
  <2>1. C[0 + 1] = 0 /\ c[0 + 1] = 0 /\ 1 .. 0 = {}
    BY <1>4, <1>5
  <2> QED BY <2>1
<1>7. ASSUME NEW n \in Nat, n \in B PROVE n + 1 \in B
  <2> SUFFICES ASSUME n + 2 <= L
               PROVE  /\ C[n + 2] <= c[n + 2]
                      /\ (\A k \in 1 .. n + 1 : k \in H) => C[n + 2] = c[n + 2]
                      /\ (\E k \in 1 .. n + 1 : k \notin H) => C[n + 2] < c[n + 2]
                      /\ (\E k \in 1 .. n + 1 : k \in H) => C[n + 2] > 0
    <3>1. (n + 1) + 1 = n + 2 /\ n + 1 \in Nat
      OBVIOUS
    <3> QED BY <3>1
  <2>1. PICK m : m = n + 1
    OBVIOUS
  <2>2. m \in 1 .. L - 1 /\ m \in 1 .. L /\ m + 1 \in 1 .. L /\ m + 1 = n + 2
    BY <1>4, <2>1
  <2>3. /\ C[m] \in Nat /\ C[m + 1] \in Nat /\ c[m] \in Nat /\ c[m + 1] \in Nat
        /\ c[m] < c[m + 1]
        /\ C[m + 1] = C[m] + IF m \in H THEN c[m + 1] - c[m] ELSE 0
    BY <1>4, <1>5, <2>2
  <2>4. /\ C[m] <= c[m]
        /\ (\A k \in 1 .. n : k \in H) => C[m] = c[m]
        /\ (\E k \in 1 .. n : k \notin H) => C[m] < c[m]
        /\ (\E k \in 1 .. n : k \in H) => C[m] > 0
    BY <1>4, <1>7, <2>1
  <2>5. \A k : k \in 1 .. m <=> k \in 1 .. n \/ k = m
    BY <2>1
  <2>6. C[m + 1] <= c[m + 1]
    BY <2>3, <2>4
  <2>7. ASSUME \A k \in 1 .. m : k \in H PROVE C[m + 1] = c[m + 1]
    BY <2>3, <2>4, <2>5, <2>7
  <2>8. ASSUME NEW k \in 1 .. m, k \notin H PROVE C[m + 1] < c[m + 1]
    <3>1. CASE k = m
      BY <2>3, <2>4, <2>8, <3>1
    <3>2. CASE k \in 1 .. n
      BY <2>3, <2>4, <2>8, <3>2
    <3> QED BY <2>5, <3>1, <3>2
  <2>9. ASSUME NEW k \in 1 .. m, k \in H PROVE C[m + 1] > 0
    <3>1. CASE k = m
      BY <2>3, <2>9, <3>1
    <3>2. CASE k \in 1 .. n
      BY <2>3, <2>4, <2>9, <3>2
    <3> QED BY <2>5, <3>1, <3>2
  <2> QED BY <2>1, <2>2, <2>6, <2>7, <2>8, <2>9
<1> HIDE DEF B
<1>8. \A n \in Nat : n \in B
  BY <1>6, <1>7, Induction
<1>9. PICK n : n = L - 1
  OBVIOUS
<1>10. n \in Nat /\ n + 1 = L
  BY <1>4, <1>9
<1>11. /\ C[L] <= c[L]
       /\ (\A k \in 1 .. n : k \in H) => C[L] = c[L]
       /\ (\E k \in 1 .. n : k \notin H) => C[L] < c[L]
       /\ (\E k \in 1 .. n : k \in H) => C[L] > 0
  BY <1>8, <1>10 DEF B
<1>12. L \in 1 .. L
  BY <1>4
<1> QED BY <1>1, <1>2, <1>3, <1>5, <1>9, <1>11, <1>12

\* Without fragments the sum is 0.
LEMMA LengthOfNone ==
  ASSUME NEW d \in Datagram
  PROVE  IsLength(d, << >>, 0)
<1>1. PICK C : C = [k \in 1 .. Len(Cut[d]) |-> 0]
  OBVIOUS
<1>2. \A k : ~ Has(<< >>, k)
  BY DEF Has
<1>3. 1 \in 1 .. Len(Cut[d]) /\ Len(Cut[d]) \in 1 .. Len(Cut[d]) /\ Len(Cut[d]) \in Nat
  BY CutFacts
<1>4. C \in [1 .. Len(Cut[d]) -> Nat] /\ C[1] = 0 /\ C[Len(Cut[d])] = 0
  BY <1>1, <1>3
<1>5. \A k \in 1 .. Len(Cut[d]) - 1 : C[k + 1] = 0 /\ C[k] = 0
  BY <1>1, <1>3
<1>6. IsPartial(d, << >>, C)
  BY <1>2, <1>4, <1>5 DEF IsPartial
<1> QED BY <1>4, <1>6 DEF IsLength

\* The j-th fragment, which s does not hold, adds its length.
LEMMA LengthAdds ==
  ASSUME NEW d \in Datagram, NEW s, NEW length, IsLength(d, s, length),
         NEW t, NEW j \in 1 .. Len(Cut[d]), ~ Has(s, j),
         \A k : Has(t, k) <=> Has(s, k) \/ k = j
  PROVE  IsLength(d, t, IF j < Len(Cut[d]) THEN length + (Cut[d][j + 1] - Cut[d][j])
                                           ELSE length)
<1>1. PICK c, L : c = Cut[d] /\ L = Len(Cut[d])
  OBVIOUS
<1>2. PICK C : IsPartial(d, s, C) /\ C[L] = length
  BY <1>1 DEF IsLength
<1>3. /\ L \in Nat /\ L >= 1 /\ j \in 1 .. L
      /\ \A k \in 1 .. L : c[k] \in Nat
      /\ \A k \in 1 .. L - 1 : c[k] < c[k + 1]
  BY <1>1, CutFacts
<1>4. /\ \A k \in 1 .. L : C[k] \in Nat
      /\ C[1] = 0 /\ C \in [1 .. L -> Nat]
      /\ \A k \in 1 .. L - 1 : C[k + 1] = C[k] + IF Has(s, k) THEN c[k + 1] - c[k] ELSE 0
  BY <1>1, <1>2 DEF IsPartial
<1>5. CASE j = L
  <2>1. \A k \in 1 .. L - 1 : Has(t, k) <=> Has(s, k)
    BY <1>3, <1>5
  <2>2. IsPartial(d, t, C)
    BY <1>1, <1>4, <2>1 DEF IsPartial
  <2> QED BY <1>1, <1>2, <1>3, <1>5, <2>2 DEF IsLength
<1>6. CASE j < L
  <2>1. PICK a : a = c[j + 1] - c[j]
    OBVIOUS
  <2>2. a \in Nat
    BY <1>3, <1>6, <2>1
  <2>3. PICK D : D = [k \in 1 .. L |-> C[k] + IF k > j THEN a ELSE 0]
    OBVIOUS
  <2>4. D \in [1 .. L -> Nat]
    <3>1. \A k \in 1 .. L : C[k] + (IF k > j THEN a ELSE 0) \in Nat
      BY <1>4, <2>2
    <3> QED BY <2>3, <3>1
  <2>5. D[1] = 0 /\ D[L] = length + a
    BY <1>2, <1>3, <1>4, <1>6, <2>2, <2>3
  <2>6. ASSUME NEW k \in 1 .. L - 1
        PROVE  D[k + 1] = D[k] + IF Has(t, k) THEN c[k + 1] - c[k] ELSE 0
    <3>1. /\ k \in 1 .. L /\ k + 1 \in 1 .. L
          /\ C[k] \in Nat /\ C[k + 1] \in Nat /\ c[k] \in Nat /\ c[k + 1] \in Nat
          /\ C[k + 1] = C[k] + IF Has(s, k) THEN c[k + 1] - c[k] ELSE 0
      BY <1>3, <1>4
    <3>2. D[k] = C[k] + (IF k > j THEN a ELSE 0)
          /\ D[k + 1] = C[k + 1] + IF k + 1 > j THEN a ELSE 0
      BY <2>3, <3>1
    <3>3. CASE k = j
      <4>1. Has(t, k) /\ ~ Has(s, k) /\ k + 1 > j /\ ~ (k > j)
        BY <1>3, <3>3
      <4> QED BY <2>1, <2>2, <3>1, <3>2, <3>3, <4>1
    <3>4. CASE k # j
      <4>1. (Has(t, k) <=> Has(s, k)) /\ (k + 1 > j <=> k > j)
        BY <1>3, <3>4
      <4>2. PICK x : x = IF Has(s, k) THEN c[k + 1] - c[k] ELSE 0
        OBVIOUS
      <4>3. x \in Int /\ C[k + 1] = C[k] + x
        BY <3>1, <4>2
      <4>4. x = IF Has(t, k) THEN c[k + 1] - c[k] ELSE 0
        BY <4>1, <4>2
      <4>5. D[k + 1] = D[k] + x
        BY <2>2, <3>1, <3>2, <4>1, <4>3
      <4> QED BY <4>4, <4>5
    <3> QED BY <3>3, <3>4
  <2>7. IsPartial(d, t, D)
    BY <1>1, <2>4, <2>5, <2>6 DEF IsPartial
  <2> QED BY <1>1, <1>6, <2>1, <2>5, <2>7 DEF IsLength
<1> QED BY <1>3, <1>5, <1>6

-----------------------------------------------------------------------------
(* A fragIndicator whose fragments are those of one datagram.              *)

\* length and offset, when no fragment is there twice.
Counted(ind, d) ==
  /\ IsLength(d, ind.frags, ind.length)
  /\ ind.offset = IF Has(ind.frags, Len(Cut[d])) THEN Cut[d][Len(Cut[d])] ELSE 0

Collects(ind, d) ==
  /\ ind \in Indicator
  /\ InOrder(d, ind.frags)
  /\ ~ Twice(ind.frags) => Counted(ind, d)

\* newFragIndicator has nothing of any datagram.
LEMMA NewCollects ==
  ASSUME NEW d \in Datagram
  PROVE  Collects(newFragIndicator, d)
<1>1. PICK ind : ind = newFragIndicator
  OBVIOUS
<1>2. ind.length = 0 /\ ind.offset = 0 /\ ind.frags = << >>
  BY <1>1 DEF newFragIndicator
<1>3. ind \in Indicator
  BY <1>1 DEF newFragIndicator, Indicator
<1>4. InOrder(d, << >>)
  BY DEF InOrder
<1>5. ~ Has(<< >>, Len(Cut[d]))
  BY DEF Has
<1>6. Counted(ind, d)
  BY <1>2, <1>5, LengthOfNone DEF Counted
<1> QED BY <1>1, <1>2, <1>3, <1>4, <1>6 DEF Collects

\* append keeps an indicator one of d; without a duplicate the 16-bit length
\* does not wrap.
LEMMA AppendCollects ==
  ASSUME NEW d \in Datagram, NEW ind, NEW f \in Piece, f.d = d, Collects(ind, d)
  PROVE  /\ Collects(append(ind, f), d)
         /\ append(ind, f).frags # << >> /\ append(ind, f).age = 0
<1>1. PICK L, s, t, j : L = Len(Cut[d]) /\ s = ind.frags /\ t = Sorted(s, f) /\ j = f.k
  OBVIOUS
<1>2. /\ InOrder(d, s) /\ ind.length \in Nat /\ ind.offset \in Nat
      /\ s \in Seq([d : Datagram, k : Nat])
  BY <1>1 DEF Collects, Indicator
<1>3. /\ InOrder(d, t) /\ t # << >>
      /\ \A k : Has(t, k) <=> Has(s, k) \/ k = j
      /\ ~ Twice(t) => ~ Twice(s) /\ ~ Has(s, j)
  BY <1>1, <1>2, SortedFacts
<1>4. L \in Nat /\ L >= 1 /\ j \in 1 .. L
  BY <1>1, CutFacts DEF Piece
<1>5. /\ Cut[d][j] \in Nat /\ Cut[d][L] \in Nat /\ Cut[d][1] = 0
      /\ Cut[d][1] < LengthWrap /\ Cut[d][L] < LengthWrap
      /\ j < L => Cut[d][j + 1] \in Nat /\ Cut[d][j] < Cut[d][j + 1]
  BY <1>1, <1>4, CutFacts
<1>6. PICK length, offset :
        /\ length = IF j < L THEN (ind.length + (Cut[d][j + 1] - Cut[d][j])) % LengthWrap
                             ELSE ind.length
        /\ offset = IF j < L THEN ind.offset ELSE Cut[d][j]
  OBVIOUS
<1>7. append(ind, f) = [length |-> length, offset |-> offset, frags |-> t, age |-> 0]
  BY <1>1, <1>6 DEF append, MoreFragments, PayloadLength, FragOffset
<1>8. LengthWrap \in Nat /\ LengthWrap > 0
  BY <1>5, BoundAssumption
<1>9. length \in Nat
  <2>1. CASE j < L
    <3>1. PICK n : n = ind.length + (Cut[d][j + 1] - Cut[d][j])
      OBVIOUS
    <3>2. n \in Nat
      BY <1>2, <1>5, <2>1, <3>1
    <3>3. n % LengthWrap \in Nat
      BY <1>8, <3>2
    <3> QED BY <1>6, <2>1, <3>1, <3>3
  <2>2. CASE ~ (j < L)
    BY <1>2, <1>6, <2>2
  <2> QED BY <2>1, <2>2
<1>10. offset \in Nat
  BY <1>2, <1>5, <1>6
<1>11. append(ind, f) \in Indicator
  <2>1. t \in Seq(Piece)
    BY <1>3 DEF InOrder
  <2>2. t \in Seq([d : Datagram, k : Nat])
    <3>1. PICK S : S = [d : Datagram, k : Nat]
      OBVIOUS
    <3>2. Len(t) \in Nat /\ t \in [1 .. Len(t) -> Piece] /\ Piece \subseteq S
      BY <2>1, <3>1, LenProperties DEF Piece
    <3>3. t \in [1 .. Len(t) -> S]
      BY <3>2
    <3>4. t \in Seq(S)
      BY <3>2, <3>3, SeqDef
    <3> QED BY <3>1, <3>4
  <2> QED BY <1>7, <1>9, <1>10, <2>2 DEF Indicator
<1>12. ASSUME ~ Twice(t) PROVE Counted(append(ind, f), d)
  <2>1. Counted(ind, d)
    BY <1>1, <1>3, <1>12 DEF Collects
  <2>2. ~ Has(s, j)
    BY <1>3, <1>12
  <2>3. PICK n : n = IF j < L THEN ind.length + (Cut[d][j + 1] - Cut[d][j]) ELSE ind.length
    OBVIOUS
  <2>4. IsLength(d, t, n)
    <3>1. IsLength(d, s, ind.length)
      BY <1>1, <2>1 DEF Counted
    <3> QED BY <1>1, <1>3, <1>4, <2>2, <2>3, <3>1, LengthAdds
  <2>5. n \in Nat /\ n <= Cut[d][L]
    BY <1>1, <2>4, LengthBounds
  <2>6. length = n
    <3>1. n \in Nat /\ n < LengthWrap
      BY <1>5, <1>8, <2>5
    <3>2. n % LengthWrap = n
      BY <1>8, <3>1
    <3> QED BY <1>6, <2>3, <3>2
  <2>7. offset = IF Has(t, L) THEN Cut[d][L] ELSE 0
    <3>1. ind.offset = IF Has(s, L) THEN Cut[d][L] ELSE 0
      BY <1>1, <2>1 DEF Counted
    <3>2. CASE j < L
      <4>1. Has(t, L) <=> Has(s, L)
        BY <1>3, <1>4, <3>2
      <4> QED BY <1>6, <3>1, <3>2, <4>1
    <3>3. CASE ~ (j < L)
      <4>1. j = L /\ Has(t, L)
        BY <1>3, <1>4, <3>3
      <4> QED BY <1>6, <3>3, <4>1
    <3> QED BY <3>2, <3>3
  <2> QED BY <1>1, <1>7, <2>4, <2>6, <2>7 DEF Counted
<1> QED BY <1>3, <1>7, <1>11, <1>12 DEF Collects

\* Fragments in order, every one of them and none twice, are the datagram.
LEMMA WholeIsExact ==
  ASSUME NEW d \in Datagram, NEW s, InOrder(d, s), ~ Twice(s),
         \A k \in 1 .. Len(Cut[d]) : Has(s, k)
  PROVE  s = AllFragments(d)
<1>1. PICK L : L = Len(Cut[d])
  OBVIOUS
<1>2. /\ Len(s) \in Nat /\ L \in Nat /\ L >= 1
      /\ DOMAIN s = 1 .. Len(s) /\ s = [n \in 1 .. Len(s) |-> s[n]]
      /\ \A n \in 1 .. Len(s) :
           s[n] \in [d : Datagram, k : Nat] /\ s[n].d = d /\ s[n].k \in 1 .. L
  BY <1>1, CutFacts, LenProperties, ElementOfSeq DEF InOrder, Piece
<1>3. ASSUME NEW m \in 1 .. Len(s), NEW n \in 1 .. Len(s), m < n PROVE s[m].k < s[n].k
  <2>1. s[m].k <= s[n].k
    BY <1>3 DEF InOrder
  <2>2. s[m] # s[n]
    BY <1>2, <1>3 DEF Twice
  <2>3. s[m].k # s[n].k
    BY <1>2, <2>2
  <2> QED BY <1>2, <2>1, <2>3
<1> DEFINE B == {n \in Nat : n <= L => n <= Len(s) /\ \A m \in 1 .. n : s[m].k = m}
<1>4. 0 \in B
  BY <1>2
<1>5. ASSUME NEW n \in Nat, n \in B PROVE n + 1 \in B
  <2> SUFFICES ASSUME n + 1 <= L PROVE n + 1 <= Len(s) /\ \A m \in 1 .. n + 1 : s[m].k = m
    OBVIOUS
  <2>1. n <= Len(s) /\ \A m \in 1 .. n : s[m].k = m
    BY <1>2, <1>5
  <2>2. n + 1 \in 1 .. L
    BY <1>2
  <2>3. PICK q \in 1 .. Len(s) : s[q].k = n + 1
    BY <1>1, <2>2 DEF Has
  <2>4. q > n
    <3> SUFFICES ASSUME q <= n PROVE FALSE
      BY <1>2
    <3>1. s[q].k = q
      BY <1>2, <2>1
    <3> QED BY <1>2, <2>3, <3>1
  <2>5. n + 1 \in 1 .. Len(s)
    BY <1>2, <2>4
  <2>6. s[n + 1].k <= n + 1
    <3>1. CASE q = n + 1
      BY <2>3, <3>1
    <3>2. CASE n + 1 < q
      <4>1. s[n + 1].k < s[q].k
        BY <1>3, <2>5, <3>2
      <4> QED BY <1>2, <2>3, <2>5, <4>1
    <3> QED BY <1>2, <2>4, <3>1, <3>2
  <2>7. s[n + 1].k >= n + 1
    <3>1. CASE n = 0
      BY <1>2, <2>5, <3>1
    <3>2. CASE n # 0
      <4>1. n \in 1 .. Len(s) /\ n \in 1 .. n /\ n < n + 1
        BY <1>2, <2>1, <3>2
      <4>2. s[n].k < s[n + 1].k /\ s[n].k = n
        BY <1>3, <2>1, <2>5, <4>1
      <4> QED BY <1>2, <2>5, <4>2
    <3> QED BY <3>1, <3>2
  <2>8. s[n + 1].k = n + 1
    BY <1>2, <2>5, <2>6, <2>7
  <2>9. \A m \in 1 .. n + 1 : m \in 1 .. n \/ m = n + 1
    OBVIOUS
  <2> QED BY <1>2, <2>1, <2>5, <2>8, <2>9
<1> HIDE DEF B
<1>6. L \in B
  BY <1>2, <1>4, <1>5, Induction
<1>7. L <= Len(s) /\ \A m \in 1 .. L : s[m].k = m
  BY <1>2, <1>6 DEF B
<1>8. Len(s) = L
  <2> SUFFICES ASSUME L < Len(s) PROVE FALSE
    BY <1>2, <1>7
  <2>1. L \in 1 .. Len(s) /\ L + 1 \in 1 .. Len(s) /\ L \in 1 .. L /\ L < L + 1
    BY <1>2
  <2>2. s[L].k = L /\ s[L].k < s[L + 1].k /\ s[L + 1].k \in 1 .. L
    BY <1>2, <1>3, <1>7, <2>1
  <2> QED BY <1>2, <2>2
<1>9. \A n \in 1 .. L : s[n] = [d |-> d, k |-> n]
  BY <1>2, <1>7, <1>8
<1> QED BY <1>1, <1>2, <1>8, <1>9 DEF AllFragments

\* Without a duplicate, length = offset exactly when every fragment is there.
LEMMA CompletedIsWhole ==
  ASSUME NEW d \in Datagram, Len(Cut[d]) > 1, NEW ind, Collects(ind, d),
         ind.frags # << >>, ~ Twice(ind.frags)
  PROVE  isCompleted(ind) <=> \A k \in 1 .. Len(Cut[d]) : Has(ind.frags, k)
<1>1. PICK L, s : L = Len(Cut[d]) /\ s = ind.frags
  OBVIOUS
<1>2. L \in Nat /\ L > 1 /\ Cut[d][L] \in Nat /\ Cut[d][L] > 0
  <2>1. L \in Nat /\ L > 1 /\ L \in 1 .. L /\ 1 \in 1 .. L /\ 1 < L
    BY <1>1, CutFacts
  <2>2. Cut[d][1] = 0 /\ Cut[d][1] < Cut[d][L] /\ Cut[d][L] \in Nat
    BY <1>1, <2>1, CutFacts
  <2> QED BY <2>1, <2>2
<1>3. /\ ind.length \in Nat /\ ind.length <= Cut[d][L]
      /\ (\A k \in 1 .. L - 1 : Has(s, k)) => ind.length = Cut[d][L]
      /\ (\E k \in 1 .. L - 1 : ~ Has(s, k)) => ind.length < Cut[d][L]
      /\ (\E k \in 1 .. L - 1 : Has(s, k)) => ind.length > 0
  <2>1. IsLength(d, s, ind.length)
    BY <1>1 DEF Collects, Counted
  <2> QED BY <1>1, <2>1, LengthBounds
<1>4. ind.offset = IF Has(s, L) THEN Cut[d][L] ELSE 0
  BY <1>1 DEF Collects, Counted
<1>5. \A k : k \in 1 .. L <=> k \in 1 .. L - 1 \/ k = L
  BY <1>2
<1>6. CASE Has(s, L)
  BY <1>1, <1>2, <1>3, <1>4, <1>5, <1>6 DEF isCompleted
<1>7. CASE ~ Has(s, L)
  <2>1. /\ Len(s) \in Nat /\ Len(s) > 0 /\ \A n \in 1 .. Len(s) : s[n].k \in 1 .. L
    BY <1>1, LenProperties, ElementOfSeq, EmptySeq DEF Collects, InOrder, Piece
  <2>2. PICK k : k = s[1].k
    OBVIOUS
  <2>3. Has(s, k) /\ k \in 1 .. L
    BY <2>1, <2>2 DEF Has
  <2>4. k \in 1 .. L - 1
    BY <1>5, <1>7, <2>3
  <2>5. ind.length > 0 /\ ind.offset = 0
    BY <1>3, <1>4, <1>7, <2>3, <2>4
  <2>6. L \in 1 .. L
    BY <1>2
  <2> QED BY <1>1, <1>7, <2>5, <2>6 DEF isCompleted
<1> QED BY <1>6, <1>7

-----------------------------------------------------------------------------
(* The invariant.                                                          *)

TypeOfDefragmenter ==
  /\ net \subseteq Piece
  /\ sent \subseteq Datagram
  /\ quiet \in [HostKey -> 0 .. Old]
  /\ frags \in [FragFlow -> Indicator \cup {NoIndicator}]

\* Only one datagram with a HostKey is on its way.
OneAtATime ==
  /\ \A f \in net : f.d \in sent
  /\ \A f, g \in net : KeyOf[f.d] = KeyOf[g.d] => f.d = g.d

\* ind waits at l for more fragments of d; while it is not too old nothing
\* else with the HostKey of d is on its way.
WaitsFor(ind, l, d) ==
  /\ d \in sent /\ FlowOf[d] = l /\ Len(Cut[d]) > 1
  /\ Collects(ind, d) /\ ind.frags # << >> /\ ~ isCompleted(ind)
  /\ quiet[KeyOf[d]] <= ind.age
  /\ ind.age <= Deadline => \A f \in net : KeyOf[f.d] = KeyOf[d] => f.d = d

DefragInv ==
  /\ TypeOfDefragmenter
  /\ OneAtATime
  /\ \A l \in FragFlow : frags[l] # NoIndicator =>
       \E d \in Datagram : WaitsFor(frags[l], l, d)
  /\ ReassembledExactly

\* A flow is an Id and a source address: no host reuses the Id for another
\* destination or protocol while it is in use.
OneKeyPerFlow == \A d, e \in Datagram : FlowOf[d] = FlowOf[e] => KeyOf[d] = KeyOf[e]

\* Nothing was sent and nothing waits.
LEMMA DefragInit == Init => DefragInv
<1> SUFFICES ASSUME Init PROVE DefragInv
  OBVIOUS
<1>1. Old \in Nat
  BY BoundAssumption DEF Old
<1>2. TypeOfDefragmenter
  BY <1>1 DEF Init, TypeOfDefragmenter
<1> QED BY <1>2 DEF Init, DefragInv, OneAtATime, ReassembledExactly

\* Datagrams that were sent stay sent.
LEMMA ExactlyStays ==
  ASSUME ReassembledExactly, sent \subseteq sent', result' = result
  PROVE  ReassembledExactly'
  BY DEF ReassembledExactly, AllFragments, Twice

\* A host sends d: an indicator of an earlier datagram with its HostKey is
\* older than deadline by now.
LEMMA SendStep ==
  ASSUME DefragInv, NEW d \in Datagram, Send(d)
  PROVE  DefragInv'
<1> USE DEF DefragInv
<1>1. PICK new : new = {AllFragments(d)[k] : k \in 1 .. Len(Cut[d])}
  OBVIOUS
<1>2. \A f \in new : f \in Piece /\ f.d = d
  <2> SUFFICES ASSUME NEW k \in 1 .. Len(Cut[d])
               PROVE  AllFragments(d)[k] \in Piece /\ AllFragments(d)[k].d = d
    BY <1>1
  <2>1. AllFragments(d)[k] = [d |-> d, k |-> k]
    BY DEF AllFragments
  <2>2. k \in Nat
    BY CutFacts
  <2> QED BY <2>1, <2>2 DEF Piece
<1>3. /\ net' = net \cup new /\ sent' = sent \cup {d} /\ quiet' = quiet
      /\ frags' = frags /\ result' = result
      /\ \A f \in net : KeyOf[f.d] # KeyOf[d]
      /\ quiet[KeyOf[d]] = Old
  BY <1>1 DEF Send
<1>4. TypeOfDefragmenter'
  BY <1>2, <1>3 DEF TypeOfDefragmenter
<1>5. OneAtATime'
  <2>1. \A f \in net' : f.d \in sent'
    BY <1>2, <1>3 DEF OneAtATime
  <2>2. ASSUME NEW f \in net', NEW g \in net', KeyOf[f.d] = KeyOf[g.d] PROVE f.d = g.d
    BY <1>2, <1>3, <2>2 DEF OneAtATime
  <2> QED BY <2>1, <2>2 DEF OneAtATime
<1>6. ASSUME NEW l \in FragFlow, frags'[l] # NoIndicator
      PROVE  \E e \in Datagram : WaitsFor(frags[l], l, e)'
  <2>1. PICK ind : ind = frags[l]
    OBVIOUS
  <2>2. PICK e \in Datagram : WaitsFor(ind, l, e)
    BY <1>3, <1>6, <2>1
  <2>3. ASSUME ind.age <= Deadline, NEW f \in net', KeyOf[f.d] = KeyOf[e] PROVE f.d = e
    <3>1. CASE f \in net
      BY <2>2, <2>3, <3>1 DEF WaitsFor
    <3>2. CASE f \in new
      <4>1. KeyOf[e] = KeyOf[d]
        BY <1>2, <2>3, <3>2
      <4>2. Old <= ind.age
        BY <1>3, <2>2, <4>1 DEF WaitsFor
      <4>3. ind.age \in Nat
        BY <2>2 DEF WaitsFor, Collects, Indicator
      <4> QED BY <2>3, <4>2, <4>3, BoundAssumption DEF Old
    <3> QED BY <1>3, <3>1, <3>2
  <2>4. WaitsFor(ind, l, e)'
    BY <1>3, <2>2, <2>3 DEF WaitsFor
  <2>5. ind = frags'[l]
    BY <1>3, <2>1
  <2> QED BY <2>4, <2>5
<1>7. ReassembledExactly'
  BY <1>3, ExactlyStays
<1> QED BY <1>4, <1>5, <1>6, <1>7

\* What a flow waits for, when fragments leave the network.
LEMMA StillWaits ==
  ASSUME NEW l, NEW ind, NEW e \in Datagram, WaitsFor(ind, l, e), TypeOfDefragmenter,
         NEW h \in HostKey, quiet' = [quiet EXCEPT ![h] = 0], net' \subseteq net, sent' = sent
  PROVE  WaitsFor(ind, l, e)'
<1>1. ind.age \in Nat /\ KeyOf[e] \in HostKey
  BY DatagramAssumption DEF WaitsFor, Collects, Indicator
<1>2. quiet'[KeyOf[e]] <= ind.age
  BY <1>1 DEF WaitsFor, TypeOfDefragmenter
<1> QED BY <1>2 DEF WaitsFor

\* quiet starts again for a HostKey.
LEMMA QuietStep ==
  ASSUME TypeOfDefragmenter, NEW h \in HostKey, quiet' = [quiet EXCEPT ![h] = 0]
  PROVE  quiet' \in [HostKey -> 0 .. Old]
<1>1. Old \in Nat
  BY BoundAssumption DEF Old
<1>2. 0 \in 0 .. Old
  BY <1>1
<1> QED BY <1>2 DEF TypeOfDefragmenter

\* A fragment is lost.
LEMMA LoseStep ==
  ASSUME DefragInv, NEW f \in net, Lose(f)
  PROVE  DefragInv'
<1> USE DEF DefragInv
<1>1. PICK h : h = KeyOf[f.d]
  OBVIOUS
<1>2. f.d \in Datagram /\ h \in HostKey
  BY <1>1, DatagramAssumption DEF TypeOfDefragmenter, Piece
<1>3. /\ net' = net \ {f} /\ sent' = sent /\ quiet' = [quiet EXCEPT ![h] = 0]
      /\ frags' = frags /\ result' = result
  BY <1>1 DEF Lose
<1>4. TypeOfDefragmenter'
  BY <1>2, <1>3, QuietStep DEF TypeOfDefragmenter
<1>5. OneAtATime'
  BY <1>3 DEF OneAtATime
<1>6. ASSUME NEW l \in FragFlow, frags'[l] # NoIndicator
      PROVE  \E e \in Datagram : WaitsFor(frags[l], l, e)'
  <2>1. PICK ind : ind = frags[l]
    OBVIOUS
  <2>2. PICK e \in Datagram : WaitsFor(ind, l, e)
    BY <1>3, <1>6, <2>1
  <2>3. net' \subseteq net
    BY <1>3
  <2>4. WaitsFor(ind, l, e)'
    BY <1>2, <1>3, <2>2, <2>3, StillWaits
  <2>5. ind = frags'[l]
    BY <1>3, <2>1
  <2> QED BY <2>4, <2>5
<1>7. ReassembledExactly'
  BY <1>3, ExactlyStays
<1> QED BY <1>4, <1>5, <1>6, <1>7

\* Time passes for the hosts as for the indicators.
LEMMA TickStep ==
  ASSUME DefragInv, Tick
  PROVE  DefragInv'
<1> USE DEF DefragInv
<1>1. /\ net' = net /\ sent' = sent /\ result' = result
      /\ quiet' = [h \in HostKey |-> Older(quiet[h])]
      /\ frags' = [l \in FragFlow |-> IF frags[l] = NoIndicator THEN NoIndicator
                                      ELSE [frags[l] EXCEPT !.age = Older(@)]]
  BY DEF Tick
<1>2. Old \in Nat /\ Deadline \in Nat /\ Old = Deadline + 1
  BY BoundAssumption DEF Old
<1>3. ASSUME NEW l \in FragFlow, frags[l] # NoIndicator
      PROVE  /\ frags'[l] # NoIndicator
             /\ \E e \in Datagram : WaitsFor(frags[l], l, e)'
  <2>1. PICK ind, now : ind = frags[l] /\ now = [ind EXCEPT !.age = Older(@)]
    OBVIOUS
  <2>2. PICK e \in Datagram : WaitsFor(ind, l, e)
    BY <1>3, <2>1
  <2>3. ind \in Indicator /\ ind.age \in Nat
    BY <2>2 DEF WaitsFor, Collects, Indicator
  <2>4. now.frags = ind.frags /\ now.length = ind.length /\ now.offset = ind.offset
        /\ now.age = Older(ind.age)
    BY <2>1, <2>3 DEF Indicator
  <2>5. Older(ind.age) \in Nat
    BY <1>2, <2>3 DEF Older
  <2>6. now \in Indicator
    BY <2>1, <2>3, <2>5 DEF Indicator
  <2>7. Collects(now, e)
    BY <2>2, <2>4, <2>6 DEF WaitsFor, Collects, Counted
  <2>8. ~ isCompleted(now)
    BY <2>2, <2>4 DEF WaitsFor, isCompleted
  <2>9. quiet'[KeyOf[e]] <= now.age
    <3>1. KeyOf[e] \in HostKey
      BY DatagramAssumption
    <3>2. PICK q : q = quiet[KeyOf[e]]
      OBVIOUS
    <3>3. q \in 0 .. Old /\ q <= ind.age /\ quiet'[KeyOf[e]] = Older(q)
      BY <1>1, <2>2, <3>1, <3>2 DEF TypeOfDefragmenter, WaitsFor
    <3>4. Older(q) <= Older(ind.age)
      BY <1>2, <2>3, <3>3 DEF Older
    <3> QED BY <2>4, <3>3, <3>4
  <2>10. ASSUME now.age <= Deadline PROVE ind.age <= Deadline
    BY <1>2, <2>3, <2>4, <2>10 DEF Older
  <2>11. WaitsFor(now, l, e)'
    BY <1>1, <2>2, <2>4, <2>7, <2>8, <2>9, <2>10 DEF WaitsFor
  <2>12. frags'[l] = now /\ now # NoIndicator
    BY <1>1, <1>3, <2>1, <2>6, NoIndicatorAssumption
  <2> QED BY <2>11, <2>12
<1>4. ASSUME NEW l \in FragFlow, frags[l] = NoIndicator PROVE frags'[l] = NoIndicator
  BY <1>1, <1>4
<1>5. TypeOfDefragmenter'
  <2>1. quiet' \in [HostKey -> 0 .. Old]
    <3>1. \A h \in HostKey : Older(quiet[h]) \in 0 .. Old
      BY <1>2 DEF TypeOfDefragmenter, Older
    <3> QED BY <1>1, <3>1
  <2>2. \A l \in FragFlow : frags'[l] \in Indicator \cup {NoIndicator}
    <3> SUFFICES ASSUME NEW l \in FragFlow, frags[l] # NoIndicator
                 PROVE  frags'[l] \in Indicator
      BY <1>4
    <3>1. PICK e \in Datagram : WaitsFor(frags[l], l, e)'
      BY <1>3
    <3> QED BY <3>1 DEF WaitsFor, Collects
  <2>3. frags' \in [FragFlow -> Indicator \cup {NoIndicator}]
    BY <1>1, <2>2
  <2> QED BY <1>1, <2>1, <2>3 DEF TypeOfDefragmenter
<1>6. OneAtATime'
  BY <1>1 DEF OneAtATime
<1>7. ReassembledExactly'
  BY <1>1, ExactlyStays
<1> QED BY <1>3, <1>4, <1>5, <1>6, <1>7

\* A fragment is captured: what it is appended to is of its own datagram.
LEMMA ArriveStep ==
  ASSUME OneKeyPerFlow, Deadline > 0, DefragInv, NEW f \in net, Arrive(f)
  PROVE  DefragInv'
<1> USE DEF DefragInv
<1>1. PICK d, h : d = f.d /\ h = KeyOf[d]
  OBVIOUS
<1>2. f \in Piece /\ d \in Datagram /\ h \in HostKey /\ d \in sent
  BY <1>1, DatagramAssumption DEF TypeOfDefragmenter, Piece, OneAtATime
<1>3. /\ net' \subseteq net /\ sent' = sent /\ quiet' = [quiet EXCEPT ![h] = 0]
      /\ AppendOriginal(f)
  BY <1>1 DEF Arrive
<1>4. net' \subseteq Piece /\ sent' \subseteq Datagram /\ quiet' \in [HostKey -> 0 .. Old]
  BY <1>2, <1>3, QuietStep DEF TypeOfDefragmenter
<1>5. OneAtATime'
  BY <1>3 DEF OneAtATime
<1>6. ASSUME NEW l \in FragFlow, frags[l] # NoIndicator, frags'[l] = frags[l]
      PROVE  \E e \in Datagram : WaitsFor(frags[l], l, e)'
  <2>1. PICK ind : ind = frags[l]
    OBVIOUS
  <2>2. PICK e \in Datagram : WaitsFor(ind, l, e)
    BY <1>6, <2>1
  <2>3. WaitsFor(ind, l, e)'
    BY <1>2, <1>3, <2>2, StillWaits
  <2>4. ind = frags'[l]
    BY <1>6, <2>1
  <2> QED BY <2>3, <2>4
<1>7. PICK L : L = Len(Cut[d])
  OBVIOUS
<1>8. L \in Nat /\ L >= 1 /\ f.k \in 1 .. L /\ Cut[d][1] = 0
  BY <1>1, <1>2, <1>7, CutFacts DEF Piece
<1>9. CASE ~ IsFrag(f)
  <2>1. frags' = frags /\ result' = <<f>>
    BY <1>3, <1>9 DEF AppendOriginal
  <2>2. L = 1 /\ f.k = 1
    <3>1. ~ (f.k < L) /\ Cut[d][f.k] = 0
      BY <1>1, <1>7, <1>9 DEF IsFrag, MoreFragments, FragOffset
    <3>2. f.k = L
      BY <1>8, <3>1
    <3>3. 1 < L => Cut[d][1] < Cut[d][L] /\ Cut[d][1] \in Nat
      BY <1>2, <1>7, <1>8, CutFacts
    <3> QED BY <1>8, <3>1, <3>2, <3>3
  <2>3. <<f>> = AllFragments(d)
    <3>1. f = [d |-> d, k |-> 1]
      <4>1. f \in [d : Datagram, k : Nat]
        BY <1>2 DEF Piece
      <4> QED BY <1>1, <2>2, <4>1
    <3>2. <<f>> = [k \in 1 .. 1 |-> [d |-> d, k |-> k]]
      BY <3>1
    <3> QED BY <1>7, <2>2, <3>2 DEF AllFragments
  <2>4. ReassembledExactly'
    BY <1>2, <1>3, <2>1, <2>3 DEF ReassembledExactly, AllFragments
  <2>5. TypeOfDefragmenter'
    BY <1>4, <2>1 DEF TypeOfDefragmenter
  <2> QED BY <1>5, <1>6, <2>1, <2>4, <2>5
<1>10. CASE IsFrag(f)
  <2>1. L > 1
    <3>1. f.k < L \/ Cut[d][f.k] # 0
      BY <1>1, <1>7, <1>10 DEF IsFrag, MoreFragments, FragOffset
    <3> QED BY <1>8, <3>1
  <2>2. PICK l, old, ind : l = FlowOf[d] /\ old = Current(l) /\ ind = append(old, f)
    OBVIOUS
  <2>3. l \in FragFlow
    BY <1>2, <2>2, DatagramAssumption
  <2>4. Collects(old, d)
    <3>1. CASE old = newFragIndicator
      BY <1>2, <3>1, NewCollects
    <3>2. CASE old # newFragIndicator
      <4>1. old = frags[l] /\ old # NoIndicator /\ ~ (old.age > Deadline)
        BY <2>2, <3>2 DEF Current
      <4>2. PICK e \in Datagram : WaitsFor(old, l, e)
        BY <2>3, <4>1
      <4>3. KeyOf[e] = KeyOf[d]
        BY <1>2, <2>2, <4>2 DEF OneKeyPerFlow, WaitsFor
      <4>4. old.age \in Nat
        BY <4>2 DEF WaitsFor, Collects, Indicator
      <4>5. old.age <= Deadline
        BY <4>1, <4>4, BoundAssumption
      <4>6. f.d = e
        BY <1>1, <4>2, <4>3, <4>5 DEF WaitsFor
      <4> QED BY <1>1, <4>2, <4>6 DEF WaitsFor
    <3> QED BY <3>1, <3>2
  <2>5. Collects(ind, d) /\ ind.frags # << >> /\ ind.age = 0
    BY <1>1, <1>2, <2>2, <2>4, AppendCollects
  <2>6. ind \in Indicator
    BY <2>5 DEF Collects
  <2>7. CASE isCompleted(ind)
    <3>1. frags' = [frags EXCEPT ![l] = NoIndicator] /\ result' \in {ind.frags, << >>}
      BY <1>1, <1>3, <1>10, <2>2, <2>7 DEF AppendOriginal
    <3>2. TypeOfDefragmenter'
      BY <1>4, <2>3, <3>1 DEF TypeOfDefragmenter
    <3>3. ASSUME NEW k \in FragFlow, frags'[k] # NoIndicator
          PROVE  \E e \in Datagram : WaitsFor(frags[k], k, e)'
      <4>1. frags'[k] = frags[k]
        BY <3>1, <3>3 DEF TypeOfDefragmenter
      <4> QED BY <1>6, <3>3, <4>1
    <3>4. ind.frags = AllFragments(d) \/ Twice(ind.frags)
      <4> SUFFICES ASSUME ~ Twice(ind.frags) PROVE ind.frags = AllFragments(d)
        OBVIOUS
      <4>1. \A k \in 1 .. Len(Cut[d]) : Has(ind.frags, k)
        BY <1>2, <1>7, <2>1, <2>5, <2>7, CompletedIsWhole
      <4>2. PICK s : s = ind.frags
        OBVIOUS
      <4>3. InOrder(d, s)
        BY <2>5, <4>2 DEF Collects
      <4> QED BY <1>2, <4>1, <4>2, <4>3, WholeIsExact
    <3>5. ReassembledExactly'
      <4>1. result' # << >> => result' = AllFragments(d) \/ Twice(result')
        BY <3>1, <3>4
      <4> QED BY <1>2, <1>3, <4>1 DEF ReassembledExactly, AllFragments, Twice
    <3> QED BY <1>5, <3>2, <3>3, <3>5
  <2>8. CASE ~ isCompleted(ind)
    <3>1. frags' = [frags EXCEPT ![l] = ind] /\ result' = << >>
      BY <1>1, <1>3, <1>10, <2>2, <2>8 DEF AppendOriginal
    <3>2. TypeOfDefragmenter'
      BY <1>4, <2>3, <2>6, <3>1 DEF TypeOfDefragmenter
    <3>3. frags'[l] = ind
      BY <2>3, <3>1 DEF TypeOfDefragmenter
    <3>4. WaitsFor(ind, l, d)'
      <4>1. quiet'[KeyOf[d]] <= ind.age
        <5>1. quiet'[h] = 0
          BY <1>2, <1>3 DEF TypeOfDefragmenter
        <5> QED BY <1>1, <2>5, <5>1
      <4>2. \A g \in net' : KeyOf[g.d] = KeyOf[d] => g.d = d
        BY <1>1, <1>3 DEF OneAtATime
      <4> QED BY <1>2, <1>3, <1>7, <2>1, <2>2, <2>5, <2>8, <4>1, <4>2 DEF WaitsFor
    <3>5. ASSUME NEW k \in FragFlow, frags'[k] # NoIndicator
          PROVE  \E e \in Datagram : WaitsFor(frags[k], k, e)'
      <4>1. CASE k = l
        BY <1>2, <3>3, <3>4, <4>1
      <4>2. CASE k # l
        <5>1. frags'[k] = frags[k]
          BY <3>1, <4>2 DEF TypeOfDefragmenter
        <5> QED BY <1>6, <3>5, <5>1
      <4> QED BY <4>1, <4>2
    <3>6. ReassembledExactly'
      BY <3>1 DEF ReassembledExactly
    <3> QED BY <1>5, <3>2, <3>5, <3>6
  <2> QED BY <2>7, <2>8
<1> QED BY <1>9, <1>10

\* Every step keeps the invariant.
LEMMA DefragStep ==
  ASSUME OneKeyPerFlow, Deadline > 0, DefragInv, [Next]_vars
  PROVE  DefragInv'
<1>1. CASE Next
  BY <1>1, SendStep, LoseStep, ArriveStep, TickStep DEF Next
<1>2. CASE UNCHANGED vars
  BY <1>2
     DEF vars, DefragInv, TypeOfDefragmenter, OneAtATime, WaitsFor,
         ReassembledExactly, Twice, AllFragments
<1> QED BY <1>1, <1>2

\* The strengthened invariant holds, when the hosts keep to one HostKey for a
\* fragFlow and keepFragments is set, as it always is.
THEOREM DefragInductive ==
  ASSUME OneKeyPerFlow, Deadline > 0
  PROVE  Spec => []DefragInv
  BY DefragInit, DefragStep, PTL DEF Spec

\* A packet that AppendOriginal returns is a datagram that was sent: all of
\* its fragments, each once and in order, unless the network duplicated one
\* of them.  This is for every cut of every datagram, and however fragments
\* are lost, reordered and delayed.
THEOREM Reassembles ==
  ASSUME OneKeyPerFlow, Deadline > 0
  PROVE  Spec => []ReassembledExactly
<1>1. DefragInv => ReassembledExactly
  BY DEF DefragInv
<1> QED BY <1>1, DefragInductive, PTL

\* An indicator that waits does not hold all of a datagram.
LEMMA WaitsForMore ==
  ASSUME NEW l, NEW ind, NEW d \in Datagram, WaitsFor(ind, l, d),
         ~ Twice(ind.frags), NEW e \in Datagram
  PROVE  \E k \in 1 .. Len(Cut[e]) :
           \A n \in DOMAIN ind.frags : ind.frags[n] # AllFragments(e)[k]
<1>1. PICK s : s = ind.frags
  OBVIOUS
<1>2. /\ Len(s) \in Nat /\ DOMAIN s = 1 .. Len(s) /\ \A n \in 1 .. Len(s) : s[n].d = d
  BY <1>1, LenProperties DEF WaitsFor, Collects, InOrder
<1>4. CASE e = d
  <2>1. PICK k \in 1 .. Len(Cut[d]) : ~ Has(s, k)
    BY <1>1, CompletedIsWhole DEF WaitsFor
  <2>2. \A n \in 1 .. Len(s) : s[n].k # k
    BY <2>1 DEF Has
  <2>3. \A n \in DOMAIN s : s[n] # AllFragments(e)[k]
    <3> SUFFICES ASSUME NEW n \in 1 .. Len(s), s[n] = AllFragments(d)[k] PROVE FALSE
      BY <1>2, <1>4
    <3>1. AllFragments(d)[k] = [d |-> d, k |-> k]
      BY DEF AllFragments
    <3>2. s[n].k = k
      BY <3>1
    <3> QED BY <2>2, <3>2
  <2> QED BY <1>1, <1>4, <2>1, <2>3
<1>5. CASE e # d
  <2>1. 1 \in 1 .. Len(Cut[e])
    BY CutFacts
  <2>2. \A n \in DOMAIN s : s[n] # AllFragments(e)[1]
    <3> SUFFICES ASSUME NEW n \in 1 .. Len(s), s[n] = AllFragments(e)[1] PROVE FALSE
      BY <1>2
    <3>1. AllFragments(e)[1] = [d |-> e, k |-> 1]
      BY <2>1 DEF AllFragments
    <3>2. s[n].d = e
      BY <3>1
    <3> QED BY <1>2, <1>5, <3>2
  <2> QED BY <1>1, <2>1, <2>2
<1> QED BY <1>4, <1>5

\* AppendOriginal returns a datagram with its last fragment to arrive: all of
\* a datagram never waits in frags, unless one of them was duplicated.
THEOREM WholeAtOnce ==
  ASSUME OneKeyPerFlow, Deadline > 0
  PROVE  Spec => []NoneWaitsWhenWhole
<1>1. DefragInv => NoneWaitsWhenWhole
  <2> SUFFICES ASSUME DefragInv, NEW l \in FragFlow, frags[l] # NoIndicator,
                      ~ Twice(frags[l].frags),
                      NEW e \in Datagram
               PROVE  \E k \in 1 .. Len(Cut[e]) :
                        \A n \in DOMAIN frags[l].frags : frags[l].frags[n] # AllFragments(e)[k]
    BY DEF NoneWaitsWhenWhole
  <2>1. PICK ind : ind = frags[l]
    OBVIOUS
  <2>2. PICK d \in Datagram : WaitsFor(ind, l, d)
    BY <2>1 DEF DefragInv
  <2> QED BY <2>1, <2>2, WaitsForMore
<1> QED BY <1>1, DefragInductive, PTL

=============================================================================
