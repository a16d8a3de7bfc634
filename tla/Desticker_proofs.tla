-------------------------- MODULE Desticker_proofs --------------------------
(***************************************************************************)
(* Proofs about Desticker, for all lengths of packets, every header, every *)
(* deadline and every number of packets.                                   *)
(***************************************************************************)
EXTENDS Desticker, SequenceTheorems, TLAPS

-----------------------------------------------------------------------------
(* The inductive invariant.                                                *)

\* A packet is where it starts and where it ends.
Extent == Nat \X Nat

\* Positions are in the stream; Append has what it found until it returns,
\* and Read what Append returned.
TypeOK ==
  /\ start \in Seq(Nat) /\ Len(start) > 0
  /\ got \in Nat /\ got <= Written
  /\ from \in Nat /\ from <= got
  /\ indicator \in Nat
  /\ appear \in 0 .. Old
  /\ packets \in Seq(Extent) /\ stash \in Seq(Extent) /\ returned \in Seq(Extent)
  /\ pc \in {"idle", "loop"}
  /\ pc = "idle" => packets = <<>>
  /\ pc = "loop" => stash = <<>>

\* No packet is shorter than a header.
Increasing == \A j, k \in 1 .. Len(start) : j < k => start[j] + Header <= start[k]

\* As long as nothing was discarded, d.data starts where the first packet
\* starts that was not found yet, and d.indicator is its length.
InStep ==
  ~lost =>
    /\ Len(Found) < Len(start)
    /\ from = start[Len(Found) + 1]
    /\ indicator # 0 =>
         /\ Len(Found) + 1 < Len(start)
         /\ from + indicator = start[Len(Found) + 2]

\* While the reader waits for data, none of the packets that were not found
\* yet is in d.data as a whole.
NoneIsWhole ==
  pc = "idle" /\ ~lost => \A k \in 1 .. Len(start) : k > Len(Found) + 1 => got < start[k]

IInv == TypeOK /\ Increasing /\ InStep /\ PacketsAsWritten /\ NoneIsWhole

-----------------------------------------------------------------------------
(* What is found.                                                          *)

LEMMA FoundType ==
  ASSUME TypeOK
  PROVE  /\ Found \in Seq(Extent)
         /\ Len(Found) = Len(returned) + Len(stash) + Len(packets)
         /\ Len(Found) \in Nat
<1>1. returned \o stash \in Seq(Extent) /\ Len(returned \o stash) = Len(returned) + Len(stash)
  BY ConcatProperties DEF TypeOK
<1> QED BY <1>1, ConcatProperties DEF Found, TypeOK

\* Break hands packets over to stash, ReadStash the first of stash to
\* returned: what is found stays the same.
LEMMA FoundMoves ==
  ASSUME NEW R \in Seq(Extent), NEW S \in Seq(Extent)
  PROVE  /\ (R \o <<>>) \o S = (R \o S) \o <<>>
         /\ S # <<>> => (Append(R, Head(S)) \o Tail(S)) \o <<>> = (R \o S) \o <<>>
<1>1. R \o <<>> = R /\ R \o S \in Seq(Extent) /\ (R \o S) \o <<>> = R \o S
  BY ConcatProperties, ConcatEmptySeq
<1>2. ASSUME S # <<>> PROVE Append(R, Head(S)) \o Tail(S) = R \o S
  <2>1. /\ Head(S) \in Extent /\ Tail(S) \in Seq(Extent) /\ S = <<Head(S)>> \o Tail(S)
    BY <1>2, HeadTailProperties, ConcatSimplifications
  <2>2. Append(R, Head(S)) = R \o <<Head(S)>> /\ <<Head(S)>> \in Seq(Extent)
    BY <2>1, AppendIsConcat
  <2>3. (R \o <<Head(S)>>) \o Tail(S) = R \o (<<Head(S)>> \o Tail(S))
    BY <2>1, <2>2, ConcatAssociative
  <2> QED BY <2>1, <2>2, <2>3
<1>3. ASSUME S # <<>> PROVE (Append(R, Head(S)) \o Tail(S)) \o <<>> = (R \o S) \o <<>>
  BY <1>2, <1>3
<1> QED BY <1>1, <1>3

\* Extract adds one packet to what is found.
LEMMA FoundGrows ==
  ASSUME TypeOK, NEW e \in Extent
  PROVE  LET G == (returned \o stash) \o Append(packets, e)
         IN /\ Len(G) = Len(Found) + 1
            /\ \A k \in 1 .. Len(Found) : G[k] = Found[k]
            /\ G[Len(Found) + 1] = e
<1>1. returned \o stash \in Seq(Extent) /\ packets \in Seq(Extent)
  BY ConcatProperties DEF TypeOK
<1>2. (returned \o stash) \o Append(packets, e) = Append(Found, e)
  <2>1. Append(packets, e) = packets \o <<e>> /\ <<e>> \in Seq(Extent)
    BY <1>1, AppendIsConcat
  <2>2. Append(Found, e) = Found \o <<e>>
    BY FoundType, AppendIsConcat
  <2> QED BY <1>1, <2>1, <2>2, ConcatAssociative DEF Found
<1> QED BY <1>2, FoundType, AppendProperties

-----------------------------------------------------------------------------
(* Steps that leave the stream and what is found as they are.              *)

LEMMA StreamStays ==
  ASSUME IInv, UNCHANGED start, Found' = Found,
         ~lost' => ~lost /\ from' = from /\ (indicator' = indicator \/ indicator' = 0)
  PROVE  Increasing' /\ InStep' /\ PacketsAsWritten'
<1>1. Increasing'
  BY DEF IInv, Increasing
<1>2. InStep'
  BY DEF IInv, InStep
<1>3. PacketsAsWritten'
  BY DEF IInv, PacketsAsWritten
<1> QED BY <1>1, <1>2, <1>3

-----------------------------------------------------------------------------
(* The steps.                                                              *)

LEMMA TypeFacts ==
  ASSUME TypeOK
  PROVE  /\ Header \in Nat /\ Header > 0 /\ Deadline \in Nat
         /\ Len(start) \in Nat /\ Written \in Nat /\ Old = Deadline + 1
         /\ DOMAIN start = 1 .. Len(start) /\ \A k \in 1 .. Len(start) : start[k] \in Nat
<1>1. start \in Seq(Nat) /\ Len(start) > 0
  BY DEF TypeOK
<1>2. /\ Len(start) \in Nat /\ DOMAIN start = 1 .. Len(start)
      /\ \A k \in 1 .. Len(start) : start[k] \in Nat
  BY <1>1, LenProperties, ElementOfSeq
<1>3. Written \in Nat
  BY <1>1, <1>2 DEF Written
<1> QED BY <1>2, <1>3, LengthAssumption, BoundAssumption DEF Old

\* No two packets start at the same place.
LEMMA Separated ==
  ASSUME TypeOK, Increasing
  PROVE  \A j, k \in 1 .. Len(start) : j < k => start[j] < start[k]
BY TypeFacts DEF Increasing

LEMMA WriteStep ==
  ASSUME IInv, NEW l \in Length, Write(l)
  PROVE  IInv'
<1>0. TypeOK /\ l \in Nat /\ l > 0 /\ l >= Header
  BY LengthAssumption DEF IInv
<1>1. /\ start' = Append(start, Written + l)
      /\ UNCHANGED <<got, from, indicator, appear, packets, stash, returned, pc, lost>>
  BY DEF Write
<1>2. /\ start' \in Seq(Nat) /\ Len(start') = Len(start) + 1
      /\ \A k \in 1 .. Len(start) : start'[k] = start[k]
      /\ start'[Len(start) + 1] = Written + l
  <2>1. Written + l \in Nat
    BY <1>0, TypeFacts
  <2>2. start \in Seq(Nat)
    BY <1>0 DEF TypeOK
  <2> QED BY <1>1, <2>1, <2>2, AppendProperties
<1>3. Written' = Written + l
  BY <1>2 DEF Written
<1>4. TypeOK'
  <2>1. got' \in Nat /\ got' <= Written' /\ Len(start') > 0
    <3>1. got \in Nat /\ got <= Written
      BY <1>0 DEF TypeOK
    <3>2. Written \in Nat /\ Len(start) \in Nat
      BY <1>0, TypeFacts
    <3> QED BY <1>0, <1>1, <1>2, <1>3, <3>1, <3>2
  <2> QED BY <1>0, <1>1, <1>2, <2>1 DEF TypeOK, Old
<1>5. Increasing'
  <2> SUFFICES ASSUME NEW j \in 1 .. Len(start) + 1, NEW k \in 1 .. Len(start) + 1, j < k
               PROVE  start'[j] + Header <= start'[k]
    BY <1>2 DEF Increasing
  <2>1. j \in 1 .. Len(start) /\ start[j] <= Written /\ start[j] \in Nat
    BY <1>0, TypeFacts DEF IInv, Increasing, Written
  <2>2. CASE k \in 1 .. Len(start)
    BY <1>2, <2>1, <2>2 DEF IInv, Increasing
  <2>3. CASE k = Len(start) + 1
    BY <1>0, <1>2, <2>1, <2>3, TypeFacts
  <2> QED BY <1>0, <2>2, <2>3, TypeFacts
<1>6. Found' = Found
  BY <1>1 DEF Found
<1>7. InStep'
  <2> SUFFICES ASSUME ~lost
               PROVE  /\ Len(Found) < Len(start')
                      /\ from = start'[Len(Found) + 1]
                      /\ indicator # 0 => /\ Len(Found) + 1 < Len(start')
                                         /\ from + indicator = start'[Len(Found) + 2]
    BY <1>1, <1>6 DEF InStep
  <2>1. /\ Len(Found) < Len(start) /\ from = start[Len(Found) + 1]
        /\ indicator # 0 => /\ Len(Found) + 1 < Len(start)
                           /\ from + indicator = start[Len(Found) + 2]
    BY DEF IInv, InStep
  <2>2. Len(Found) \in Nat /\ Len(start) \in Nat
    BY <1>0, FoundType, TypeFacts
  <2>3. Len(Found) + 1 \in 1 .. Len(start)
    BY <2>1, <2>2
  <2>4. indicator # 0 => Len(Found) + 2 \in 1 .. Len(start)
    BY <2>1, <2>2
  <2> QED BY <1>2, <2>1, <2>2, <2>3, <2>4
<1>8. PacketsAsWritten'
  <2> SUFFICES ASSUME ~lost, NEW k \in 1 .. Len(Found)
               PROVE  Found[k] = <<start'[k], start'[k + 1]>>
    BY <1>1, <1>6 DEF PacketsAsWritten
  <2>1. k \in 1 .. Len(start) /\ k + 1 \in 1 .. Len(start)
    BY <1>0, FoundType, TypeFacts DEF IInv, InStep
  <2> QED BY <1>2, <2>1 DEF IInv, PacketsAsWritten
<1>9. NoneIsWhole'
  <2> SUFFICES ASSUME pc = "idle", ~lost, NEW k \in 1 .. Len(start) + 1, k > Len(Found) + 1
               PROVE  got < start'[k]
    BY <1>1, <1>2, <1>6 DEF NoneIsWhole
  <2>1. CASE k \in 1 .. Len(start)
    BY <1>2, <2>1 DEF IInv, NoneIsWhole
  <2>2. CASE k = Len(start) + 1
    BY <1>0, <1>2, <2>2, TypeFacts DEF TypeOK
  <2> QED BY <1>0, <2>1, <2>2, TypeFacts
<1> QED BY <1>4, <1>5, <1>7, <1>8, <1>9 DEF IInv

LEMMA ReadStashStep ==
  ASSUME IInv, ReadStash
  PROVE  IInv'
<1>0. TypeOK
  BY DEF IInv
<1>1. /\ stash # <<>> /\ packets = <<>> /\ pc = "idle"
      /\ returned' = Append(returned, Head(stash)) /\ stash' = Tail(stash)
      /\ UNCHANGED <<start, got, from, indicator, appear, packets, pc, lost>>
  BY <1>0 DEF ReadStash, TypeOK
<1>2. returned' \in Seq(Extent) /\ stash' \in Seq(Extent)
  BY <1>0, <1>1, HeadTailProperties, AppendProperties DEF TypeOK
<1>3. TypeOK'
  BY <1>0, <1>1, <1>2 DEF TypeOK, Written
<1>4. Found' = Found
  BY <1>0, <1>1, FoundMoves DEF Found, TypeOK
<1>5. NoneIsWhole'
  BY <1>1, <1>4 DEF IInv, NoneIsWhole
<1> QED BY <1>1, <1>3, <1>4, <1>5, StreamStays DEF IInv

LEMMA ReadConnStep ==
  ASSUME IInv, NEW n \in 1 .. Written - got, ReadConn(n)
  PROVE  IInv'
<1>0. TypeOK
  BY DEF IInv
<1>1. /\ stash = <<>> /\ packets = <<>> /\ n \in Nat /\ got' = got + n /\ got + n <= Written
      /\ from' = (IF TooOld THEN got ELSE from)
      /\ indicator' = (IF TooOld THEN 0 ELSE indicator)
      /\ lost' = (lost \/ (TooOld /\ Held > 0))
      /\ packets' = <<>> /\ pc' = "loop"
      /\ UNCHANGED <<start, appear, stash, returned>>
  BY <1>0, TypeFacts DEF ReadConn, TypeOK
<1>3. /\ got' \in Nat /\ got' <= Written' /\ from' \in Nat /\ from' <= got' /\ indicator' \in Nat
  BY <1>0, <1>1, TypeFacts DEF TypeOK, Written
<1>4. TypeOK'
  BY <1>0, <1>1, <1>3 DEF TypeOK, Old
<1>5. Found' = Found
  BY <1>1 DEF Found
<1>6. ~lost' => ~lost /\ from' = from /\ (indicator' = indicator \/ indicator' = 0)
  <2>1. got \in Nat /\ from \in Nat /\ from <= got
    BY <1>0 DEF TypeOK
  <2>2. ~lost' => ~lost /\ ~(TooOld /\ Held > 0)
    BY <1>1, Zenon
  <2>3. TooOld /\ ~(Held > 0) => from' = from /\ indicator' = 0
    BY <1>1, <2>1 DEF Held
  <2>4. ~TooOld => from' = from /\ indicator' = indicator
    BY <1>1
  <2> QED BY <2>2, <2>3, <2>4, Zenon
<1>7. NoneIsWhole'
  BY <1>1 DEF NoneIsWhole
<1> QED BY <1>1, <1>4, <1>5, <1>6, <1>7, StreamStays DEF IInv

LEMMA ExtractStep ==
  ASSUME IInv, Extract
  PROVE  IInv'
<1> DEFINE e == <<from, from + indicator>>
<1>0. TypeOK
  BY DEF IInv
<1>1. /\ pc = "loop" /\ indicator # 0 /\ got - from >= indicator
      /\ packets' = Append(packets, e)
      /\ from' = from + indicator /\ indicator' = 0
      /\ UNCHANGED <<start, got, appear, stash, returned, pc, lost>>
  BY DEF Extract, Held
<1>2. e \in Extent
  <2>1. from \in Nat /\ from + indicator \in Nat
    BY <1>0 DEF TypeOK
  <2> QED BY <2>1 DEF Extent
<1>3. packets' \in Seq(Extent)
  BY <1>0, <1>1, <1>2, AppendProperties DEF TypeOK
<1>4. TypeOK'
  BY <1>0, <1>1, <1>3 DEF TypeOK, Written
<1>5. /\ Len(Found') = Len(Found) + 1
      /\ \A k \in 1 .. Len(Found) : Found'[k] = Found[k]
      /\ Found'[Len(Found) + 1] = e
  BY <1>0, <1>1, <1>2, FoundGrows DEF Found
<1>6. Increasing'
  BY <1>1 DEF IInv, Increasing
<1>7. ASSUME ~lost
      PROVE  /\ Len(Found) + 1 < Len(start)
             /\ e = <<start[Len(Found) + 1], start[Len(Found) + 2]>>
             /\ from' = start[Len(Found) + 2]
  BY <1>1, <1>7 DEF IInv, InStep
<1>8. InStep'
  BY <1>0, <1>1, <1>5, <1>7, FoundType, TypeFacts DEF InStep
<1>9. PacketsAsWritten'
  <2> SUFFICES ASSUME ~lost, NEW k \in 1 .. Len(Found) + 1
               PROVE  Found'[k] = <<start[k], start[k + 1]>>
    BY <1>1, <1>5 DEF PacketsAsWritten
  <2>1. CASE k \in 1 .. Len(Found)
    BY <1>5, <2>1 DEF IInv, PacketsAsWritten
  <2>2. CASE k = Len(Found) + 1
    BY <1>0, <1>5, <1>7, <2>2, FoundType
  <2> QED BY <1>0, <2>1, <2>2, FoundType
<1>10. NoneIsWhole'
  BY <1>1 DEF NoneIsWhole
<1> QED BY <1>4, <1>6, <1>8, <1>9, <1>10 DEF IInv

\* What ParseEmbPacket finds in a stream in step is the length of the packet.
LEMMA ParseStep ==
  ASSUME IInv, Parse
  PROVE  IInv'
<1>0. TypeOK
  BY DEF IInv
<1>1. /\ indicator = 0 /\ indicator' \in Parsed /\ pc = "loop"
      /\ UNCHANGED <<start, got, from, appear, packets, stash, returned, pc, lost>>
  BY DEF Parse
<1>2. ASSUME NEW k \in 1 .. Len(start) - 1, start[k] = from
      PROVE  \E j \in 1 .. Len(start) - 1 : start[j] = from /\ indicator' = start[j + 1] - start[j]
  BY <1>1, <1>2 DEF Parsed
<1>3. ASSUME \A k \in 1 .. Len(start) - 1 : start[k] # from
      PROVE  got - from >= Header /\ indicator' \in Length
  BY <1>1, <1>3 DEF Parsed, Held
<1>4. indicator' \in Nat
  <2>1. ASSUME NEW j \in 1 .. Len(start) - 1 PROVE start[j + 1] - start[j] \in Nat
    <3>1. j \in 1 .. Len(start) /\ j + 1 \in 1 .. Len(start) /\ j < j + 1
      BY <1>0, TypeFacts
    <3>2. start[j] < start[j + 1] /\ start[j] \in Nat /\ start[j + 1] \in Nat
      BY <1>0, <3>1, TypeFacts, Separated DEF IInv
    <3> QED BY <3>2
  <2> QED BY <1>2, <1>3, <2>1, LengthAssumption
<1>5. TypeOK'
  BY <1>0, <1>1, <1>4 DEF TypeOK, Written
<1>6. Found' = Found
  BY <1>1 DEF Found
<1>7. Increasing' /\ PacketsAsWritten'
  BY <1>1, <1>6 DEF IInv, Increasing, PacketsAsWritten
<1>8. InStep'
  <2> DEFINE n == Len(Found) + 1
  <2> SUFFICES ASSUME ~lost
               PROVE  n < Len(start) /\ from + indicator' = start[n + 1]
    BY <1>1, <1>6 DEF IInv, InStep
  <2>1. n \in 1 .. Len(start) /\ from = start[n]
    BY <1>0, FoundType, TypeFacts DEF IInv, InStep
  <2>2. CASE \A k \in 1 .. Len(start) - 1 : start[k] # from
    <3>1. n = Len(start)
      <4>1. n \notin 1 .. Len(start) - 1 /\ Len(start) \in Nat
        BY <1>0, <2>1, <2>2, TypeFacts
      <4> HIDE DEF n
      <4> QED BY <2>1, <4>1
    <3>2. got <= from
      BY <1>0, <2>1, <3>1 DEF TypeOK, Written
    <3> QED BY <1>0, <1>3, <2>2, <3>2, TypeFacts DEF TypeOK
  <2>3. CASE \E k \in 1 .. Len(start) - 1 : start[k] = from
    <3>1. PICK j \in 1 .. Len(start) - 1 : start[j] = from /\ indicator' = start[j + 1] - start[j]
      BY <1>2, <2>3
    <3>2. j = n
      BY <1>0, <2>1, <3>1, TypeFacts, Separated DEF IInv
    <3>3. start[j] \in Nat /\ start[j + 1] \in Nat
      BY <1>0, <3>1, TypeFacts
    <3> QED BY <1>0, <3>1, <3>2, <3>3, TypeFacts
  <2> QED BY <2>2, <2>3
<1>9. NoneIsWhole'
  BY <1>1 DEF NoneIsWhole
<1> QED BY <1>5, <1>7, <1>8, <1>9 DEF IInv

LEMMA BreakStep ==
  ASSUME IInv, Break
  PROVE  IInv'
<1>0. TypeOK
  BY DEF IInv
<1>1. /\ stash = <<>> /\ stash' = packets /\ packets' = <<>> /\ pc' = "idle"
      /\ appear' = IF packets # <<>> THEN 0 ELSE appear
      /\ UNCHANGED <<start, got, from, indicator, returned, lost>>
  BY <1>0 DEF Break, TypeOK
<1>2. packets' \in Seq(Extent) /\ appear' \in 0 .. Old
  BY <1>0, <1>1, TypeFacts DEF TypeOK
<1>3. TypeOK'
  BY <1>0, <1>1, <1>2 DEF TypeOK, Written, Old
<1>4. Found' = Found
  BY <1>0, <1>1, FoundMoves DEF Found, TypeOK
<1>5. NoneIsWhole'
  <2> DEFINE n == Len(Found) + 1
  <2> SUFFICES ASSUME ~lost, NEW k \in 1 .. Len(start), k > n
               PROVE  got < start[k]
    BY <1>1, <1>4 DEF NoneIsWhole
  <2>1. /\ n \in 1 .. Len(start) /\ from = start[n] /\ Len(start) \in Nat
        /\ indicator # 0 => n < Len(start) /\ from + indicator = start[n + 1]
    BY <1>0, FoundType, TypeFacts DEF IInv, InStep
  <2>2. got \in Nat /\ from \in Nat /\ indicator \in Nat /\ start[k] \in Nat /\ Header \in Nat
    BY <1>0, TypeFacts DEF TypeOK
  <2>3. n \in 1 .. Len(start) - 1 /\ n + 1 \in 1 .. Len(start) /\ (k = n + 1 \/ n + 1 < k)
    <3> HIDE DEF n
    <3> QED BY <2>1
  <2>4. from + Header <= start[k] /\ start[n + 1] <= start[k]
    <3>1. start[n] + Header <= start[k] /\ (n + 1 < k => start[n + 1] + Header <= start[k])
      BY <2>1, <2>3 DEF IInv, Increasing
    <3>2. start[n + 1] \in Nat
      BY <1>0, <2>3, TypeFacts
    <3> HIDE DEF n
    <3> QED BY <2>1, <2>2, <2>3, <3>1, <3>2
  <2> HIDE DEF n
  <2>5. IF indicator = 0 THEN got - from < Header ELSE got - from < indicator
    BY <2>1, <2>3 DEF Break, MayNotParse, Held
  <2>6. CASE indicator = 0
    BY <2>2, <2>4, <2>5, <2>6
  <2>7. CASE indicator # 0
    <3>1. from + indicator <= start[k] /\ got - from < indicator
      BY <2>1, <2>4, <2>5, <2>7
    <3> QED BY <2>2, <3>1
  <2> QED BY <2>6, <2>7
<1> QED BY <1>1, <1>3, <1>4, <1>5, StreamStays DEF IInv

LEMMA TickStep ==
  ASSUME IInv, Tick
  PROVE  IInv'
<1>0. TypeOK
  BY DEF IInv
<1>1. UNCHANGED <<start, got, from, indicator, packets, stash, returned, pc, lost>>
  BY DEF Tick
<1>2. appear' \in 0 .. Old
  BY <1>0, TypeFacts DEF Tick, Older, TypeOK, Old
<1>3. TypeOK'
  BY <1>0, <1>1, <1>2 DEF TypeOK, Written, Old
<1>4. Found' = Found
  BY <1>1 DEF Found
<1>5. NoneIsWhole'
  BY <1>1, <1>4 DEF IInv, NoneIsWhole
<1> QED BY <1>1, <1>3, <1>4, <1>5, StreamStays DEF IInv

-----------------------------------------------------------------------------
(* The theorems.                                                           *)

\* IInv holds in every state: however the stream is cut into reads, and
\* whenever the deadline discards, the reader is in step or has lost bytes.
THEOREM Inductive == Spec => []IInv
<1>1. Init => IInv
  <2> SUFFICES ASSUME Init PROVE IInv
    OBVIOUS
  <2>1. /\ start = <<0>> /\ got = 0 /\ from = 0 /\ indicator = 0 /\ appear = 0 /\ packets = <<>>
        /\ stash = <<>> /\ returned = <<>> /\ pc = "idle" /\ lost = FALSE
    BY DEF Init
  <2>2. TypeOK
    BY <2>1, BoundAssumption DEF TypeOK, Written, Old
  <2>3. Len(Found) = 0 /\ Len(start) = 1 /\ start[1] = 0
    BY <2>1, <2>2, FoundType
  <2>4. Increasing /\ InStep /\ PacketsAsWritten /\ NoneIsWhole
    BY <2>1, <2>3 DEF Increasing, InStep, PacketsAsWritten, NoneIsWhole
  <2> QED BY <2>2, <2>4 DEF IInv
<1>2. IInv /\ [Next]_vars => IInv'
  <2> SUFFICES ASSUME IInv, [Next]_vars PROVE IInv'
    OBVIOUS
  <2>1. CASE UNCHANGED vars
    <3>1. Found' = Found /\ Written' = Written
      BY <2>1 DEF Found, Written, vars
    <3>2. TypeOK'
      BY <2>1, <3>1 DEF IInv, TypeOK, vars, Old
    <3>3. NoneIsWhole'
      BY <2>1, <3>1 DEF IInv, NoneIsWhole, vars
    <3> QED BY <2>1, <3>1, <3>2, <3>3, StreamStays DEF IInv, vars
  <2> QED BY <2>1, WriteStep, ReadStashStep, ReadConnStep, ExtractStep, ParseStep, BreakStep, TickStep
          DEF Next
<1> QED BY <1>1, <1>2, PTL DEF Spec

\* The packets that Append finds are the packets that the peer wrote, in
\* order and each once (PacketsAsWritten), for all lengths of packets and all
\* ways to cut the stream, until bytes are discarded.
THEOREM FoundAsWritten == Spec => []PacketsAsWritten
<1>1. IInv => PacketsAsWritten
  BY DEF IInv
<1> QED BY <1>1, Inductive, PTL

\* A deadline that discards for the first time discards less than a packet
\* (DiscardsNoWholePacket), for all lengths of packets, every deadline and all
\* ways to cut the stream.
THEOREM DiscardsLessThanAPacket == Spec => DiscardsNoWholePacket
<1>1. ASSUME IInv, [Next]_vars, ~lost, lost'
      PROVE  \E k \in 1 .. Len(start) - 1 : start[k] = from /\ got < start[k + 1]
  <2> DEFINE n == Len(Found) + 1
  <2>0. TypeOK
    BY <1>1 DEF IInv
  <2>1. PICK m \in 1 .. Written - got : ReadConn(m)
    <3>1. ~(UNCHANGED lost)
      BY <1>1, Zenon
    <3> QED BY <1>1, <3>1 DEF Next, Write, ReadStash, Extract, Parse, Break, Tick, vars
  <2>2. pc = "idle" /\ lost' = (lost \/ (TooOld /\ Held > 0))
    BY <2>1 DEF ReadConn
  <2>3. got > from /\ got \in Nat /\ from \in Nat /\ got <= Written
    <3>1. Held > 0
      BY <1>1, <2>2, Zenon
    <3>2. got \in Nat /\ from \in Nat /\ got <= Written
      BY <2>0 DEF TypeOK
    <3> QED BY <3>1, <3>2 DEF Held
  <2>4. n \in 1 .. Len(start) /\ from = start[n] /\ Len(start) \in Nat /\ n \in Nat
    BY <1>1, <2>0, FoundType, TypeFacts DEF IInv, InStep
  <2>5. \A k \in 1 .. Len(start) : k > n => got < start[k]
    BY <1>1, <2>2 DEF IInv, NoneIsWhole
  <2> HIDE DEF n
  <2>6. n # Len(start)
    BY <2>3, <2>4 DEF Written
  <2>7. n \in 1 .. Len(start) - 1 /\ n + 1 \in 1 .. Len(start) /\ n + 1 > n
    BY <2>4, <2>6
  <2> QED BY <2>4, <2>5, <2>7
<1>2. IInv /\ [Next]_vars =>
        [~lost /\ lost' => \E k \in 1 .. Len(start) - 1 : start[k] = from /\ got < start[k + 1]]_vars
  BY <1>1
<1> QED BY <1>2, Inductive, PTL DEF Spec, DiscardsNoWholePacket

=============================================================================
