--------------------------- MODULE Devices_proofs ---------------------------
(***************************************************************************)
(* Proofs about Devices, for all lists of interfaces, all lists of devices *)
(* of libpcap and all addresses.                                           *)
(***************************************************************************)
EXTENDS Devices, SequenceTheorems, WellFoundedInduction, TLAPS

-----------------------------------------------------------------------------
(* The inductive invariant.                                                *)

\* The inputs do not change; what is found are interfaces and their names.
TypeOK ==
  /\ inters \in Interfaces
  /\ devs \in PcapDevs
  /\ blacklist \in SUBSET DOMAIN devs
  /\ name \in [DOMAIN inters -> DOMAIN devs \cup {None}]
  /\ mid \in Seq(DOMAIN inters)
  /\ next \in Nat \ {0}
  /\ found \in Seq(Device)
  /\ trying \in Seq(Device)
  /\ pc \in {"match", "found", "upstream", "started", "fatal"}

\* What is on the blacklist shares its interface with another device.
BlacklistIsAmbiguous ==
  \A p \in blacklist : Match(p) # None /\ \E q \in DOMAIN devs : q # p /\ Match(q) = Match(p)

\* And so are all devices of that interface, but those that are to come: they
\* will find the interface taken.
BlacklistIsClosed ==
  \A p \in blacklist, q \in DOMAIN devs : Match(q) = Match(p) =>
    q \in blacklist \/ (q >= next /\ name[Match(q)] # None)

\* An interface has the name of a device that was matched with it, and every
\* device so far gave its name or is on the blacklist.
NamesAreMatched ==
  /\ \A i \in DOMAIN inters : name[i] # None => name[i] < next /\ Match(name[i]) = i
  /\ \A p \in DOMAIN devs : p < next /\ Match(p) # None => p \in blacklist \/ name[Match(p)] = p

\* Every interface with a name waits in mid, is in the result, or its device
\* is on the blacklist; and it is so once.
EachIsListedOnce ==
  /\ \A k \in DOMAIN mid : name[mid[k]] # None
  /\ \A i \in DOMAIN inters : name[i] # None =>
       \/ name[i] \in blacklist
       \/ \E k \in DOMAIN mid : mid[k] = i
       \/ \E k \in DOMAIN found : found[k].inter = i
  /\ \A j, k \in DOMAIN mid : mid[j] = mid[k] => j = k \/ name[mid[j]] \in blacklist
  /\ \A k \in DOMAIN found :
       found[k].dev = name[found[k].inter] /\ found[k].dev \notin blacklist
  /\ \A j \in DOMAIN found, k \in DOMAIN mid :
       found[j].inter = mid[k] => name[mid[k]] \in blacklist
  /\ \A j, k \in DOMAIN found : found[j].inter = found[k].inter => j = k
  /\ pc = "match" /\ next \in DOMAIN devs => found = <<>>

\* The result is complete once it is returned.
ReturnedIsComplete == pc \in {"found", "upstream"} => next \notin DOMAIN devs /\ mid = <<>>

\* The devices to try are devices that were found.
TriedAreFound ==
  pc = "upstream" => \A k \in DOMAIN trying : Claims(trying[k].inter) = {trying[k].dev}

IInv ==
  /\ TypeOK
  /\ BlacklistIsAmbiguous /\ BlacklistIsClosed /\ NamesAreMatched /\ EachIsListedOnce
  /\ ReturnedIsComplete /\ TriedAreFound
  /\ StartsWithGateway

-----------------------------------------------------------------------------
(* What a device is matched with.                                          *)

LEMMA LeastByRelation ==
  ASSUME NEW S \in SUBSET Nat, NEW R,
         \E x \in S : \A y \in S : <<y, x>> \notin R,
         \A x, y \in Nat : y < x => <<y, x>> \in R
  PROVE  \E x \in S : \A y \in S : x <= y
<1>1. PICK x \in S : \A y \in S : <<y, x>> \notin R
  OBVIOUS
<1>2. ASSUME NEW y \in S PROVE x <= y
  <2>1. ~(y < x)
    BY <1>1, Zenon
  <2>2. x \in Nat /\ y \in Nat
    OBVIOUS
  <2> QED BY <2>1, <2>2
<1> QED BY <1>2

LEMMA MinInSet ==
  ASSUME NEW S \in SUBSET Nat, S # {}
  PROVE  Min(S) \in S
<1>1. PICK R : R = OpToRel(<, Nat)
  OBVIOUS
<1>2. \E x \in S : \A y \in S : <<y, x>> \notin R
  <2>1. IsWellFoundedOn(R, Nat)
    BY <1>1, NatLessThanWellFounded, Zenon
  <2> QED BY <2>1, WFMin, Zenon
<1>3. \A x, y \in Nat : y < x => <<y, x>> \in R
  BY <1>1, Zenon DEF OpToRel
<1>4. \E x \in S : \A y \in S : x <= y
  BY <1>2, <1>3, LeastByRelation, Zenon
<1> QED BY <1>4, Zenon DEF Min

LEMMA MatchType ==
  ASSUME TypeOK, NEW p
  PROVE  Match(p) \in DOMAIN inters \cup {None}
<1>1. DOMAIN inters \in SUBSET Nat
  <2>1. inters \in Seq([addrs : SUBSET Address, loop : BOOLEAN, up : BOOLEAN])
    BY InputAssumption DEF TypeOK
  <2> QED BY <2>1, LenProperties
<1>2. ASSUME NEW S \in SUBSET DOMAIN inters PROVE First(S) \in DOMAIN inters \cup {None}
  <2>1. S # {} => Min(S) \in S
    BY <1>1, MinInSet
  <2> QED BY <2>1 DEF First
<1>3. FindLoopDev \in DOMAIN inters \cup {None}
  BY <1>2 DEF FindLoopDev, Usable
<1>4. \A a : FindDev(a) \in DOMAIN inters \cup {None}
  BY <1>2 DEF FindDev, Usable
<1> QED BY <1>3, <1>4 DEF Match

LEMMA MatchStays ==
  ASSUME UNCHANGED <<inters, devs>>
  PROVE  /\ \A p : Match(p)' = Match(p)
         /\ \A i : Claims(i)' = Claims(i)
         /\ Device' = Device
<1>1. \A p : Match(p)' = Match(p)
  BY DEF Match, FindDev, FindLoopDev, First, Usable
<1> QED BY <1>1 DEF Claims, Device

LEMMA TypeFacts ==
  ASSUME TypeOK
  PROVE  /\ DOMAIN devs \in SUBSET Nat /\ None \notin Nat
         /\ DOMAIN mid = 1 .. Len(mid) /\ Len(mid) \in Nat
         /\ DOMAIN found = 1 .. Len(found) /\ Len(found) \in Nat
         /\ \A k \in DOMAIN mid : mid[k] \in DOMAIN inters
         /\ \A k \in DOMAIN found : found[k].inter \in DOMAIN inters /\ found[k].dev \in DOMAIN devs
<1>1. devs \in Seq([addrs : Seq(Address), loop : BOOLEAN])
  BY InputAssumption DEF TypeOK
<1>2. DOMAIN devs \in SUBSET Nat
  BY <1>1, LenProperties
<1>3. mid \in Seq(DOMAIN inters) /\ found \in Seq(Device)
  BY DEF TypeOK
<1>4. /\ DOMAIN mid = 1 .. Len(mid) /\ Len(mid) \in Nat
      /\ DOMAIN found = 1 .. Len(found) /\ Len(found) \in Nat
  BY <1>3, LenProperties
<1>5. (\A k \in DOMAIN mid : mid[k] \in DOMAIN inters) /\ \A k \in DOMAIN found : found[k] \in Device
  BY <1>3, <1>4, ElementOfSeq
<1> QED BY <1>2, <1>4, <1>5, InputAssumption DEF Device

-----------------------------------------------------------------------------
(* FindAllDevs.                                                            *)

LEMMA PassStep ==
  ASSUME IInv, Pass
  PROVE  IInv'
<1>0. /\ TypeOK /\ BlacklistIsAmbiguous /\ BlacklistIsClosed /\ NamesAreMatched
      /\ EachIsListedOnce
  BY DEF IInv
<1>1. /\ pc = "match" /\ next \in DOMAIN devs /\ next \in Nat /\ next' = next + 1
      /\ next \in blacklist \/ Match(next) = None
      /\ UNCHANGED <<inters, devs, blacklist, name, mid, found, trying, pc>>
  BY <1>0 DEF Pass, input, choice, TypeOK
<1>2. /\ \A p : Match(p)' = Match(p)
      /\ Device' = Device
  BY <1>1, MatchStays
<1>3. TypeOK'
  BY <1>0, <1>1, <1>2 DEF TypeOK
<1>4. BlacklistIsAmbiguous'
  BY <1>0, <1>1, <1>2 DEF BlacklistIsAmbiguous
<1>5. \A q \in DOMAIN devs : q \in Nat
  BY <1>0, TypeFacts
<1>6. BlacklistIsClosed'
  <2> SUFFICES ASSUME NEW p \in blacklist, NEW q \in DOMAIN devs, Match(q) = Match(p),
                      q \notin blacklist
               PROVE  q >= next + 1 /\ name[Match(q)] # None
    BY <1>1, <1>2 DEF BlacklistIsClosed
  <2>1. q >= next /\ name[Match(q)] # None
    BY <1>0 DEF BlacklistIsClosed
  <2>2. q # next
    BY <1>0, <1>1 DEF BlacklistIsAmbiguous
  <2> QED BY <1>1, <1>5, <2>1, <2>2
<1>7. NamesAreMatched'
  <2>1. \A i \in DOMAIN inters : name[i] # None => name[i] < next + 1 /\ Match(name[i]) = i
    BY <1>0, <1>1, <1>5 DEF NamesAreMatched, TypeOK
  <2>2. ASSUME NEW p \in DOMAIN devs, p < next + 1, Match(p) # None
        PROVE  p \in blacklist \/ name[Match(p)] = p
    <3>1. CASE p = next
      BY <1>1, <2>2, <3>1
    <3>2. CASE p # next
      <4>1. p < next
        BY <1>1, <1>5, <2>2, <3>2
      <4> QED BY <1>0, <2>2, <4>1 DEF NamesAreMatched
    <3> QED BY <3>1, <3>2
  <2> QED BY <1>1, <1>2, <2>1, <2>2 DEF NamesAreMatched
<1>8. EachIsListedOnce'
  <2>1. found = <<>>
    BY <1>0, <1>1 DEF EachIsListedOnce
  <2> QED BY <1>0, <1>1, <2>1 DEF EachIsListedOnce
<1>9. ReturnedIsComplete' /\ TriedAreFound' /\ StartsWithGateway'
  BY <1>1 DEF ReturnedIsComplete, TriedAreFound, StartsWithGateway
<1> QED BY <1>3, <1>4, <1>6, <1>7, <1>8, <1>9 DEF IInv

LEMMA AppendElements ==
  ASSUME NEW S, NEW s \in Seq(S), NEW e \in S
  PROVE  /\ Append(s, e) \in Seq(S)
         /\ \A k \in DOMAIN s : k \in DOMAIN Append(s, e) /\ Append(s, e)[k] = s[k]
         /\ Len(s) + 1 \in DOMAIN Append(s, e) /\ Append(s, e)[Len(s) + 1] = e
         /\ Len(s) + 1 \notin DOMAIN s
         /\ \A k \in DOMAIN Append(s, e) : k \in DOMAIN s \/ k = Len(s) + 1
<1>1. DOMAIN s = 1 .. Len(s) /\ Len(s) \in Nat
  BY LenProperties
<1>2. /\ Append(s, e) \in Seq(S)
      /\ Len(Append(s, e)) = Len(s) + 1
      /\ \A k \in 1 .. Len(s) : Append(s, e)[k] = s[k]
      /\ Append(s, e)[Len(s) + 1] = e
  BY AppendProperties
<1>3. DOMAIN Append(s, e) = 1 .. (Len(s) + 1)
  BY <1>2, LenProperties
<1> QED BY <1>1, <1>2, <1>3

LEMMA TailElements ==
  ASSUME NEW S, NEW s \in Seq(S), s # <<>>
  PROVE  /\ Tail(s) \in Seq(S)
         /\ 1 \in DOMAIN s /\ Head(s) = s[1] /\ s[1] \in S
         /\ \A k \in DOMAIN Tail(s) : k + 1 \in DOMAIN s /\ Tail(s)[k] = s[k + 1] /\ k + 1 # 1
         /\ \A k \in DOMAIN s : k # 1 => k - 1 \in DOMAIN Tail(s) /\ Tail(s)[k - 1] = s[k]
<1>1. DOMAIN s = 1 .. Len(s) /\ Len(s) \in Nat /\ Len(s) # 0
  BY LenProperties, EmptySeq
<1>2. /\ Tail(s) \in Seq(S)
      /\ Len(Tail(s)) = Len(s) - 1
      /\ \A k \in 1 .. Len(Tail(s)) : Tail(s)[k] = s[k + 1]
  BY HeadTailProperties
<1>3. DOMAIN Tail(s) = 1 .. (Len(s) - 1)
  BY <1>2, LenProperties
<1>4. 1 \in DOMAIN s /\ Head(s) = s[1] /\ s[1] \in S
  BY <1>1, ElementOfSeq
<1>5. \A k \in DOMAIN Tail(s) : k + 1 \in DOMAIN s /\ Tail(s)[k] = s[k + 1] /\ k + 1 # 1
  BY <1>1, <1>2, <1>3
<1>6. \A k \in DOMAIN s : k # 1 => k - 1 \in DOMAIN Tail(s) /\ Tail(s)[k - 1] = s[k]
  BY <1>1, <1>2, <1>3
<1> QED BY <1>2, <1>4, <1>5, <1>6

LEMMA ClaimStep ==
  ASSUME IInv, Claim
  PROVE  IInv'
<1>0. /\ TypeOK /\ BlacklistIsAmbiguous /\ BlacklistIsClosed /\ NamesAreMatched
      /\ EachIsListedOnce
  BY DEF IInv
<1>1. PICK d : d = Match(next)
  OBVIOUS
<1>2. /\ pc = "match" /\ next \in DOMAIN devs /\ next \in Nat /\ next' = next + 1
      /\ next \notin blacklist /\ d # None /\ name[d] = None
      /\ name' = [name EXCEPT ![d] = next] /\ mid' = Append(mid, d)
      /\ UNCHANGED <<inters, devs, blacklist, found, trying, pc>>
  BY <1>0, <1>1 DEF Claim, input, choice, TypeOK
<1>3. /\ \A p : Match(p)' = Match(p)
      /\ Device' = Device
  BY <1>2, MatchStays
<1>4. d \in DOMAIN inters
  BY <1>0, <1>1, <1>2, MatchType
<1>5. /\ \A q \in DOMAIN devs : q \in Nat /\ q # None
      /\ mid \in Seq(DOMAIN inters)
      /\ name \in [DOMAIN inters -> DOMAIN devs \cup {None}]
  BY <1>0, TypeFacts DEF TypeOK
<1>6. /\ mid' \in Seq(DOMAIN inters)
      /\ \A k \in DOMAIN mid : k \in DOMAIN mid' /\ mid'[k] = mid[k]
      /\ Len(mid) + 1 \in DOMAIN mid' /\ mid'[Len(mid) + 1] = d
      /\ \A k \in DOMAIN mid' : k \in DOMAIN mid \/ k = Len(mid) + 1
  BY <1>2, <1>4, <1>5, AppendElements
<1>7. /\ name' \in [DOMAIN inters -> DOMAIN devs \cup {None}]
      /\ name'[d] = next
      /\ \A i \in DOMAIN inters : i # d => name'[i] = name[i]
  BY <1>2, <1>4, <1>5
<1>8. TypeOK'
  BY <1>0, <1>2, <1>3, <1>6, <1>7 DEF TypeOK
<1>9. BlacklistIsAmbiguous'
  BY <1>0, <1>2, <1>3 DEF BlacklistIsAmbiguous
<1>10. BlacklistIsClosed'
  <2> SUFFICES ASSUME NEW p \in blacklist, NEW q \in DOMAIN devs, Match(q) = Match(p),
                      q \notin blacklist
               PROVE  q >= next + 1 /\ name'[Match(q)] # None
    BY <1>2, <1>3 DEF BlacklistIsClosed
  <2>1. q >= next /\ name[Match(q)] # None
    BY <1>0 DEF BlacklistIsClosed
  <2>2. q # next /\ Match(q) # d
    BY <1>1, <1>2, <2>1
  <2>3. Match(q) \in DOMAIN inters
    <3>1. Match(q) # None
      BY <1>0 DEF BlacklistIsAmbiguous
    <3> QED BY <1>0, <3>1, MatchType
  <2>4. name'[Match(q)] # None
    BY <1>7, <2>1, <2>2, <2>3
  <2> QED BY <1>2, <1>5, <2>1, <2>2, <2>4
<1>11. NamesAreMatched'
  <2>1. ASSUME NEW i \in DOMAIN inters, name'[i] # None
        PROVE  name'[i] < next + 1 /\ Match(name'[i]) = i
    <3>1. CASE i = d
      BY <1>1, <1>2, <1>7, <3>1
    <3>2. CASE i # d
      <4>1. name'[i] = name[i] /\ name[i] \in DOMAIN devs
        BY <1>5, <1>7, <2>1, <3>2
      <4>2. name[i] < next /\ Match(name[i]) = i
        BY <1>0, <2>1, <4>1 DEF NamesAreMatched
      <4> QED BY <1>2, <1>5, <4>1, <4>2
    <3> QED BY <3>1, <3>2
  <2>2. ASSUME NEW p \in DOMAIN devs, p < next + 1, Match(p) # None
        PROVE  p \in blacklist \/ name'[Match(p)] = p
    <3>1. CASE p = next
      BY <1>1, <1>7, <3>1
    <3>2. CASE p # next
      <4>1. p < next
        BY <1>2, <1>5, <2>2, <3>2
      <4>2. p \in blacklist \/ name[Match(p)] = p
        BY <1>0, <2>2, <4>1 DEF NamesAreMatched
      <4>3. Match(p) \in DOMAIN inters
        BY <1>0, <2>2, MatchType
      <4> QED BY <1>2, <1>5, <1>7, <4>2, <4>3
    <3> QED BY <3>1, <3>2
  <2> QED BY <1>2, <1>3, <2>1, <2>2 DEF NamesAreMatched
<1>12. EachIsListedOnce'
  <2>1. found = <<>> /\ found' = <<>>
    BY <1>0, <1>2 DEF EachIsListedOnce
  <2>2. DOMAIN found' = {}
    BY <2>1
  <2>3. \A k \in DOMAIN mid : mid[k] \in DOMAIN inters /\ mid[k] # d /\ name'[mid[k]] = name[mid[k]]
    <3>1. \A k \in DOMAIN mid : mid[k] \in DOMAIN inters
      BY <1>0, TypeFacts
    <3>2. \A k \in DOMAIN mid : name[mid[k]] # None
      BY <1>0 DEF EachIsListedOnce
    <3> QED BY <1>2, <1>7, <3>1, <3>2
  <2>4. \A k \in DOMAIN mid' : name'[mid'[k]] # None
    <3>1. \A k \in DOMAIN mid : name[mid[k]] # None
      BY <1>0 DEF EachIsListedOnce
    <3> QED BY <1>2, <1>5, <1>6, <1>7, <2>3, <3>1
  <2>5. ASSUME NEW i \in DOMAIN inters, name'[i] # None
        PROVE  name'[i] \in blacklist \/ \E k \in DOMAIN mid' : mid'[k] = i
    <3>1. CASE i = d
      BY <1>6, <3>1
    <3>2. CASE i # d
      <4>1. name[i] \in blacklist \/ \E k \in DOMAIN mid : mid[k] = i
        BY <1>0, <1>7, <2>1, <2>5, <3>2 DEF EachIsListedOnce
      <4> QED BY <1>6, <1>7, <3>2, <4>1
    <3> QED BY <3>1, <3>2
  <2>6. ASSUME NEW j \in DOMAIN mid', NEW k \in DOMAIN mid', mid'[j] = mid'[k]
        PROVE  j = k \/ name'[mid'[j]] \in blacklist
    <3>1. CASE mid'[j] = d
      BY <1>6, <2>3, <2>6, <3>1
    <3>2. CASE mid'[j] # d
      <4>1. /\ j \in DOMAIN mid /\ k \in DOMAIN mid
            /\ mid'[j] = mid[j] /\ mid'[k] = mid[k] /\ mid[j] = mid[k]
        BY <1>6, <2>6, <3>2
      <4>2. j = k \/ name[mid[j]] \in blacklist
        BY <1>0, <4>1 DEF EachIsListedOnce
      <4> QED BY <2>3, <4>1, <4>2
    <3> QED BY <3>1, <3>2
  <2> QED BY <1>2, <2>1, <2>2, <2>4, <2>5, <2>6 DEF EachIsListedOnce
<1>13. ReturnedIsComplete' /\ TriedAreFound' /\ StartsWithGateway'
  BY <1>2 DEF ReturnedIsComplete, TriedAreFound, StartsWithGateway
<1> QED BY <1>8, <1>9, <1>10, <1>11, <1>12, <1>13 DEF IInv

LEMMA ConflictStep ==
  ASSUME IInv, Conflict
  PROVE  IInv'
<1>0. /\ TypeOK /\ BlacklistIsAmbiguous /\ BlacklistIsClosed /\ NamesAreMatched
      /\ EachIsListedOnce
  BY DEF IInv
<1>1. PICK d : d = Match(next)
  OBVIOUS
<1>2. PICK m : m = name[d]
  OBVIOUS
<1>3. /\ pc = "match" /\ next \in DOMAIN devs /\ next \in Nat /\ next' = next + 1
      /\ next \notin blacklist /\ d # None /\ m # None
      /\ blacklist' = blacklist \cup {next, m}
      /\ \/ name' = [name EXCEPT ![d] = next] /\ mid' = Append(mid, d)
         \/ name' = name /\ mid' = mid
      /\ UNCHANGED <<inters, devs, found, trying, pc>>
  BY <1>0, <1>1, <1>2 DEF Conflict, input, choice, TypeOK
<1>4. /\ \A p : Match(p)' = Match(p)
      /\ Device' = Device
  BY <1>3, MatchStays
<1>5. d \in DOMAIN inters
  BY <1>0, <1>1, <1>3, MatchType
<1>6. /\ \A q \in DOMAIN devs : q \in Nat /\ q # None
      /\ mid \in Seq(DOMAIN inters)
      /\ name \in [DOMAIN inters -> DOMAIN devs \cup {None}]
      /\ blacklist \in SUBSET DOMAIN devs
  BY <1>0, TypeFacts DEF TypeOK
<1>7. m \in DOMAIN devs /\ m \in Nat /\ m < next /\ Match(m) = d
  BY <1>0, <1>2, <1>3, <1>5, <1>6 DEF NamesAreMatched
<1>8. /\ mid' \in Seq(DOMAIN inters)
      /\ \A k \in DOMAIN mid : k \in DOMAIN mid' /\ mid'[k] = mid[k]
      /\ \A k \in DOMAIN mid' : k \in DOMAIN mid \/ mid'[k] = d
  <2>1. CASE mid' = Append(mid, d)
    BY <1>5, <1>6, <2>1, AppendElements
  <2>2. CASE mid' = mid
    BY <1>6, <2>2
  <2> QED BY <1>3, <2>1, <2>2
<1>9. /\ name' \in [DOMAIN inters -> DOMAIN devs \cup {None}]
      /\ name'[d] \in {next, m}
      /\ \A i \in DOMAIN inters : i # d => name'[i] = name[i]
  BY <1>2, <1>3, <1>5, <1>6
<1>10. \A i \in DOMAIN inters : name[i] # None <=> name'[i] # None
  BY <1>2, <1>3, <1>5, <1>6, <1>9
<1>11. TypeOK'
  BY <1>0, <1>3, <1>4, <1>7, <1>8, <1>9 DEF TypeOK
<1>12. BlacklistIsAmbiguous'
  <2> SUFFICES ASSUME NEW p \in blacklist \cup {next, m}
               PROVE  Match(p) # None /\ \E q \in DOMAIN devs : q # p /\ Match(q) = Match(p)
    BY <1>3, <1>4 DEF BlacklistIsAmbiguous
  <2>1. CASE p \in blacklist
    BY <1>0, <2>1 DEF BlacklistIsAmbiguous
  <2>2. CASE p \in {next, m}
    BY <1>1, <1>3, <1>7, <2>2
  <2> QED BY <2>1, <2>2
<1>13. BlacklistIsClosed'
  <2> SUFFICES ASSUME NEW p \in blacklist \cup {next, m}, NEW q \in DOMAIN devs,
                      Match(q) = Match(p), q \notin blacklist \cup {next, m}
               PROVE  q >= next + 1 /\ name'[Match(q)] # None
    BY <1>3, <1>4 DEF BlacklistIsClosed
  <2>1. q >= next /\ name[Match(q)] # None
    <3>1. CASE p \in blacklist
      BY <1>0, <3>1 DEF BlacklistIsClosed
    <3>2. CASE p \in {next, m}
      <4>1. Match(q) = d
        BY <1>1, <1>7, <3>2
      <4>2. ~(q < next)
        BY <1>0, <1>2, <1>3, <4>1 DEF NamesAreMatched
      <4> QED BY <1>2, <1>3, <1>6, <4>1, <4>2
    <3> QED BY <3>1, <3>2
  <2>2. Match(q) \in DOMAIN inters
    <3>1. Match(q) # None
      BY <1>0, <1>1, <1>3, <1>7 DEF BlacklistIsAmbiguous
    <3> QED BY <1>0, <3>1, MatchType
  <2>3. name'[Match(q)] # None
    BY <1>10, <2>1, <2>2
  <2> QED BY <1>3, <1>6, <2>1, <2>3
<1>14. NamesAreMatched'
  <2>1. ASSUME NEW i \in DOMAIN inters, name'[i] # None
        PROVE  name'[i] < next + 1 /\ Match(name'[i]) = i
    <3>1. CASE i = d
      BY <1>1, <1>3, <1>7, <1>9, <3>1
    <3>2. CASE i # d
      <4>1. name'[i] = name[i] /\ name[i] \in DOMAIN devs
        BY <1>6, <1>9, <2>1, <3>2
      <4>2. name[i] < next /\ Match(name[i]) = i
        BY <1>0, <2>1, <4>1 DEF NamesAreMatched
      <4> QED BY <1>3, <1>6, <4>1, <4>2
    <3> QED BY <3>1, <3>2
  <2>2. ASSUME NEW p \in DOMAIN devs, p < next + 1, Match(p) # None
        PROVE  p \in blacklist' \/ name'[Match(p)] = p
    <3>1. CASE p = next
      BY <1>3, <3>1
    <3>2. CASE p # next
      <4>1. p < next
        BY <1>3, <1>6, <2>2, <3>2
      <4>2. p \in blacklist \/ name[Match(p)] = p
        BY <1>0, <2>2, <4>1 DEF NamesAreMatched
      <4>3. Match(p) \in DOMAIN inters
        BY <1>0, <2>2, MatchType
      <4> QED BY <1>2, <1>3, <1>9, <4>2, <4>3
    <3> QED BY <3>1, <3>2
  <2> QED BY <1>3, <1>4, <2>1, <2>2 DEF NamesAreMatched
<1>15. EachIsListedOnce'
  <2>1. found = <<>> /\ found' = <<>>
    BY <1>0, <1>3 DEF EachIsListedOnce
  <2>2. DOMAIN found' = {}
    BY <2>1
  <2>3. \A k \in DOMAIN mid : mid[k] \in DOMAIN inters
    BY <1>0, TypeFacts
  <2>4. name'[d] \in blacklist'
    BY <1>3, <1>9
  <2>5. \A k \in DOMAIN mid' : name'[mid'[k]] # None
    <3>1. \A k \in DOMAIN mid : name[mid[k]] # None
      BY <1>0 DEF EachIsListedOnce
    <3>2. name'[d] # None
      BY <1>3, <1>6, <1>9
    <3> QED BY <1>8, <1>10, <2>3, <3>1, <3>2
  <2>6. ASSUME NEW i \in DOMAIN inters, name'[i] # None
        PROVE  name'[i] \in blacklist' \/ \E k \in DOMAIN mid' : mid'[k] = i
    <3>1. CASE i = d
      BY <2>4, <3>1
    <3>2. CASE i # d
      <4>1. name[i] \in blacklist \/ \E k \in DOMAIN mid : mid[k] = i
        BY <1>0, <1>9, <2>1, <2>6, <3>2 DEF EachIsListedOnce
      <4> QED BY <1>3, <1>8, <1>9, <3>2, <4>1
    <3> QED BY <3>1, <3>2
  <2>7. ASSUME NEW j \in DOMAIN mid', NEW k \in DOMAIN mid', mid'[j] = mid'[k]
        PROVE  j = k \/ name'[mid'[j]] \in blacklist'
    <3>1. CASE mid'[j] = d
      BY <2>4, <3>1
    <3>2. CASE mid'[j] # d
      <4>1. /\ j \in DOMAIN mid /\ k \in DOMAIN mid
            /\ mid'[j] = mid[j] /\ mid'[k] = mid[k] /\ mid[j] = mid[k] /\ mid[j] # d
        BY <1>8, <2>7, <3>2
      <4>2. j = k \/ name[mid[j]] \in blacklist
        BY <1>0, <4>1 DEF EachIsListedOnce
      <4> QED BY <1>3, <1>9, <2>3, <4>1, <4>2
    <3> QED BY <3>1, <3>2
  <2> QED BY <1>3, <2>1, <2>2, <2>5, <2>6, <2>7 DEF EachIsListedOnce
<1>16. ReturnedIsComplete' /\ TriedAreFound' /\ StartsWithGateway'
  BY <1>3 DEF ReturnedIsComplete, TriedAreFound, StartsWithGateway
<1> QED BY <1>11, <1>12, <1>13, <1>14, <1>15, <1>16 DEF IInv

LEMMA CheckBlacklistStep ==
  ASSUME IInv, CheckBlacklist
  PROVE  IInv'
<1>0. /\ TypeOK /\ BlacklistIsAmbiguous /\ BlacklistIsClosed /\ NamesAreMatched
      /\ EachIsListedOnce
  BY DEF IInv
<1>1. PICK d, m : d = Head(mid) /\ m = name[d]
  OBVIOUS
<1>2. /\ pc = "match" /\ next \notin DOMAIN devs /\ mid # <<>>
      /\ mid' = Tail(mid)
      /\ \/ m \in blacklist /\ found' = found
         \/ m \notin blacklist /\ found' = Append(found, [inter |-> d, dev |-> m])
      /\ UNCHANGED <<inters, devs, blacklist, name, next, trying, pc>>
  BY <1>1 DEF CheckBlacklist, input, choice
<1>3. /\ \A p : Match(p)' = Match(p)
      /\ Device' = Device
  BY <1>2, MatchStays
<1>4. /\ mid \in Seq(DOMAIN inters) /\ found \in Seq(Device)
      /\ name \in [DOMAIN inters -> DOMAIN devs \cup {None}]
  BY <1>0 DEF TypeOK
<1>5. /\ mid' \in Seq(DOMAIN inters)
      /\ 1 \in DOMAIN mid /\ d = mid[1] /\ d \in DOMAIN inters
      /\ \A k \in DOMAIN mid' : k + 1 \in DOMAIN mid /\ mid'[k] = mid[k + 1] /\ k + 1 # 1
      /\ \A k \in DOMAIN mid : k # 1 => k - 1 \in DOMAIN mid' /\ mid'[k - 1] = mid[k]
  BY <1>1, <1>2, <1>4, TailElements
<1>6. m # None /\ m \in DOMAIN devs
  BY <1>0, <1>1, <1>4, <1>5 DEF EachIsListedOnce
<1>7. [inter |-> d, dev |-> m] \in Device
  BY <1>5, <1>6 DEF Device
<1>8. /\ found' \in Seq(Device)
      /\ \A k \in DOMAIN found : k \in DOMAIN found' /\ found'[k] = found[k]
      /\ \A k \in DOMAIN found' : k \in DOMAIN found
           \/ (m \notin blacklist /\ k = Len(found) + 1 /\ found'[k].inter = d /\ found'[k].dev = m)
      /\ m \in blacklist \/ \E k \in DOMAIN found' : found'[k].inter = d
  <2>1. CASE m \notin blacklist /\ found' = Append(found, [inter |-> d, dev |-> m])
    BY <1>4, <1>7, <2>1, AppendElements
  <2>2. CASE m \in blacklist /\ found' = found
    BY <1>4, <2>2
  <2> QED BY <1>2, <2>1, <2>2
<1>9. TypeOK'
  BY <1>0, <1>2, <1>3, <1>5, <1>8 DEF TypeOK
<1>10. BlacklistIsAmbiguous' /\ BlacklistIsClosed' /\ NamesAreMatched'
  BY <1>0, <1>2, <1>3 DEF BlacklistIsAmbiguous, BlacklistIsClosed, NamesAreMatched
<1>11. EachIsListedOnce'
  <2>1. \A k \in DOMAIN mid' : name[mid'[k]] # None
    BY <1>0, <1>5 DEF EachIsListedOnce
  <2>2. ASSUME NEW i \in DOMAIN inters, name[i] # None
        PROVE  \/ name[i] \in blacklist
               \/ \E k \in DOMAIN mid' : mid'[k] = i
               \/ \E k \in DOMAIN found' : found'[k].inter = i
    <3>1. CASE name[i] \in blacklist
      BY <3>1
    <3>2. CASE \E k \in DOMAIN found : found[k].inter = i
      BY <1>8, <3>2
    <3>3. ASSUME NEW k \in DOMAIN mid, mid[k] = i, name[i] \notin blacklist
          PROVE  (\E j \in DOMAIN mid' : mid'[j] = i) \/ \E j \in DOMAIN found' : found'[j].inter = i
      <4>1. CASE k = 1
        BY <1>1, <1>5, <1>8, <3>3, <4>1
      <4>2. CASE k # 1
        BY <1>5, <3>3, <4>2
      <4> QED BY <4>1, <4>2
    <3>4. \/ name[i] \in blacklist
          \/ \E k \in DOMAIN mid : mid[k] = i
          \/ \E k \in DOMAIN found : found[k].inter = i
      BY <1>0, <2>2 DEF EachIsListedOnce
    <3> QED BY <3>1, <3>2, <3>3, <3>4
  <2>3. ASSUME NEW j \in DOMAIN mid', NEW k \in DOMAIN mid', mid'[j] = mid'[k]
        PROVE  j = k \/ name[mid'[j]] \in blacklist
    <3>1. /\ j + 1 \in DOMAIN mid /\ mid'[j] = mid[j + 1]
          /\ k + 1 \in DOMAIN mid /\ mid'[k] = mid[k + 1]
      BY <1>5
    <3>2. j + 1 = k + 1 \/ name[mid[j + 1]] \in blacklist
      BY <1>0, <2>3, <3>1 DEF EachIsListedOnce
    <3>3. j \in Nat /\ k \in Nat
      <4>1. DOMAIN mid' = 1 .. Len(mid') /\ Len(mid') \in Nat
        BY <1>5, LenProperties
      <4> QED BY <4>1
    <3> QED BY <3>1, <3>2, <3>3
  <2>4. \A k \in DOMAIN found' : found'[k].dev = name[found'[k].inter] /\ found'[k].dev \notin blacklist
    <3>1. \A k \in DOMAIN found : found[k].dev = name[found[k].inter] /\ found[k].dev \notin blacklist
      BY <1>0 DEF EachIsListedOnce
    <3> QED BY <1>1, <1>8, <3>1
  <2>5. ASSUME NEW j \in DOMAIN found', NEW k \in DOMAIN mid', found'[j].inter = mid'[k]
        PROVE  name[mid'[k]] \in blacklist
    <3>1. k + 1 \in DOMAIN mid /\ mid'[k] = mid[k + 1] /\ k + 1 # 1
      BY <1>5
    <3>2. CASE j \in DOMAIN found
      BY <1>0, <1>8, <2>5, <3>1, <3>2 DEF EachIsListedOnce
    <3>3. CASE found'[j].inter = d
      BY <1>0, <1>5, <2>5, <3>1, <3>3 DEF EachIsListedOnce
    <3> QED BY <1>8, <3>2, <3>3
  <2>6. ASSUME NEW j \in DOMAIN found', NEW k \in DOMAIN found',
               found'[j].inter = found'[k].inter
        PROVE  j = k
    <3>1. \A l \in DOMAIN found : found[l].inter = d => m \in blacklist
      BY <1>0, <1>1, <1>5 DEF EachIsListedOnce
    <3>2. CASE j \in DOMAIN found /\ k \in DOMAIN found
      BY <1>0, <1>8, <2>6, <3>2 DEF EachIsListedOnce
    <3>3. CASE j \notin DOMAIN found
      BY <1>8, <2>6, <3>1, <3>3
    <3>4. CASE k \notin DOMAIN found
      BY <1>8, <2>6, <3>1, <3>4
    <3> QED BY <3>2, <3>3, <3>4
  <2> QED BY <1>2, <2>1, <2>2, <2>3, <2>4, <2>5, <2>6 DEF EachIsListedOnce
<1>12. ReturnedIsComplete' /\ TriedAreFound' /\ StartsWithGateway'
  BY <1>2 DEF ReturnedIsComplete, TriedAreFound, StartsWithGateway
<1> QED BY <1>9, <1>10, <1>11, <1>12 DEF IInv

LEMMA ReturnAllDevsStep ==
  ASSUME IInv, ReturnAllDevs
  PROVE  IInv'
<1>1. /\ next \notin DOMAIN devs /\ mid = <<>> /\ pc' = "found"
      /\ UNCHANGED <<inters, devs, blacklist, name, mid, next, found, trying>>
  BY DEF ReturnAllDevs, input, choice
<1>2. /\ \A p : Match(p)' = Match(p)
      /\ Device' = Device
  BY <1>1, MatchStays
<1>3. TypeOK'
  BY <1>1, <1>2 DEF IInv, TypeOK
<1>4. BlacklistIsAmbiguous' /\ BlacklistIsClosed' /\ NamesAreMatched'
  BY <1>1, <1>2 DEF IInv, BlacklistIsAmbiguous, BlacklistIsClosed, NamesAreMatched
<1>5. EachIsListedOnce'
  BY <1>1 DEF IInv, EachIsListedOnce
<1>6. ReturnedIsComplete' /\ TriedAreFound' /\ StartsWithGateway'
  BY <1>1 DEF ReturnedIsComplete, TriedAreFound, StartsWithGateway
<1> QED BY <1>3, <1>4, <1>5, <1>6 DEF IInv

-----------------------------------------------------------------------------
(* What FindAllDevs returns.                                               *)

\* No device is to come: a device of an interface in the result is not on the
\* blacklist, so no other is, and no other gave the interface its name.
LEMMA FoundAreUnambiguous ==
  ASSUME IInv, next \notin DOMAIN devs, mid = <<>>
  PROVE  \A d \in Device : (\E k \in DOMAIN found : found[k] = d) <=> Claims(d.inter) = {d.dev}
<1>0. /\ TypeOK /\ BlacklistIsAmbiguous /\ BlacklistIsClosed /\ NamesAreMatched
      /\ EachIsListedOnce
  BY DEF IInv
<1>1. \A q \in DOMAIN devs : q \in Nat /\ q < next /\ ~(q >= next)
  <2>1. devs \in Seq([addrs : Seq(Address), loop : BOOLEAN]) /\ next \in Nat \ {0}
    BY <1>0, InputAssumption DEF TypeOK
  <2>2. DOMAIN devs = 1 .. Len(devs) /\ Len(devs) \in Nat
    BY <2>1, LenProperties
  <2> QED BY <2>1, <2>2
<1> SUFFICES ASSUME NEW i \in DOMAIN inters, NEW p \in DOMAIN devs
             PROVE  (\E k \in DOMAIN found : found[k] = [inter |-> i, dev |-> p]) <=> Claims(i) = {p}
  BY DEF Device
<1>2. p # None /\ \A k \in DOMAIN found : found[k] \in Device
  <2>1. found \in Seq(Device)
    BY <1>0 DEF TypeOK
  <2>2. \A k \in DOMAIN found : found[k] \in Device
    BY <2>1, LenProperties, ElementOfSeq
  <2> QED BY <1>0, <2>2, TypeFacts
<1>3. ASSUME NEW k \in DOMAIN found, found[k] = [inter |-> i, dev |-> p]
      PROVE  Claims(i) = {p}
  <2>1. p = name[i] /\ p \notin blacklist
    BY <1>0, <1>3 DEF EachIsListedOnce
  <2>2. Match(p) = i
    BY <1>0, <1>2, <2>1 DEF NamesAreMatched
  <2>3. ASSUME NEW q \in DOMAIN devs, Match(q) = i
        PROVE  q = p
    <3>1. q \notin blacklist
      BY <1>0, <1>1, <2>1, <2>2, <2>3 DEF BlacklistIsClosed
    <3>2. i # None
      <4>1. None \notin Nat /\ DOMAIN inters \in SUBSET Nat
        BY <1>0, InputAssumption, LenProperties DEF TypeOK
      <4> QED BY <4>1
    <3>3. q < next
      BY <1>1
    <3> QED BY <1>0, <2>1, <2>3, <3>1, <3>2, <3>3 DEF NamesAreMatched
  <2> QED BY <2>2, <2>3 DEF Claims
<1>4. ASSUME Claims(i) = {p}
      PROVE  \E k \in DOMAIN found : found[k] = [inter |-> i, dev |-> p]
  <2>1. Match(p) = i /\ \A q \in DOMAIN devs : Match(q) = i => q = p
    BY <1>4 DEF Claims
  <2>2. p \notin blacklist
    BY <1>0, <2>1 DEF BlacklistIsAmbiguous
  <2>3. i # None
    <3>1. None \notin Nat /\ DOMAIN inters \in SUBSET Nat
      BY <1>0, InputAssumption, LenProperties DEF TypeOK
    <3> QED BY <3>1
  <2>4. p < next
    BY <1>1
  <2>5. name[i] = p
    BY <1>0, <2>1, <2>2, <2>3, <2>4 DEF NamesAreMatched
  <2>6. DOMAIN mid = {}
    OBVIOUS
  <2>7. PICK k \in DOMAIN found : found[k].inter = i
    BY <1>0, <1>2, <2>2, <2>5, <2>6 DEF EachIsListedOnce
  <2>8. found[k].dev = p
    BY <1>0, <2>5, <2>7 DEF EachIsListedOnce
  <2>9. found[k] = [inter |-> i, dev |-> p]
    BY <1>2, <2>7, <2>8 DEF Device
  <2> QED BY <2>9
<1> QED BY <1>3, <1>4

LEMMA InvImpliesUnambiguous == IInv => UnambiguousDevsAreFound
<1> SUFFICES ASSUME IInv, pc = "found" PROVE UnambiguousDevsAreFound
  BY DEF UnambiguousDevsAreFound
<1>1. next \notin DOMAIN devs /\ mid = <<>>
  BY DEF IInv, ReturnedIsComplete
<1>2. \A d \in Device : (\E k \in DOMAIN found : found[k] = d) <=> Claims(d.inter) = {d.dev}
  BY <1>1, FoundAreUnambiguous
<1>3. \A k \in DOMAIN found : found[k] \in Device
  <2>1. found \in Seq(Device)
    BY DEF IInv, TypeOK
  <2> QED BY <2>1, LenProperties, ElementOfSeq
<1>4. Range(found) = {d \in Device : Claims(d.inter) = {d.dev}}
  BY <1>2, <1>3 DEF Range
<1>5. IsInjective(found)
  <2>1. \A j, k \in DOMAIN found : found[j].inter = found[k].inter => j = k
    BY DEF IInv, EachIsListedOnce
  <2> QED BY <2>1 DEF IsInjective
<1> QED BY <1>4, <1>5 DEF UnambiguousDevsAreFound

-----------------------------------------------------------------------------
(* FindListenDevs and FindUpstreamDevAndGatewayDev.                        *)

LEMMA ListenStep ==
  ASSUME IInv, NEW names, Listen(names)
  PROVE  IInv'
<1>0. /\ TypeOK /\ BlacklistIsAmbiguous /\ BlacklistIsClosed /\ ReturnedIsComplete
  BY DEF IInv
<1>1. /\ pc = "found" /\ pc' = "match" /\ next' = 1 /\ mid' = <<>> /\ found' = <<>>
      /\ name' = [i \in DOMAIN inters |-> None]
      /\ UNCHANGED <<inters, devs, blacklist, trying>>
  BY DEF Listen, input
<1>2. /\ \A p : Match(p)' = Match(p)
      /\ Device' = Device
  BY <1>1, MatchStays
<1>3. \A q \in DOMAIN devs : ~(q >= next) /\ ~(q < 1)
  <2>1. devs \in Seq([addrs : Seq(Address), loop : BOOLEAN]) /\ next \in Nat \ {0}
    BY <1>0, InputAssumption DEF TypeOK
  <2>2. DOMAIN devs = 1 .. Len(devs) /\ Len(devs) \in Nat
    BY <2>1, LenProperties
  <2>3. next \notin DOMAIN devs
    BY <1>0, <1>1 DEF ReturnedIsComplete
  <2> QED BY <2>1, <2>2, <2>3
<1>4. mid' \in Seq(DOMAIN inters) /\ found' \in Seq(Device) /\ DOMAIN mid' = {} /\ DOMAIN found' = {}
  BY <1>1, EmptySeq
<1>5. TypeOK'
  BY <1>0, <1>1, <1>2, <1>4 DEF TypeOK
<1>6. BlacklistIsAmbiguous'
  BY <1>0, <1>1, <1>2 DEF BlacklistIsAmbiguous
<1>7. BlacklistIsClosed'
  BY <1>0, <1>1, <1>2, <1>3 DEF BlacklistIsClosed
<1>8. NamesAreMatched'
  BY <1>1, <1>3 DEF NamesAreMatched
<1>9. EachIsListedOnce'
  BY <1>1, <1>4 DEF EachIsListedOnce
<1>10. ReturnedIsComplete' /\ TriedAreFound' /\ StartsWithGateway'
  BY <1>1 DEF ReturnedIsComplete, TriedAreFound, StartsWithGateway
<1> QED BY <1>5, <1>6, <1>7, <1>8, <1>9, <1>10 DEF IInv

\* The steps after FindAllDevs has returned leave its state alone.
LEMMA AfterStep ==
  ASSUME IInv, pc \in {"found", "upstream"},
         UNCHANGED <<inters, devs, blacklist, name, mid, next, found>>,
         pc' \in {"upstream", "started", "fatal"},
         trying' \in Seq(Device), TriedAreFound', StartsWithGateway'
  PROVE  IInv'
<1>1. /\ \A p : Match(p)' = Match(p)
      /\ Device' = Device
  BY MatchStays
<1>2. TypeOK'
  BY <1>1 DEF IInv, TypeOK
<1>3. BlacklistIsAmbiguous' /\ BlacklistIsClosed' /\ NamesAreMatched'
  BY <1>1 DEF IInv, BlacklistIsAmbiguous, BlacklistIsClosed, NamesAreMatched
<1>4. EachIsListedOnce'
  BY DEF IInv, EachIsListedOnce
<1>5. ReturnedIsComplete'
  BY DEF IInv, ReturnedIsComplete
<1> QED BY <1>2, <1>3, <1>4, <1>5 DEF IInv

LEMMA FatalStep ==
  ASSUME IInv, pc \in {"found", "upstream"}, Fatal
  PROVE  IInv'
<1>1. /\ pc' = "fatal"
      /\ UNCHANGED <<inters, devs, blacklist, name, mid, next, found, trying>>
  BY DEF Fatal, input, choice
<1>2. trying' \in Seq(Device) /\ TriedAreFound' /\ StartsWithGateway'
  BY <1>1 DEF IInv, TypeOK, TriedAreFound, StartsWithGateway
<1> QED BY <1>1, <1>2, AfterStep

\* What is found is an interface that one device is matched with.
LEMMA FoundFacts ==
  ASSUME IInv, pc = "found", NEW k \in DOMAIN found
  PROVE  found[k] \in Device /\ Claims(found[k].inter) = {found[k].dev}
<1>1. next \notin DOMAIN devs /\ mid = <<>>
  BY DEF IInv, ReturnedIsComplete
<1>2. found[k] \in Device
  <2>1. found \in Seq(Device)
    BY DEF IInv, TypeOK
  <2> QED BY <2>1, LenProperties, ElementOfSeq
<1> QED BY <1>1, <1>2, FoundAreUnambiguous

LEMMA UpstreamLoopStep ==
  ASSUME IInv, NEW k \in DOMAIN found, UpstreamLoop(k)
  PROVE  IInv'
<1>1. /\ pc = "found" /\ pc' = "started" /\ IsLoop(found[k])
      /\ upDev' = found[k] /\ gatewayDev' = found[k]
      /\ UNCHANGED <<inters, devs, blacklist, name, mid, next, found, trying>>
  BY DEF UpstreamLoop, input
<1>2. \A i : Claims(i)' = Claims(i)
  BY <1>1, MatchStays
<1>3. Claims(found[k].inter) = {found[k].dev}
  BY <1>1, FoundFacts
<1>4. StartsWithGateway'
  BY <1>1, <1>2, <1>3 DEF StartsWithGateway, IsLoop
<1>5. trying' \in Seq(Device) /\ TriedAreFound'
  BY <1>1 DEF IInv, TypeOK, TriedAreFound
<1> QED BY <1>1, <1>4, <1>5, AfterStep

LEMMA UpstreamStep ==
  ASSUME IInv, NEW devices \in {found} \cup {<<found[k]>> : k \in DOMAIN found}, NEW domain,
         Upstream(devices, domain)
  PROVE  IInv'
<1>1. /\ pc = "found" /\ pc' = "upstream" /\ trying' = devices
      /\ UNCHANGED <<inters, devs, blacklist, name, mid, next, found>>
  BY DEF Upstream, input
<1>2. \A i : Claims(i)' = Claims(i)
  BY <1>1, MatchStays
<1>3. /\ devices \in Seq(Device)
      /\ \A j \in DOMAIN devices : \E k \in DOMAIN found : devices[j] = found[k]
  <2>1. CASE devices = found
    BY <2>1 DEF IInv, TypeOK
  <2>2. ASSUME NEW k \in DOMAIN found, devices = <<found[k]>>
        PROVE  /\ devices \in Seq(Device)
               /\ \A j \in DOMAIN devices : \E l \in DOMAIN found : devices[j] = found[l]
    <3>1. found[k] \in Device
      BY <1>1, FoundFacts
    <3> QED BY <2>2, <3>1
  <2> QED BY <2>1, <2>2
<1>4. TriedAreFound'
  <2>1. \A j \in DOMAIN devices : Claims(devices[j].inter) = {devices[j].dev}
    BY <1>1, <1>3, FoundFacts
  <2> QED BY <1>1, <1>2, <2>1 DEF TriedAreFound
<1>5. StartsWithGateway'
  BY <1>1 DEF StartsWithGateway
<1> QED BY <1>1, <1>3, <1>4, <1>5, AfterStep

LEMMA NextDeviceStep ==
  ASSUME IInv, pc = "upstream", trying # <<>>, trying' = Tail(trying),
         UNCHANGED <<inters, devs, blacklist, name, mid, next, found, pc>>
  PROVE  IInv'
<1>1. trying \in Seq(Device)
  BY DEF IInv, TypeOK
<1>2. /\ trying' \in Seq(Device)
      /\ \A k \in DOMAIN trying' : k + 1 \in DOMAIN trying /\ trying'[k] = trying[k + 1]
  BY <1>1, TailElements
<1>3. \A i : Claims(i)' = Claims(i)
  BY MatchStays
<1>4. \A k \in DOMAIN trying : Claims(trying[k].inter) = {trying[k].dev}
  BY DEF IInv, TriedAreFound
<1>5. TriedAreFound'
  BY <1>2, <1>3, <1>4 DEF TriedAreFound
<1>6. StartsWithGateway'
  BY DEF StartsWithGateway
<1> QED BY <1>2, <1>5, <1>6, AfterStep

LEMMA GatewayFoundStep ==
  ASSUME IInv, GatewayFound
  PROVE  IInv'
<1>1. PICK d : d = Head(trying)
  OBVIOUS
<1>2. /\ pc = "upstream" /\ pc' = "started" /\ trying # <<>> /\ InDomain(d)
      /\ upDev' = d /\ gatewayDev' = d
      /\ UNCHANGED <<inters, devs, blacklist, name, mid, next, found, gateway, trying>>
  BY <1>1 DEF GatewayFound, input
<1>3. trying \in Seq(Device)
  BY DEF IInv, TypeOK
<1>4. 1 \in DOMAIN trying /\ d = trying[1]
  BY <1>1, <1>2, <1>3, TailElements
<1>5. Claims(d.inter) = {d.dev}
  BY <1>2, <1>4 DEF IInv, TriedAreFound
<1>6. \A i : Claims(i)' = Claims(i)
  BY <1>2, MatchStays
<1>7. StartsWithGateway'
  BY <1>2, <1>5, <1>6 DEF StartsWithGateway, InDomain
<1>8. TriedAreFound'
  BY <1>2 DEF TriedAreFound
<1> QED BY <1>2, <1>3, <1>7, <1>8, AfterStep

-----------------------------------------------------------------------------
(* The theorems.                                                           *)

LEMMA InitInv == Init => IInv
<1> SUFFICES ASSUME Init PROVE IInv
  OBVIOUS
<1>1. /\ inters \in Interfaces /\ devs \in PcapDevs /\ blacklist = {} /\ next = 1 /\ pc = "match"
      /\ name = [i \in DOMAIN inters |-> None]
      /\ mid = <<>> /\ found = <<>> /\ trying = <<>>
  BY DEF Init
<1>2. \A S : <<>> \in Seq(S)
  BY EmptySeq
<1>3. TypeOK
  BY <1>1, <1>2 DEF TypeOK
<1>4. BlacklistIsAmbiguous /\ BlacklistIsClosed
  BY <1>1 DEF BlacklistIsAmbiguous, BlacklistIsClosed
<1>5. NamesAreMatched
  <2>1. devs \in Seq([addrs : Seq(Address), loop : BOOLEAN])
    BY <1>1, InputAssumption
  <2>2. DOMAIN devs = 1 .. Len(devs) /\ Len(devs) \in Nat
    BY <2>1, LenProperties
  <2> QED BY <1>1, <2>2 DEF NamesAreMatched
<1>6. EachIsListedOnce
  <2>1. DOMAIN mid = {} /\ DOMAIN found = {}
    BY <1>1
  <2> QED BY <1>1, <2>1 DEF EachIsListedOnce
<1>7. ReturnedIsComplete /\ TriedAreFound /\ StartsWithGateway
  BY <1>1 DEF ReturnedIsComplete, TriedAreFound, StartsWithGateway
<1> QED BY <1>3, <1>4, <1>5, <1>6, <1>7 DEF IInv

LEMMA NextInv == IInv /\ [Next]_vars => IInv'
<1> SUFFICES ASSUME IInv, [Next]_vars PROVE IInv'
  OBVIOUS
<1>1. CASE Pass
  BY <1>1, PassStep
<1>2. CASE Claim
  BY <1>2, ClaimStep
<1>3. CASE Conflict
  BY <1>3, ConflictStep
<1>4. CASE CheckBlacklist
  BY <1>4, CheckBlacklistStep
<1>5. CASE ReturnAllDevs
  BY <1>5, ReturnAllDevsStep
<1>6. CASE \E names \in SUBSET DOMAIN inters : Listen(names)
  BY <1>6, ListenStep
<1>7. CASE ListenError \/ UpstreamError
  BY <1>7, FatalStep DEF ListenError, UpstreamError
<1>8. CASE \E k \in DOMAIN found : UpstreamLoop(k)
  BY <1>8, UpstreamLoopStep
<1>9. CASE \E devices \in {found} \cup {<<found[k]>> : k \in DOMAIN found},
              domain \in SUBSET Address : Upstream(devices, domain)
  BY <1>9, UpstreamStep
<1>10. CASE SkipLoop \/ GatewayTimeout
  BY <1>10, NextDeviceStep DEF SkipLoop, GatewayTimeout, input
<1>11. CASE GatewayFound
  BY <1>11, GatewayFoundStep
<1>12. CASE UNCHANGED vars
  <2>1. /\ \A p : Match(p)' = Match(p)
        /\ \A i : Claims(i)' = Claims(i)
        /\ Device' = Device
    BY <1>12, MatchStays DEF vars
  <2>2. TypeOK'
    BY <1>12, <2>1 DEF vars, IInv, TypeOK
  <2>3. BlacklistIsAmbiguous' /\ BlacklistIsClosed' /\ NamesAreMatched'
    BY <1>12, <2>1 DEF vars, IInv, BlacklistIsAmbiguous, BlacklistIsClosed, NamesAreMatched
  <2>4. EachIsListedOnce' /\ ReturnedIsComplete'
    BY <1>12 DEF vars, IInv, EachIsListedOnce, ReturnedIsComplete
  <2>5. TriedAreFound'
    BY <1>12, <2>1 DEF vars, IInv, TriedAreFound
  <2>6. StartsWithGateway'
    BY <1>12, <2>1 DEF vars, IInv, StartsWithGateway, IsLoop, InDomain
  <2> QED BY <2>2, <2>3, <2>4, <2>5, <2>6 DEF IInv
<1> QED BY <1>1, <1>2, <1>3, <1>4, <1>5, <1>6, <1>7, <1>8, <1>9, <1>10, <1>11, <1>12 DEF Next

\* The invariant holds in every state of FindAllDevs, FindListenDevs and
\* FindUpstreamDevAndGatewayDev.
THEOREM Inductive == Spec => []IInv
BY InitInv, NextInv, PTL DEF Spec

\* Whatever the lists of interfaces and of libpcap are and however they are
\* ordered, both calls of FindAllDevs return exactly the interfaces that one
\* device of libpcap is matched with, each once.
THEOREM FindsUnambiguous == Spec => []UnambiguousDevsAreFound
BY Inductive, InvImpliesUnambiguous, PTL

\* The program starts only with an upstream device that one device of libpcap
\* is matched with, and on which the gateway was found.
THEOREM StartsOnGateway == Spec => []StartsWithGateway
<1>1. IInv => StartsWithGateway
  BY DEF IInv
<1> QED BY <1>1, Inductive, PTL

=============================================================================
