--------------------------- MODULE Monitor_proofs ---------------------------
(***************************************************************************)
(* Proofs about Monitor, for all nodes, every size of a packet and every   *)
(* number of packets.                                                      *)
(***************************************************************************)
EXTENDS Monitor, FiniteSetTheorems, WellFoundedInduction, TLAPS

-----------------------------------------------------------------------------
(* The inductive invariant.                                                *)

Adder == [pc : {"idle", "track", "count", "size"}, side : {"local", "remote"},
          node : [local : Node \cup {None}, remote : Node \cup {None}]]

Reporter ==
  [pc : {"idle", "rlock", "pointers", "next", "nodes", "count", "size"},
   done : SUBSET Manager, managers : SUBSET Manager, manager : Manager \cup {None},
   nodes : SUBSET Node, node : Node \cup {None}, count : Nat]

CountersOK ==
  /\ made \in SUBSET Manager
  /\ tracked \in [Manager -> SUBSET Node]
  /\ count \in [Manager -> [Node -> Nat]]
  /\ size \in [Manager -> [Node -> Nat]]
  /\ lock \in Direction \cup {None}
  /\ add \in [Direction -> Adder]
  /\ \A d \in Direction : add[d].pc # "idle" => add[d].node \in [local : Node, remote : Node]

ReportOK ==
  /\ report \in Reporter
  /\ report.pc \in {"nodes", "count", "size"} => report.manager \in Manager
  /\ report.pc = "size" => report.node \in Node
  /\ shown \in [Manager -> [Node -> [count : Nat, size : Nat] \cup {None}]]
  /\ begin \in [Manager -> [Node -> Nat]]

TypeOK == CountersOK /\ ReportOK

\* AddBidirectional runs with the lock.
Exclusive == \A d \in Direction : add[d].pc # "idle" <=> lock = d

\* A packet of the node is counted, and its bytes are not.
HalfAdded(m, n) == \E d \in Direction : add[d].pc = "size" /\ Current(d) = m /\ NodeOf(d) = n

\* The bytes are the bytes of the packets, the one that is being added apart.
BytesOfCounts ==
  \A m \in Manager, n \in Node :
    IF HalfAdded(m, n) THEN size[m][n] + Unit = count[m][n] * Unit
                       ELSE size[m][n] = count[m][n] * Unit

\* Only nodes in the map of a manager that exists have been counted.
CountedAreTracked ==
  /\ \A m \in Manager, n \in Node : n \in tracked[m] => m \in made
  /\ \A m \in Manager, n \in Node : n \notin tracked[m] => count[m][n] = 0 /\ size[m][n] = 0
  /\ \A d \in Direction : add[d].pc \in {"count", "size"} => NodeOf(d) \in tracked[Current(d)]

\* What was counted when MarshalJSON had the lock has its bytes, too.
BeginIsPast ==
  \A m \in Manager, n \in Node :
    begin[m][n] <= count[m][n] /\ begin[m][n] * Unit <= size[m][n]

\* A count that was read is as recent as a count that is shown.
ReadIsRecent ==
  report.pc = "size" =>
    LET m == report.manager
        n == report.node
    IN /\ begin[m][n] <= report.count /\ report.count <= count[m][n]
       /\ report.count * Unit <= size[m][n] + Unit

\* Nodes that had been counted are shown, once their manager is done; they are
\* shown or still listed, while it is read; and their manager is listed.
NoneIsForgotten ==
  /\ report.pc \in {"idle", "rlock", "pointers"} => report.done = {} /\ shown = NotShown
  /\ \A m \in Manager, n \in Node : begin[m][n] > 0 =>
       /\ m \in report.done => shown[m][n] # None
       /\ report.pc \in {"next", "nodes", "count", "size"} => m \in report.managers
       /\ report.pc \in {"count", "size"} /\ report.manager = m =>
            n \in report.nodes \/ shown[m][n] # None

IInv ==
  /\ TypeOK
  /\ Exclusive /\ BytesOfCounts /\ CountedAreTracked
  /\ BeginIsPast /\ ReadIsRecent /\ NoneIsForgotten
  /\ ReportsAreRecent /\ AtMostOnePacketWithoutBytes

-----------------------------------------------------------------------------
(* MarshalJSON leaves the counters as they are, and AddBidirectional the   *)
(* report.                                                                 *)

LEMMA CountersStay ==
  ASSUME IInv, UNCHANGED <<made, tracked, count, size, lock, add>>
  PROVE  CountersOK' /\ Exclusive' /\ BytesOfCounts' /\ CountedAreTracked'
<1>1. CountersOK'
  BY DEF IInv, TypeOK, CountersOK
<1>2. Exclusive'
  BY DEF IInv, Exclusive
<1>3. BytesOfCounts'
  BY DEF IInv, BytesOfCounts, HalfAdded, Current, NodeOf
<1>4. CountedAreTracked'
  BY DEF IInv, CountedAreTracked, Current, NodeOf
<1> QED BY <1>1, <1>2, <1>3, <1>4

LEMMA ReportStays ==
  ASSUME IInv, CountersOK', UNCHANGED reportVars,
         \A m \in Manager, n \in Node : count[m][n] <= count'[m][n] /\ size[m][n] <= size'[m][n]
  PROVE  /\ ReportOK' /\ BeginIsPast' /\ ReadIsRecent' /\ NoneIsForgotten'
         /\ ReportsAreRecent' /\ AtMostOnePacketWithoutBytes'
<1>0. UNCHANGED <<report, shown, begin>> /\ CountersOK /\ ReportOK
  BY DEF reportVars, IInv, TypeOK
<1>1. ASSUME NEW m \in Manager, NEW n \in Node
      PROVE  /\ count[m][n] \in Nat /\ size[m][n] \in Nat /\ begin[m][n] \in Nat
             /\ count'[m][n] \in Nat /\ size'[m][n] \in Nat
             /\ shown[m][n] # None => shown[m][n].count \in Nat /\ shown[m][n].size \in Nat
  BY <1>0 DEF CountersOK, ReportOK
<1>2. Unit \in Nat
  BY UnitAssumption
<1>3. ReportOK'
  BY <1>0 DEF ReportOK
<1>4. BeginIsPast'
  <2> SUFFICES ASSUME NEW m \in Manager, NEW n \in Node
               PROVE  begin[m][n] <= count'[m][n] /\ begin[m][n] * Unit <= size'[m][n]
    BY <1>0 DEF BeginIsPast
  <2>1. begin[m][n] <= count[m][n] /\ begin[m][n] * Unit <= size[m][n]
        /\ begin[m][n] * Unit \in Nat
    BY <1>1, <1>2 DEF IInv, BeginIsPast
  <2> QED BY <1>1, <2>1
<1>5. ReadIsRecent'
  <2> SUFFICES ASSUME report.pc = "size"
               PROVE  /\ begin[report.manager][report.node] <= report.count
                      /\ report.count <= count'[report.manager][report.node]
                      /\ report.count * Unit <= size'[report.manager][report.node] + Unit
    BY <1>0 DEF ReadIsRecent
  <2>1. report.manager \in Manager /\ report.node \in Node /\ report.count \in Nat
    BY <1>0 DEF ReportOK, Reporter
  <2>2. /\ begin[report.manager][report.node] <= report.count
        /\ report.count <= count[report.manager][report.node]
        /\ report.count * Unit <= size[report.manager][report.node] + Unit
        /\ report.count * Unit \in Nat
    BY <1>2, <2>1 DEF IInv, ReadIsRecent
  <2> QED BY <1>1, <1>2, <2>1, <2>2
<1>6. NoneIsForgotten'
  BY <1>0 DEF IInv, NoneIsForgotten
<1>7. ReportsAreRecent'
  <2> SUFFICES ASSUME NEW m \in Manager, NEW n \in Node, shown[m][n] # None
               PROVE  /\ begin[m][n] <= shown[m][n].count /\ shown[m][n].count <= count'[m][n]
                      /\ begin[m][n] * Unit <= shown[m][n].size
                      /\ shown[m][n].size <= size'[m][n]
    BY <1>0 DEF ReportsAreRecent
  <2>1. /\ begin[m][n] <= shown[m][n].count /\ shown[m][n].count <= count[m][n]
        /\ begin[m][n] * Unit <= shown[m][n].size /\ shown[m][n].size <= size[m][n]
    BY DEF IInv, ReportsAreRecent
  <2> QED BY <1>1, <2>1
<1>8. AtMostOnePacketWithoutBytes'
  BY <1>0 DEF IInv, AtMostOnePacketWithoutBytes
<1> QED BY <1>3, <1>4, <1>5, <1>6, <1>7, <1>8

-----------------------------------------------------------------------------
(* AddBidirectional.                                                       *)

\* Only one of the two directions is adding.
LEMMA OneAdder ==
  ASSUME IInv, NEW d \in Direction, add[d].pc # "idle"
  PROVE  /\ add[d] \in Adder /\ lock = d /\ Current(d) \in Manager /\ NodeOf(d) \in Node
         /\ \A e \in Direction : e # d => add[e].pc = "idle"
<1>1. CountersOK /\ Exclusive
  BY DEF IInv, TypeOK
<1>2. add[d] \in Adder /\ NodeOf(d) \in Node
  <2>1. add[d] \in Adder /\ add[d].node \in [local : Node, remote : Node]
    BY <1>1 DEF CountersOK
  <2>2. add[d].side = "local" \/ add[d].side = "remote"
    BY <2>1 DEF Adder
  <2> QED BY <2>1, <2>2 DEF NodeOf
<1>3. Current(d) \in Manager
  BY <1>2 DEF Current, Manager, Adder
<1> QED BY <1>1, <1>2, <1>3 DEF Exclusive

LEMMA AddLockStep ==
  ASSUME IInv, NEW d \in Direction, NEW l \in Local, NEW r \in Remote, AddLock(d, l, r)
  PROVE  IInv'
<1> DEFINE a == [pc |-> "track", side |-> "local", node |-> [local |-> l, remote |-> r]]
<1>0. CountersOK /\ Exclusive
  BY DEF IInv, TypeOK
<1>1. /\ lock = None /\ lock' = d /\ add' = [add EXCEPT ![d] = a]
      /\ UNCHANGED <<made, tracked, count, size, reportVars>>
  BY DEF AddLock
<1>2. a \in Adder /\ a.node \in [local : Node, remote : Node]
  BY DEF Adder, Node
<1>3. add'[d] = a /\ \A e \in Direction : e # d => add'[e] = add[e] /\ add[e].pc = "idle"
  BY <1>0, <1>1, NoneAssumption DEF CountersOK, Exclusive, Direction
<1>4. CountersOK'
  <2>1. \A e \in Direction : add'[e].pc # "idle" => add'[e].node \in [local : Node, remote : Node]
    BY <1>2, <1>3
  <2>2. add' \in [Direction -> Adder] /\ lock' \in Direction \cup {None}
    BY <1>0, <1>1, <1>2 DEF CountersOK
  <2> QED BY <1>0, <1>1, <2>1, <2>2 DEF CountersOK
<1>5. Exclusive'
  BY <1>1, <1>3 DEF Exclusive
<1>6. BytesOfCounts'
  <2>1. add[d].pc = "idle"
    BY DEF AddLock
  <2>2. \A m \in Manager, n \in Node : ~HalfAdded(m, n) /\ ~HalfAdded(m, n)'
    BY <1>3, <2>1 DEF HalfAdded
  <2> QED BY <1>1, <2>2 DEF IInv, BytesOfCounts
<1>7. CountedAreTracked'
  BY <1>1, <1>3 DEF IInv, CountedAreTracked
<1>8. \A m \in Manager, n \in Node : count[m][n] <= count'[m][n]
                                     /\ size[m][n] <= size'[m][n]
  BY <1>0, <1>1 DEF CountersOK
<1> QED BY <1>1, <1>4, <1>5, <1>6, <1>7, <1>8, ReportStays DEF IInv, TypeOK

\* What a step of the adder d leaves as it is.
LEMMA AdderStays ==
  ASSUME IInv, NEW d \in Direction, add[d].pc # "idle", NEW a \in Adder,
         a.pc # "idle" => a.node \in [local : Node, remote : Node],
         add' = [add EXCEPT ![d] = a]
  PROVE  /\ add' \in [Direction -> Adder] /\ add'[d] = a
         /\ \A e \in Direction : e # d => add'[e] = add[e] /\ add[e].pc = "idle"
         /\ \A e \in Direction : add'[e].pc # "idle" => add'[e].node \in [local : Node, remote : Node]
<1>1. CountersOK
  BY DEF IInv, TypeOK
<1>2. add' \in [Direction -> Adder] /\ add'[d] = a
  BY <1>1 DEF CountersOK
<1>3. \A e \in Direction : e # d => add'[e] = add[e] /\ add[e].pc = "idle"
  BY <1>1, OneAdder DEF CountersOK
<1> QED BY <1>2, <1>3

LEMMA TrackStep ==
  ASSUME IInv, NEW d \in Direction, Track(d)
  PROVE  IInv'
<1> DEFINE m == Current(d)
           n == NodeOf(d)
           a == [add[d] EXCEPT !.pc = "count"]
<1>0. CountersOK /\ Exclusive /\ CountedAreTracked
  BY DEF IInv, TypeOK
<1>1. /\ add[d].pc = "track" /\ made' = made \cup {m} /\ add' = [add EXCEPT ![d] = a]
      /\ UNCHANGED <<lock, reportVars>>
  BY DEF Track
<1>2. /\ add[d] \in Adder /\ lock = d /\ m \in Manager /\ n \in Node
      /\ add[d].node \in [local : Node, remote : Node]
  BY <1>0, <1>1, OneAdder DEF CountersOK
<1>3. a \in Adder /\ a.pc = "count" /\ a.side = add[d].side /\ a.node = add[d].node
  BY <1>2 DEF Adder
<1>4. /\ add' \in [Direction -> Adder] /\ add'[d] = a
      /\ \A e \in Direction : e # d => add'[e] = add[e] /\ add[e].pc = "idle"
      /\ \A e \in Direction : add'[e].pc # "idle" => add'[e].node \in [local : Node, remote : Node]
  BY <1>1, <1>2, <1>3, AdderStays
<1>5. Current(d)' = m /\ NodeOf(d)' = n
  BY <1>3, <1>4 DEF Current, NodeOf
<1>6. UNCHANGED <<count, size>>
  <2>1. CASE n \in tracked[m]
    BY <2>1 DEF Track
  <2>2. CASE n \notin tracked[m]
    <3>1. count' = [count EXCEPT ![m][n] = 0] /\ size' = [size EXCEPT ![m][n] = 0]
      BY <2>2 DEF Track
    <3>2. count[m][n] = 0 /\ size[m][n] = 0
      BY <1>0, <1>2, <2>2 DEF CountedAreTracked
    <3> QED BY <1>0, <1>2, <3>1, <3>2 DEF CountersOK
  <2> QED BY <2>1, <2>2
<1>7. /\ tracked' \in [Manager -> SUBSET Node] /\ tracked'[m] = tracked[m] \cup {n}
      /\ \A k \in Manager : k # m => tracked'[k] = tracked[k]
  <2>1. CASE n \in tracked[m]
    BY <1>0, <1>2, <2>1 DEF Track, CountersOK
  <2>2. CASE n \notin tracked[m]
    <3>1. tracked' = [tracked EXCEPT ![m] = tracked[m] \cup {n}]
      BY <2>2 DEF Track
    <3> QED BY <1>0, <1>2, <3>1 DEF CountersOK
  <2> QED BY <2>1, <2>2
<1>8. CountersOK'
  BY <1>0, <1>1, <1>2, <1>4, <1>6, <1>7 DEF CountersOK
<1>9. Exclusive'
  BY <1>0, <1>1, <1>2, <1>3, <1>4 DEF Exclusive
<1>10. BytesOfCounts'
  <2>1. \A k \in Manager, j \in Node : ~HalfAdded(k, j) /\ ~HalfAdded(k, j)'
    BY <1>1, <1>3, <1>4 DEF HalfAdded
  <2> QED BY <1>6, <2>1 DEF IInv, BytesOfCounts
<1>11. CountedAreTracked'
  <2>1. \A k \in Manager, j \in Node : j \in tracked'[k] => k \in made'
    BY <1>0, <1>1, <1>7 DEF CountedAreTracked
  <2>2. \A k \in Manager, j \in Node : j \notin tracked'[k] => count'[k][j] = 0
                                       /\ size'[k][j] = 0
    BY <1>0, <1>6, <1>7 DEF CountedAreTracked
  <2>3. \A e \in Direction : add'[e].pc \in {"count", "size"} => NodeOf(e)' \in tracked'[Current(e)']
    BY <1>4, <1>5, <1>7
  <2> QED BY <2>1, <2>2, <2>3 DEF CountedAreTracked
<1>12. \A k \in Manager, j \in Node : count[k][j] <= count'[k][j]
                                      /\ size[k][j] <= size'[k][j]
  BY <1>0, <1>6 DEF CountersOK
<1> QED BY <1>1, <1>8, <1>9, <1>10, <1>11, <1>12, ReportStays DEF IInv, TypeOK

LEMMA AddCountStep ==
  ASSUME IInv, NEW d \in Direction, AddCount(d)
  PROVE  IInv'
<1> DEFINE m == Current(d)
           n == NodeOf(d)
           a == [add[d] EXCEPT !.pc = "size"]
<1>0. CountersOK /\ Exclusive /\ CountedAreTracked /\ BytesOfCounts
  BY DEF IInv, TypeOK
<1>1. /\ add[d].pc = "count" /\ add' = [add EXCEPT ![d] = a]
      /\ count' = [count EXCEPT ![m][n] = count[m][n] + 1]
      /\ UNCHANGED <<made, tracked, size, lock, reportVars>>
  BY DEF AddCount
<1>2. /\ add[d] \in Adder /\ lock = d /\ m \in Manager /\ n \in Node
      /\ add[d].node \in [local : Node, remote : Node]
  BY <1>0, <1>1, OneAdder DEF CountersOK
<1>3. a \in Adder /\ a.pc = "size" /\ a.side = add[d].side /\ a.node = add[d].node
  BY <1>2 DEF Adder
<1>4. /\ add' \in [Direction -> Adder] /\ add'[d] = a
      /\ \A e \in Direction : e # d => add'[e] = add[e] /\ add[e].pc = "idle"
      /\ \A e \in Direction : add'[e].pc # "idle" => add'[e].node \in [local : Node, remote : Node]
  BY <1>1, <1>2, <1>3, AdderStays
<1>5. Current(d)' = m /\ NodeOf(d)' = n
  BY <1>3, <1>4 DEF Current, NodeOf
<1>6. /\ count' \in [Manager -> [Node -> Nat]] /\ count'[m][n] = count[m][n] + 1
      /\ count[m][n] \in Nat /\ size[m][n] \in Nat
      /\ \A k \in Manager, j \in Node : k # m \/ j # n => count'[k][j] = count[k][j]
  BY <1>0, <1>1, <1>2 DEF CountersOK
<1>7. CountersOK'
  BY <1>0, <1>1, <1>4, <1>6 DEF CountersOK
<1>8. Exclusive'
  BY <1>0, <1>1, <1>2, <1>3, <1>4 DEF Exclusive
<1>9. BytesOfCounts'
  <2>1. \A k \in Manager, j \in Node : ~HalfAdded(k, j)
    BY <1>1, <1>4 DEF HalfAdded
  <2>2. \A k \in Manager, j \in Node : HalfAdded(k, j)' <=> k = m /\ j = n
    BY <1>3, <1>4, <1>5 DEF HalfAdded
  <2>3. size[m][n] + Unit = (count[m][n] + 1) * Unit
    <3>1. size[m][n] = count[m][n] * Unit
      BY <1>0, <1>2, <2>1 DEF BytesOfCounts
    <3> QED BY <1>6, <3>1, UnitAssumption
  <2>4. ASSUME NEW k \in Manager, NEW j \in Node
        PROVE  IF HalfAdded(k, j)' THEN size'[k][j] + Unit = count'[k][j] * Unit
                                   ELSE size'[k][j] = count'[k][j] * Unit
    <3>1. CASE k = m /\ j = n
      BY <1>1, <1>6, <2>2, <2>3, <3>1
    <3>2. CASE ~(k = m /\ j = n)
      <4>1. size[k][j] = count[k][j] * Unit
        BY <1>0, <2>1 DEF BytesOfCounts
      <4> QED BY <1>1, <1>6, <2>2, <3>2, <4>1
    <3> QED BY <3>1, <3>2
  <2> QED BY <2>4 DEF BytesOfCounts
<1>10. CountedAreTracked'
  <2>1. n \in tracked[m]
    BY <1>0, <1>1 DEF CountedAreTracked
  <2>2. \A e \in Direction : add'[e].pc \in {"count", "size"} => NodeOf(e)' \in tracked'[Current(e)']
    BY <1>1, <1>4, <1>5, <2>1
  <2>3. \A k \in Manager, j \in Node : j \notin tracked'[k] => count'[k][j] = 0
                                       /\ size'[k][j] = 0
    BY <1>0, <1>1, <1>6, <2>1 DEF CountedAreTracked
  <2> QED BY <1>0, <1>1, <2>2, <2>3 DEF CountedAreTracked
<1>11. \A k \in Manager, j \in Node : count[k][j] <= count'[k][j]
                                      /\ size[k][j] <= size'[k][j]
  <2>1. \A k \in Manager, j \in Node : count[k][j] \in Nat /\ size[k][j] \in Nat
    BY <1>0 DEF CountersOK
  <2> QED BY <1>1, <1>6, <2>1
<1> QED BY <1>1, <1>7, <1>8, <1>9, <1>10, <1>11, ReportStays DEF IInv, TypeOK

LEMMA AddSizeStep ==
  ASSUME IInv, NEW d \in Direction, AddSize(d)
  PROVE  IInv'
<1> DEFINE m == Current(d)
           n == NodeOf(d)
           a == IF More(d) THEN [add[d] EXCEPT !.pc = "track", !.side = "remote"] ELSE AddIdle
<1>0. CountersOK /\ Exclusive /\ CountedAreTracked /\ BytesOfCounts
  BY DEF IInv, TypeOK
<1>1. /\ add[d].pc = "size" /\ add' = [add EXCEPT ![d] = a]
      /\ size' = [size EXCEPT ![m][n] = size[m][n] + Unit]
      /\ lock' = (IF More(d) THEN lock ELSE None)
      /\ UNCHANGED <<made, tracked, count, reportVars>>
  BY DEF AddSize
<1>2. /\ add[d] \in Adder /\ lock = d /\ m \in Manager /\ n \in Node
      /\ add[d].node \in [local : Node, remote : Node]
  BY <1>0, <1>1, OneAdder DEF CountersOK
<1>3. /\ a \in Adder /\ a.pc # "size" /\ a.pc # "count" /\ (a.pc # "idle" <=> More(d))
      /\ a.pc # "idle" => a.node \in [local : Node, remote : Node]
  <2>1. CASE More(d)
    BY <1>2, <2>1 DEF Adder
  <2>2. CASE ~More(d)
    BY <2>2 DEF Adder, AddIdle
  <2> QED BY <2>1, <2>2
<1>4. /\ add' \in [Direction -> Adder] /\ add'[d] = a
      /\ \A e \in Direction : e # d => add'[e] = add[e] /\ add[e].pc = "idle"
      /\ \A e \in Direction : add'[e].pc # "idle" => add'[e].node \in [local : Node, remote : Node]
  <2> HIDE DEF a
  <2> QED BY <1>1, <1>2, <1>3, AdderStays
<1>5. /\ size' \in [Manager -> [Node -> Nat]] /\ size'[m][n] = size[m][n] + Unit
      /\ count[m][n] \in Nat /\ size[m][n] \in Nat
      /\ \A k \in Manager, j \in Node : k # m \/ j # n => size'[k][j] = size[k][j]
  BY <1>0, <1>1, <1>2, UnitAssumption DEF CountersOK
<1>6. CountersOK'
  <2>1. lock' \in Direction \cup {None}
    BY <1>1, <1>2
  <2> QED BY <1>0, <1>1, <1>4, <1>5, <2>1 DEF CountersOK
<1>7. Exclusive'
  <2>1. None \notin Direction
    BY NoneAssumption DEF Direction
  <2> HIDE DEF a
  <2> QED BY <1>1, <1>2, <1>3, <1>4, <2>1 DEF Exclusive
<1>8. BytesOfCounts'
  <2>1. \A k \in Manager, j \in Node : ~HalfAdded(k, j)'
    <3> HIDE DEF a
    <3> QED BY <1>3, <1>4 DEF HalfAdded
  <2>2. \A k \in Manager, j \in Node : HalfAdded(k, j) <=> k = m /\ j = n
    BY <1>1, <1>4 DEF HalfAdded
  <2>3. ASSUME NEW k \in Manager, NEW j \in Node PROVE size'[k][j] = count'[k][j] * Unit
    <3>1. CASE k = m /\ j = n
      BY <1>0, <1>1, <1>2, <1>5, <2>2, <3>1 DEF BytesOfCounts
    <3>2. CASE ~(k = m /\ j = n)
      BY <1>0, <1>1, <1>5, <2>2, <3>2 DEF BytesOfCounts
    <3> QED BY <3>1, <3>2
  <2> QED BY <2>1, <2>3 DEF BytesOfCounts
<1>9. CountedAreTracked'
  <2>1. n \in tracked[m]
    BY <1>0, <1>1 DEF CountedAreTracked
  <2>2. \A e \in Direction : add'[e].pc \notin {"count", "size"}
    <3> HIDE DEF a
    <3> QED BY <1>3, <1>4
  <2>3. \A k \in Manager, j \in Node : j \notin tracked'[k] => count'[k][j] = 0
                                       /\ size'[k][j] = 0
    BY <1>0, <1>1, <1>5, <2>1 DEF CountedAreTracked
  <2> QED BY <1>0, <1>1, <2>2, <2>3 DEF CountedAreTracked
<1>10. \A k \in Manager, j \in Node : count[k][j] <= count'[k][j]
                                      /\ size[k][j] <= size'[k][j]
  <2>1. \A k \in Manager, j \in Node : count[k][j] \in Nat /\ size[k][j] \in Nat
    BY <1>0 DEF CountersOK
  <2> QED BY <1>1, <1>5, <2>1, UnitAssumption
<1> QED BY <1>1, <1>6, <1>7, <1>8, <1>9, <1>10, ReportStays DEF IInv, TypeOK

-----------------------------------------------------------------------------
(* The report.                                                             *)

\* A step that neither takes the lock nor reads a counter.
LEMMA NothingIsRead ==
  ASSUME IInv, UNCHANGED <<made, tracked, count, size, lock, add, shown, begin>>,
         report' \in Reporter, report'.pc # "size",
         report'.pc \in {"nodes", "count"} => report'.manager \in Manager,
         NoneIsForgotten'
  PROVE  IInv'
<1>1. ReportOK'
  BY DEF IInv, TypeOK, ReportOK
<1>2. BeginIsPast' /\ ReadIsRecent' /\ ReportsAreRecent' /\ AtMostOnePacketWithoutBytes'
  BY DEF IInv, BeginIsPast, ReadIsRecent, ReportsAreRecent, AtMostOnePacketWithoutBytes
<1> QED BY <1>1, <1>2, CountersStay DEF IInv, TypeOK

LEMMA RequestStep ==
  ASSUME IInv, Request
  PROVE  IInv'
<1>1. /\ report.pc = "idle" /\ report' = [ReportIdle EXCEPT !.pc = "rlock"]
      /\ UNCHANGED <<made, tracked, count, size, lock, add, shown, begin>>
  BY DEF Request
<1>2. report' \in Reporter /\ report'.pc = "rlock" /\ report'.done = {}
  BY <1>1 DEF ReportIdle, Reporter
<1>3. NoneIsForgotten'
  BY <1>1, <1>2 DEF IInv, NoneIsForgotten
<1> QED BY <1>1, <1>2, <1>3, NothingIsRead

LEMMA RLockStep ==
  ASSUME IInv, RLock
  PROVE  IInv'
<1>0. CountersOK /\ ReportOK /\ Exclusive /\ BytesOfCounts /\ NoneIsForgotten
  BY DEF IInv, TypeOK
<1>1. /\ report.pc = "rlock" /\ lock = None /\ report' = [report EXCEPT !.pc = "pointers"]
      /\ begin' = count /\ UNCHANGED <<made, tracked, count, size, lock, add, shown>>
  BY DEF RLock
<1>2. report' \in Reporter /\ report'.pc = "pointers" /\ report'.done = report.done
  BY <1>0, <1>1 DEF ReportOK, Reporter
<1>3. ReportOK'
  BY <1>0, <1>1, <1>2 DEF ReportOK, CountersOK
<1>4. shown = NotShown /\ report.done = {}
  BY <1>0, <1>1 DEF NoneIsForgotten
<1>5. \A m \in Manager, n \in Node : shown[m][n] = None
  BY <1>4 DEF NotShown
<1>6. BeginIsPast'
  <2> SUFFICES ASSUME NEW m \in Manager, NEW n \in Node
               PROVE  count[m][n] <= count[m][n] /\ count[m][n] * Unit <= size[m][n]
    BY <1>1 DEF BeginIsPast
  <2>1. ~HalfAdded(m, n)
    BY <1>0, <1>1, NoneAssumption DEF HalfAdded, Exclusive, Direction
  <2>2. size[m][n] = count[m][n] * Unit /\ count[m][n] \in Nat /\ size[m][n] \in Nat
    BY <1>0, <2>1 DEF BytesOfCounts, CountersOK
  <2> QED BY <2>2
<1>7. ReadIsRecent' /\ ReportsAreRecent' /\ AtMostOnePacketWithoutBytes'
  BY <1>1, <1>2, <1>5 DEF ReadIsRecent, ReportsAreRecent, AtMostOnePacketWithoutBytes
<1>8. NoneIsForgotten'
  BY <1>1, <1>2, <1>4 DEF NoneIsForgotten, NotShown
<1> QED BY <1>1, <1>3, <1>6, <1>7, <1>8, CountersStay DEF IInv, TypeOK

\* A node that had been counted is in the map of its manager.
LEMMA BegunIsTracked ==
  ASSUME IInv, NEW m \in Manager, NEW n \in Node, begin[m][n] > 0
  PROVE  n \in tracked[m] /\ m \in made
<1>1. begin[m][n] \in Nat /\ count[m][n] \in Nat /\ begin[m][n] <= count[m][n]
  BY DEF IInv, TypeOK, CountersOK, ReportOK, BeginIsPast
<1>2. count[m][n] # 0
  BY <1>1
<1> QED BY <1>2 DEF IInv, CountedAreTracked

LEMMA PointersStep ==
  ASSUME IInv, Pointers
  PROVE  IInv'
<1>0. made \in SUBSET Manager /\ report \in Reporter /\ NoneIsForgotten
  BY DEF IInv, TypeOK, CountersOK, ReportOK
<1>1. /\ report.pc = "pointers"
      /\ report' = [report EXCEPT !.pc = "next", !.managers = made]
      /\ UNCHANGED <<made, tracked, count, size, lock, add, shown, begin>>
  BY DEF Pointers
<1>2. /\ report' \in Reporter /\ report'.pc = "next" /\ report'.managers = made
      /\ report'.done = report.done
  BY <1>0, <1>1 DEF Reporter
<1>3. report.done = {}
  BY <1>0, <1>1 DEF NoneIsForgotten
<1>4. NoneIsForgotten'
  BY <1>1, <1>2, <1>3, BegunIsTracked DEF NoneIsForgotten
<1> QED BY <1>1, <1>2, <1>4, NothingIsRead

LEMMA NextManagerStep ==
  ASSUME IInv, NEW m \in Manager, NextManager(m)
  PROVE  IInv'
<1>0. report \in Reporter /\ NoneIsForgotten
  BY DEF IInv, TypeOK, ReportOK
<1>1. /\ report.pc = "next" /\ report' = [report EXCEPT !.pc = "nodes", !.manager = m]
      /\ UNCHANGED <<made, tracked, count, size, lock, add, shown, begin>>
  BY DEF NextManager
<1>2. /\ report' \in Reporter /\ report'.pc = "nodes" /\ report'.manager = m
      /\ report'.managers = report.managers /\ report'.done = report.done
  BY <1>0, <1>1 DEF Reporter
<1>3. NoneIsForgotten'
  BY <1>0, <1>1, <1>2 DEF NoneIsForgotten
<1> QED BY <1>1, <1>2, <1>3, NothingIsRead

LEMMA NodesStep ==
  ASSUME IInv, Nodes
  PROVE  IInv'
<1>0. /\ tracked \in [Manager -> SUBSET Node] /\ report \in Reporter /\ NoneIsForgotten
  BY DEF IInv, TypeOK, CountersOK, ReportOK
<1>1. /\ report.pc = "nodes"
      /\ report' = [report EXCEPT !.pc = "count", !.nodes = tracked[report.manager]]
      /\ UNCHANGED <<made, tracked, count, size, lock, add, shown, begin>>
  BY DEF Nodes
<1>2. report.manager \in Manager
  BY <1>1 DEF IInv, TypeOK, ReportOK
<1>3. /\ report' \in Reporter /\ report'.pc = "count"
      /\ report'.nodes = tracked[report.manager]
      /\ report'.managers = report.managers /\ report'.done = report.done
      /\ report'.manager = report.manager
  BY <1>0, <1>1, <1>2 DEF Reporter
<1>4. NoneIsForgotten'
  BY <1>0, <1>1, <1>3, BegunIsTracked DEF NoneIsForgotten
<1> QED BY <1>1, <1>2, <1>3, <1>4, NothingIsRead

LEMMA ManagerDoneStep ==
  ASSUME IInv, ManagerDone
  PROVE  IInv'
<1>0. report \in Reporter /\ NoneIsForgotten
  BY DEF IInv, TypeOK, CountersOK, ReportOK
<1>1. /\ report.pc = "count" /\ report.nodes = {}
      /\ report' = [report EXCEPT !.pc = "next", !.done = report.done \cup {report.manager},
                                  !.manager = None, !.node = None, !.count = 0]
      /\ UNCHANGED <<made, tracked, count, size, lock, add, shown, begin>>
  BY DEF ManagerDone
<1>2. report.manager \in Manager
  BY <1>1 DEF IInv, TypeOK, ReportOK
<1>3. /\ report' \in Reporter /\ report'.pc = "next" /\ report'.managers = report.managers
      /\ report'.done = report.done \cup {report.manager}
  BY <1>0, <1>1, <1>2 DEF Reporter
<1>4. NoneIsForgotten'
  BY <1>0, <1>1, <1>3 DEF NoneIsForgotten
<1> QED BY <1>1, <1>2, <1>3, <1>4, NothingIsRead

LEMMA ReadCountStep ==
  ASSUME IInv, NEW n \in Node, ReadCount(n)
  PROVE  IInv'
<1> DEFINE m == report.manager
<1>0. CountersOK /\ ReportOK /\ report \in Reporter /\ NoneIsForgotten
  BY DEF IInv, TypeOK, ReportOK
<1>1. /\ report.pc = "count" /\ n \in report.nodes
      /\ report' = [report EXCEPT !.pc = "size", !.node = n, !.count = count[m][n]]
      /\ UNCHANGED <<made, tracked, count, size, lock, add, shown, begin>>
  BY DEF ReadCount
<1>2. m \in Manager
  BY <1>0, <1>1 DEF ReportOK
<1>3. /\ count[m][n] \in Nat /\ size[m][n] \in Nat /\ begin[m][n] \in Nat
  BY <1>0, <1>2 DEF CountersOK, ReportOK
<1>4. /\ report' \in Reporter /\ report'.pc = "size" /\ report'.manager = m
      /\ report'.node = n
      /\ report'.count = count[m][n] /\ report'.nodes = report.nodes
      /\ report'.managers = report.managers /\ report'.done = report.done
  BY <1>0, <1>1, <1>3 DEF Reporter
<1>5. ReportOK'
  BY <1>0, <1>1, <1>2, <1>4 DEF ReportOK
<1>6. BeginIsPast' /\ ReportsAreRecent' /\ AtMostOnePacketWithoutBytes'
  BY <1>1 DEF IInv, BeginIsPast, ReportsAreRecent, AtMostOnePacketWithoutBytes
<1>7. ReadIsRecent'
  <2>1. begin[m][n] <= count[m][n]
    BY <1>2 DEF IInv, BeginIsPast
  <2>2. count[m][n] * Unit <= size[m][n] + Unit
    <3>1. size[m][n] + Unit = count[m][n] * Unit \/ size[m][n] = count[m][n] * Unit
      BY <1>2 DEF IInv, BytesOfCounts
    <3> QED BY <1>3, <3>1, UnitAssumption
  <2> QED BY <1>1, <1>3, <1>4, <2>1, <2>2 DEF ReadIsRecent
<1>8. NoneIsForgotten'
  BY <1>0, <1>1, <1>4 DEF NoneIsForgotten
<1> QED BY <1>1, <1>5, <1>6, <1>7, <1>8, CountersStay DEF IInv, TypeOK

\* The size is read after the count: it is of the same time or a later one.
LEMMA ReadSizeStep ==
  ASSUME IInv, ReadSize
  PROVE  IInv'
<1> DEFINE m == report.manager
           n == report.node
           v == [count |-> report.count, size |-> size[m][n]]
<1>0. CountersOK /\ ReportOK /\ report \in Reporter /\ NoneIsForgotten
  BY DEF IInv, TypeOK, ReportOK
<1>1. /\ report.pc = "size" /\ shown' = [shown EXCEPT ![m][n] = v]
      /\ report' = [report EXCEPT !.pc = "count", !.nodes = report.nodes \ {n}]
      /\ UNCHANGED <<made, tracked, count, size, lock, add, begin>>
  BY DEF ReadSize
<1>2. m \in Manager /\ n \in Node /\ report.count \in Nat
  BY <1>0, <1>1 DEF ReportOK, Reporter
<1>3. /\ count[m][n] \in Nat /\ size[m][n] \in Nat /\ begin[m][n] \in Nat
  BY <1>0, <1>2 DEF CountersOK, ReportOK
<1>4. v \in [count : Nat, size : Nat] /\ v # None
  BY <1>2, <1>3, NoneAssumption
<1>5. /\ shown' \in [Manager -> [Node -> [count : Nat, size : Nat] \cup {None}]]
      /\ shown'[m][n] = v
      /\ \A k \in Manager, j \in Node : k # m \/ j # n => shown'[k][j] = shown[k][j]
  <2>1. shown \in [Manager -> [Node -> [count : Nat, size : Nat] \cup {None}]]
    BY <1>0 DEF ReportOK
  <2> HIDE DEF v
  <2> QED BY <1>1, <1>2, <1>4, <2>1
<1>6. /\ report' \in Reporter /\ report'.pc = "count" /\ report'.manager = m
      /\ report'.nodes = report.nodes \ {n}
      /\ report'.managers = report.managers /\ report'.done = report.done
  BY <1>0, <1>1 DEF Reporter
<1>7. ReportOK'
  BY <1>0, <1>1, <1>2, <1>5, <1>6 DEF ReportOK
<1>8. BeginIsPast' /\ ReadIsRecent'
  BY <1>1, <1>6 DEF IInv, BeginIsPast, ReadIsRecent
<1>9. /\ begin[m][n] <= report.count /\ report.count <= count[m][n]
      /\ report.count * Unit <= size[m][n] + Unit /\ begin[m][n] * Unit <= size[m][n]
  BY <1>1, <1>2 DEF IInv, ReadIsRecent, BeginIsPast
<1>10. ReportsAreRecent'
  <2> SUFFICES ASSUME NEW k \in Manager, NEW j \in Node, shown'[k][j] # None
               PROVE  /\ begin[k][j] <= shown'[k][j].count /\ shown'[k][j].count <= count[k][j]
                      /\ begin[k][j] * Unit <= shown'[k][j].size
                      /\ shown'[k][j].size <= size[k][j]
    BY <1>1 DEF ReportsAreRecent
  <2>1. CASE k = m /\ j = n
    BY <1>3, <1>5, <1>9, <2>1
  <2>2. CASE ~(k = m /\ j = n)
    BY <1>5, <2>2 DEF IInv, ReportsAreRecent
  <2> QED BY <2>1, <2>2
<1>11. AtMostOnePacketWithoutBytes'
  <2> SUFFICES ASSUME NEW k \in Manager, NEW j \in Node, shown'[k][j] # None
               PROVE  shown'[k][j].count * Unit <= shown'[k][j].size + Unit
    BY DEF AtMostOnePacketWithoutBytes
  <2>1. CASE k = m /\ j = n
    BY <1>5, <1>9, <2>1
  <2>2. CASE ~(k = m /\ j = n)
    BY <1>5, <2>2 DEF IInv, AtMostOnePacketWithoutBytes
  <2> QED BY <2>1, <2>2
<1>12. NoneIsForgotten'
  <2>1. \A k \in Manager, j \in Node : shown[k][j] # None => shown'[k][j] # None
    BY <1>4, <1>5
  <2>2. shown'[m][n] # None
    BY <1>4, <1>5
  <2> HIDE DEF v
  <2> QED BY <1>0, <1>1, <1>6, <2>1, <2>2 DEF NoneIsForgotten
<1> QED BY <1>1, <1>7, <1>8, <1>10, <1>11, <1>12, CountersStay DEF IInv, TypeOK

\* The report is over, the counters stay.
LEMMA RespondStep ==
  ASSUME IInv, Respond
  PROVE  IInv'
<1>0. CountersOK
  BY DEF IInv, TypeOK
<1>1. /\ report' = ReportIdle /\ shown' = NotShown /\ begin' = Zero
      /\ UNCHANGED <<made, tracked, count, size, lock, add>>
  BY DEF Respond
<1>2. report' \in Reporter /\ report'.pc = "idle" /\ report'.done = {}
  BY <1>1 DEF ReportIdle, Reporter
<1>3. ReportOK'
  BY <1>1, <1>2 DEF ReportOK, NotShown, Zero
<1>4. \A m \in Manager, n \in Node : shown'[m][n] = None /\ begin'[m][n] = 0
  BY <1>1 DEF NotShown, Zero
<1>5. BeginIsPast'
  <2>1. \A m \in Manager, n \in Node : count[m][n] \in Nat /\ size[m][n] \in Nat
    BY <1>0 DEF CountersOK
  <2>2. 0 * Unit = 0
    BY UnitAssumption
  <2> QED BY <1>1, <1>4, <2>1, <2>2 DEF BeginIsPast
<1>6. ReadIsRecent' /\ ReportsAreRecent' /\ AtMostOnePacketWithoutBytes'
  BY <1>2, <1>4 DEF ReadIsRecent, ReportsAreRecent, AtMostOnePacketWithoutBytes
<1>7. NoneIsForgotten'
  BY <1>1, <1>2, <1>4 DEF NoneIsForgotten, NotShown
<1> QED BY <1>1, <1>3, <1>5, <1>6, <1>7, CountersStay DEF IInv, TypeOK

-----------------------------------------------------------------------------
(* The start.                                                              *)

\* The state in which a program starts, whether for the first time or again.
Fresh ==
  /\ made = {"local"} \X Direction /\ tracked = [m \in Manager |-> {}]
  /\ count = Zero /\ size = Zero /\ lock = None /\ add = [d \in Direction |-> AddIdle]
  /\ report = ReportIdle /\ shown = NotShown /\ begin = Zero

LEMMA FreshIsGood ==
  ASSUME Fresh
  PROVE  IInv
<1>1. \A m \in Manager, n \in Node : /\ count[m][n] = 0 /\ size[m][n] = 0 /\ begin[m][n] = 0
                                     /\ shown[m][n] = None /\ tracked[m] = {}
  BY DEF Fresh, Zero, NotShown
<1>2. \A d \in Direction : add[d].pc = "idle"
  BY DEF Fresh, AddIdle
<1>3. report \in Reporter /\ report.pc = "idle" /\ report.done = {}
  BY DEF Fresh, ReportIdle, Reporter
<1>4. CountersOK
  <2>1. AddIdle \in Adder
    BY DEF AddIdle, Adder
  <2>2. made \in SUBSET Manager
    BY DEF Fresh, Manager
  <2> QED BY <1>2, <2>1, <2>2 DEF Fresh, CountersOK, Zero
<1>5. ReportOK
  BY <1>3 DEF Fresh, ReportOK, NotShown, Zero
<1>6. 0 * Unit = 0
  BY UnitAssumption
<1>7. Exclusive
  BY <1>2, NoneAssumption DEF Fresh, Exclusive, Direction
<1>8. BytesOfCounts
  BY <1>1, <1>2, <1>6 DEF BytesOfCounts, HalfAdded
<1>9. CountedAreTracked
  BY <1>1, <1>2 DEF CountedAreTracked
<1>10. BeginIsPast /\ ReadIsRecent /\ ReportsAreRecent /\ AtMostOnePacketWithoutBytes
  BY <1>1, <1>3, <1>6
     DEF BeginIsPast, ReadIsRecent, ReportsAreRecent, AtMostOnePacketWithoutBytes
<1>11. NoneIsForgotten
  BY <1>1, <1>3 DEF Fresh, NoneIsForgotten, NotShown
<1> QED BY <1>4, <1>5, <1>7, <1>8, <1>9, <1>10, <1>11 DEF IInv, TypeOK

-----------------------------------------------------------------------------
(* Induction, and sums over finite sets.                                   *)

\* A set of naturals that has 0 and with every number the next has them all.
LEMMA Induction ==
  ASSUME NEW B, 0 \in B, \A n \in Nat : n \in B => n + 1 \in B
  PROVE  \A n \in Nat : n \in B
<1>1. PICK R : R = OpToRel(<, Nat)
  OBVIOUS
<1>2. IsWellFoundedOn(R, Nat)
  BY <1>1, NatLessThanWellFounded, Zenon
<1>3. \A x, y \in Nat : y < x => <<y, x>> \in R
  BY <1>1, Zenon DEF OpToRel
<1>4. SUFFICES ASSUME Nat \ B # {} PROVE FALSE
  OBVIOUS
<1>5. \E x \in Nat \ B : \A y \in Nat \ B : <<y, x>> \notin R
  <2>1. (Nat \ B) \subseteq Nat
    OBVIOUS
  <2> QED BY <1>2, <1>4, <2>1, WFMin, Zenon
<1>6. PICK x \in Nat \ B : \A y \in Nat \ B : <<y, x>> \notin R
  BY <1>5
<1>7. x # 0
  OBVIOUS
<1>8. PICK y : y = x - 1
  OBVIOUS
<1>9. y \in Nat /\ y < x /\ y + 1 = x
  BY <1>7, <1>8
<1>10. <<y, x>> \in R
  BY <1>3, <1>9, Zenon
<1>11. y \in B
  BY <1>6, <1>9, <1>10, Zenon
<1> QED BY <1>9, <1>11

\* The elements of a finite set are taken out one by one: what holds of the
\* empty set, and of a set if it holds without the element that is taken first,
\* holds of every subset.
Taken(s) == CHOOSE x \in s : TRUE

LEMMA TakenIsElement ==
  ASSUME NEW s, s # {}
  PROVE  Taken(s) \in s
BY DEF Taken

LEMMA SubsetFacts ==
  ASSUME NEW S, IsFiniteSet(S), NEW s \in SUBSET S
  PROVE  /\ IsFiniteSet(s) /\ Cardinality(s) \in Nat /\ Cardinality(S) \in Nat
         /\ Cardinality(s) <= Cardinality(S)
         /\ Cardinality(s) = 0 <=> s = {}
         /\ s # {} => Cardinality(s \ {Taken(s)}) + 1 = Cardinality(s)
<1>1. IsFiniteSet(s) /\ Cardinality(s) <= Cardinality(S)
  BY FS_Subset
<1>2. Cardinality(s) \in Nat /\ Cardinality(S) \in Nat
  BY <1>1, FS_CardinalityType
<1>3. Cardinality(s) = 0 <=> s = {}
  BY <1>1, FS_EmptySet
<1>4. ASSUME s # {} PROVE Cardinality(s \ {Taken(s)}) + 1 = Cardinality(s)
  <2>1. PICK x : x = Taken(s)
    OBVIOUS
  <2>2. x \in s
    BY <1>4, <2>1, TakenIsElement
  <2>3. Cardinality(s \ {x}) = Cardinality(s) - 1
    BY <1>1, <2>2, FS_RemoveElement
  <2> QED BY <1>2, <2>1, <2>3
<1> QED BY <1>1, <1>2, <1>3, <1>4

LEMMA SubsetInduction ==
  ASSUME NEW S, IsFiniteSet(S), NEW B, {} \in B,
         \A s \in SUBSET S : s # {} /\ s \ {Taken(s)} \in B => s \in B
  PROVE  \A s \in SUBSET S : s \in B
<1> DEFINE P == {n \in Nat : \A s \in SUBSET S : Cardinality(s) = n => s \in B}
<1>1. 0 \in P
  BY SubsetFacts
<1>2. ASSUME NEW n \in Nat, n \in P PROVE n + 1 \in P
  <2> SUFFICES ASSUME NEW s \in SUBSET S, Cardinality(s) = n + 1 PROVE s \in B
    OBVIOUS
  <2>1. s # {} /\ Cardinality(s \ {Taken(s)}) + 1 = n + 1
    BY SubsetFacts
  <2>2. PICK c : c = Cardinality(s \ {Taken(s)})
    OBVIOUS
  <2>3. s \ {Taken(s)} \in SUBSET S
    OBVIOUS
  <2>4. c \in Nat
    BY <2>2, <2>3, SubsetFacts
  <2>5. c = n
    BY <2>1, <2>2, <2>4
  <2> QED BY <1>2, <2>1, <2>2, <2>3, <2>5
<1> HIDE DEF P
<1>3. \A n \in Nat : n \in P
  BY <1>1, <1>2, Induction
<1> QED BY <1>3, SubsetFacts DEF P

\* A sum of g, as MapThenSumSet defines it.
Summed(g, f, s) == IF s = {} THEN 0 ELSE g[Taken(s)] + f[s \ {Taken(s)}]

IsSum(g, f, S) == f = [s \in SUBSET S |-> Summed(g, f, s)]

LEMMA SumExists ==
  ASSUME NEW S, IsFiniteSet(S), NEW g
  PROVE  \E f : IsSum(g, f, S)
<1> DEFINE Upto(n) == {s \in SUBSET S : Cardinality(s) <= n}
           P == {n \in Nat : \E f : f = [s \in Upto(n) |-> Summed(g, f, s)]}
<1>1. 0 \in P
  <2>1. PICK f : f = [s \in Upto(0) |-> 0]
    OBVIOUS
  <2>2. ASSUME NEW s \in Upto(0) PROVE s = {}
    <3>1. Cardinality(s) \in Nat /\ Cardinality(s) <= 0 /\ (Cardinality(s) = 0 <=> s = {})
      BY SubsetFacts
    <3> QED BY <3>1
  <2>3. f = [s \in Upto(0) |-> Summed(g, f, s)]
    BY <2>1, <2>2 DEF Summed
  <2> QED BY <2>3
<1>2. ASSUME NEW n \in Nat, n \in P PROVE n + 1 \in P
  <2>1. PICK f : f = [s \in Upto(n) |-> Summed(g, f, s)]
    BY <1>2
  <2>2. PICK h : h = [s \in Upto(n + 1) |-> Summed(g, f, s)]
    OBVIOUS
  <2>3. ASSUME NEW s \in Upto(n + 1), s # {} PROVE s \ {Taken(s)} \in Upto(n)
    <3>1. s \in SUBSET S /\ s \ {Taken(s)} \in SUBSET S
      OBVIOUS
    <3>2. PICK c : c = Cardinality(s \ {Taken(s)})
      OBVIOUS
    <3>3. c \in Nat /\ c + 1 = Cardinality(s) /\ Cardinality(s) <= n + 1
      BY <2>3, <3>1, <3>2, SubsetFacts
    <3>4. c <= n
      BY <3>3
    <3> QED BY <3>1, <3>2, <3>4
  <2>4. ASSUME NEW s \in Upto(n) PROVE s \in Upto(n + 1)
    <3>1. Cardinality(s) \in Nat
      BY SubsetFacts
    <3> QED BY <3>1
  <2> HIDE DEF Upto
  <2>5. \A s \in Upto(n) : h[s] = f[s]
    BY <2>1, <2>2, <2>4
  <2>6. \A s \in Upto(n + 1) : Summed(g, f, s) = Summed(g, h, s)
    BY <2>3, <2>5 DEF Summed
  <2>7. h = [s \in Upto(n + 1) |-> Summed(g, h, s)]
    BY <2>2, <2>6
  <2> QED BY <2>7
<1> HIDE DEF P
<1>3. Cardinality(S) \in P
  BY <1>1, <1>2, Induction, FS_CardinalityType
<1>4. Upto(Cardinality(S)) = SUBSET S
  BY SubsetFacts
<1>5. PICK f : f = [s \in Upto(Cardinality(S)) |-> Summed(g, f, s)]
  BY <1>3 DEF P
<1> QED BY <1>4, <1>5 DEF IsSum

\* One of the numbers is k more.
Raised(g, h, S, x, k) ==
  /\ g \in [S -> Nat] /\ h \in [S -> Nat] /\ x \in S /\ k \in Nat
  /\ h[x] = g[x] + k /\ \A y \in S \ {x} : h[y] = g[y]

\* Then the sum is k more, too.
LEMMA SumAdds ==
  ASSUME NEW S, NEW g, NEW h, NEW e, NEW i, NEW x, NEW k,
         IsFiniteSet(S), IsSum(g, e, S), IsSum(h, i, S), Raised(g, h, S, x, k)
  PROVE  e[S] \in Nat /\ i[S] = e[S] + k
<1> USE DEF Raised
<1> DEFINE B == {s \in SUBSET S : e[s] \in Nat /\ i[s] = e[s] + (IF x \in s THEN k ELSE 0)}
<1>0. \A s \in SUBSET S : e[s] = Summed(g, e, s) /\ i[s] = Summed(h, i, s)
  BY DEF IsSum
<1>1. {} \in B
  <2>1. e[{}] = 0 /\ i[{}] = 0 /\ {} \in SUBSET S
    BY <1>0 DEF Summed
  <2> QED BY <2>1
<1>2. ASSUME NEW s \in SUBSET S, s # {}, s \ {Taken(s)} \in B PROVE s \in B
  <2>1. PICK y : y = Taken(s)
    OBVIOUS
  <2>2. y \in s /\ y \in S
    BY <1>2, <2>1, TakenIsElement
  <2>3. e[s] = g[y] + e[s \ {y}] /\ i[s] = h[y] + i[s \ {y}]
    BY <1>0, <1>2, <2>1 DEF Summed
  <2>4. PICK p, q : p = e[s \ {y}] /\ q = i[s \ {y}]
    OBVIOUS
  <2>5. p \in Nat /\ q = p + (IF x \in s \ {y} THEN k ELSE 0) /\ g[y] \in Nat
        /\ h[y] \in Nat
    BY <1>2, <2>1, <2>2, <2>4
  <2>6. CASE y = x
    BY <2>2, <2>3, <2>4, <2>5, <2>6
  <2>7. CASE y # x
    BY <2>2, <2>3, <2>4, <2>5, <2>7
  <2> QED BY <2>6, <2>7
<1> HIDE DEF B
<1>3. S \in B
  BY <1>1, <1>2, SubsetInduction
<1> QED BY <1>3 DEF B

LEMMA SumIsNat ==
  ASSUME NEW S, IsFiniteSet(S), NEW g \in [S -> Nat], NEW e, IsSum(g, e, S)
  PROVE  e[S] \in Nat
<1> DEFINE B == {s \in SUBSET S : e[s] \in Nat}
<1>0. \A s \in SUBSET S : e[s] = Summed(g, e, s)
  BY DEF IsSum
<1>1. {} \in B
  <2>1. e[{}] = 0 /\ {} \in SUBSET S
    BY <1>0 DEF Summed
  <2> QED BY <2>1
<1>2. ASSUME NEW s \in SUBSET S, s # {}, s \ {Taken(s)} \in B PROVE s \in B
  <2>1. Taken(s) \in S
    BY <1>2, TakenIsElement
  <2>2. e[s] = g[Taken(s)] + e[s \ {Taken(s)}]
    BY <1>0, <1>2 DEF Summed
  <2> QED BY <1>2, <2>1, <2>2
<1> HIDE DEF B
<1>3. S \in B
  BY <1>1, <1>2, SubsetInduction
<1> QED BY <1>3 DEF B

LEMMA SumOfZeros ==
  ASSUME NEW S, IsFiniteSet(S), NEW g, NEW e, IsSum(g, e, S), \A y \in S : g[y] = 0
  PROVE  e[S] = 0
<1> DEFINE B == {s \in SUBSET S : e[s] = 0}
<1>0. \A s \in SUBSET S : e[s] = Summed(g, e, s)
  BY DEF IsSum
<1>1. {} \in B
  BY <1>0 DEF Summed
<1>2. ASSUME NEW s \in SUBSET S, s # {}, s \ {Taken(s)} \in B PROVE s \in B
  <2>1. Taken(s) \in S
    BY <1>2, TakenIsElement
  <2>2. e[s] = g[Taken(s)] + e[s \ {Taken(s)}]
    BY <1>0, <1>2 DEF Summed
  <2> QED BY <1>2, <2>1, <2>2
<1> HIDE DEF B
<1>3. S \in B
  BY <1>1, <1>2, SubsetInduction
<1> QED BY <1>3 DEF B

-----------------------------------------------------------------------------
(* The totals of local and remote nodes.                                   *)

SumOf(g) == (CHOOSE e : IsSum(g, e, Node))[Node]

LEMMA TotalIsSumOf ==
  ASSUME NEW f, NEW m
  PROVE  Total(f, m) = SumOf(f[m])
BY Zenon DEF Total, MapThenSumSet, MapThenFoldSet, SumOf, IsSum, Summed, Taken

LEMMA TotalIsSum ==
  ASSUME NEW f, NEW m
  PROVE  \E e : IsSum(f[m], e, Node) /\ Total(f, m) = e[Node]
<1>1. Total(f, m) = (CHOOSE e : IsSum(f[m], e, Node))[Node]
  BY TotalIsSumOf DEF SumOf
<1>2. IsFiniteSet(Node)
  BY NodeAssumption, FS_Union DEF Node
<1>3. \E e : IsSum(f[m], e, Node)
  BY <1>2, SumExists
<1> QED BY <1>1, <1>3

\* A counter of x in the manager m is increased by k.
Increased(f, h, m, x, k) ==
  /\ m \in Manager /\ x \in Node /\ k \in Nat
  /\ f \in [Manager -> [Node -> Nat]] /\ h = [f EXCEPT ![m][x] = f[m][x] + k]

LEMMA TotalAdds ==
  ASSUME NEW f, NEW h, NEW m, NEW x, NEW k, Increased(f, h, m, x, k)
  PROVE  /\ Total(f, m) \in Nat /\ Total(h, m) = Total(f, m) + k
         /\ \A j \in Manager : j # m => Total(h, j) = Total(f, j)
<1>1. PICK e : IsSum(f[m], e, Node) /\ Total(f, m) = e[Node]
  BY TotalIsSum
<1>2. PICK i : IsSum(h[m], i, Node) /\ Total(h, m) = i[Node]
  BY TotalIsSum
<1>3. IsFiniteSet(Node)
  BY NodeAssumption, FS_Union DEF Node
<1>4. /\ f[m] \in [Node -> Nat] /\ h[m] \in [Node -> Nat] /\ h[m][x] = f[m][x] + k
      /\ \A y \in Node \ {x} : h[m][y] = f[m][y]
  BY DEF Increased
<1>5. Raised(f[m], h[m], Node, x, k)
  BY <1>4 DEF Raised, Increased
<1>6. e[Node] \in Nat /\ i[Node] = e[Node] + k
  BY <1>1, <1>2, <1>3, <1>5, SumAdds
<1>7. ASSUME NEW j \in Manager, j # m PROVE Total(h, j) = Total(f, j)
  <2>1. h[j] = f[j]
    BY <1>7 DEF Increased
  <2> QED BY <2>1, TotalIsSumOf
<1> QED BY <1>1, <1>2, <1>6, <1>7

LEMMA TotalIsNat ==
  ASSUME NEW m \in Manager, NEW f \in [Manager -> [Node -> Nat]]
  PROVE  Total(f, m) \in Nat
<1>1. PICK e : IsSum(f[m], e, Node) /\ Total(f, m) = e[Node]
  BY TotalIsSum
<1>2. f[m] \in [Node -> Nat] /\ IsFiniteSet(Node)
  BY NodeAssumption, FS_Union DEF Node
<1>3. PICK g : g = f[m]
  OBVIOUS
<1> QED BY <1>1, <1>2, <1>3, SumIsNat

LEMMA TotalOfZero ==
  ASSUME NEW m \in Manager
  PROVE  Total(Zero, m) = 0
<1>1. PICK e : IsSum(Zero[m], e, Node) /\ Total(Zero, m) = e[Node]
  BY TotalIsSum
<1>2. \A y \in Node : Zero[m][y] = 0
  BY DEF Zero
<1>3. IsFiniteSet(Node)
  BY NodeAssumption, FS_Union DEF Node
<1> QED BY <1>1, <1>2, <1>3, SumOfZeros

\* The packet that is being added is counted for the local node, and not yet
\* for the remote one.
Ahead(d) == IF add[d].side = "local" THEN add[d].pc = "size" ELSE add[d].pc # "size"

\* It is counted for the remote node, and its bytes are not.
BytesLate(d) == add[d].side = "remote" /\ add[d].pc = "size"

\* The totals agree, the packet apart that is being added.
AgreesFor(d) ==
  /\ add[d].side = "remote" => bidirectional /\ add[d].pc # "idle"
  /\ bidirectional => Total(count, <<"local", d>>) =
                        Total(count, <<"remote", d>>) + (IF Ahead(d) THEN 1 ELSE 0)
  /\ ~bidirectional => Total(count, <<"remote", d>>) = 0
  /\ Total(count, <<"remote", d>>) * Unit =
       Total(size, <<"remote", d>>) + (IF BytesLate(d) THEN Unit ELSE 0)

Agreement == bidirectional \in BOOLEAN /\ \A d \in Direction : AgreesFor(d)

LEMMA AgreementStays ==
  ASSUME Agreement, UNCHANGED <<bidirectional, count, size, add>>
  PROVE  Agreement'
BY DEF Agreement, AgreesFor, Ahead, BytesLate

\* Only the direction of the step is of interest.
LEMMA OtherDirection ==
  ASSUME Agreement, NEW d \in Direction, UNCHANGED bidirectional, AgreesFor(d)',
         \A e \in Direction : e # d => /\ add'[e] = add[e]
           /\ \A s \in {"local", "remote"} : /\ Total(count', <<s, e>>) = Total(count, <<s, e>>)
                                            /\ Total(size', <<s, e>>) = Total(size, <<s, e>>)
  PROVE  Agreement'
<1>1. ASSUME NEW e \in Direction, e # d PROVE AgreesFor(e)'
  BY <1>1 DEF Agreement, AgreesFor, Ahead, BytesLate
<1> QED BY <1>1 DEF Agreement

LEMMA ZeroStays ==
  ASSUME NEW f \in [Manager -> [Node -> Nat]], NEW m \in Manager, NEW n \in Node, f[m][n] = 0
  PROVE  [f EXCEPT ![m][n] = 0] = f
<1>1. [f[m] EXCEPT ![n] = 0] = f[m]
  <2>1. f[m] \in [Node -> Nat]
    OBVIOUS
  <2>2. PICK g : g = f[m]
    OBVIOUS
  <2>3. [g EXCEPT ![n] = 0] = g
    BY <2>1, <2>2
  <2> QED BY <2>2, <2>3
<1>2. [f EXCEPT ![m] = [f[m] EXCEPT ![n] = 0]] = f
  BY <1>1
<1> QED BY <1>2

\* TrafficManager.Add enters a node that was not counted, with zeros.
LEMMA TrackAgrees ==
  ASSUME IInv, Agreement, NEW d \in Direction, Track(d)
  PROVE  Agreement'
<1> DEFINE m == Current(d)
           n == NodeOf(d)
<1>0. CountersOK /\ Exclusive /\ CountedAreTracked
  BY DEF IInv, TypeOK
<1>1. /\ add[d].pc = "track" /\ add' = [add EXCEPT ![d].pc = "count"]
      /\ UNCHANGED bidirectional
      /\ IF n \in tracked[m] THEN UNCHANGED <<count, size>>
         ELSE /\ count' = [count EXCEPT ![m][n] = 0]
              /\ size' = [size EXCEPT ![m][n] = 0]
  BY DEF Track
<1>2. add[d] \in Adder /\ add \in [Direction -> Adder] /\ m \in Manager /\ n \in Node
  BY <1>0, <1>1, OneAdder DEF CountersOK
<1>3. UNCHANGED <<count, size>>
  <2>1. CASE n \in tracked[m]
    BY <1>1, <2>1
  <2>2. CASE n \notin tracked[m]
    <3>1. count[m][n] = 0 /\ size[m][n] = 0
      BY <1>0, <1>2, <2>2 DEF CountedAreTracked
    <3>2. count \in [Manager -> [Node -> Nat]] /\ size \in [Manager -> [Node -> Nat]]
      BY <1>0 DEF CountersOK
    <3> HIDE DEF m, n
    <3>3. [count EXCEPT ![m][n] = 0] = count
      BY <1>2, <3>1, <3>2, ZeroStays
    <3>4. [size EXCEPT ![m][n] = 0] = size
      BY <1>2, <3>1, <3>2, ZeroStays
    <3> QED BY <1>1, <2>2, <3>3, <3>4
  <2> QED BY <2>1, <2>2
<1>4. /\ add'[d].side = add[d].side /\ add'[d].pc = "count"
      /\ \A e \in Direction : e # d => add'[e] = add[e]
  BY <1>1, <1>2 DEF Adder
<1>5. AgreesFor(d)'
  BY <1>1, <1>3, <1>4 DEF Agreement, AgreesFor, Ahead, BytesLate
<1> QED BY <1>1, <1>3, <1>4, <1>5, OtherDirection

LEMMA AddCountAgrees ==
  ASSUME IInv, Agreement, NEW d \in Direction, AddCount(d)
  PROVE  Agreement'
<1> DEFINE m == Current(d)
           n == NodeOf(d)
<1>0. CountersOK /\ Exclusive /\ count \in [Manager -> [Node -> Nat]] /\ AgreesFor(d)
  BY DEF IInv, TypeOK, CountersOK, Agreement
<1>1. /\ add[d].pc = "count" /\ add' = [add EXCEPT ![d].pc = "size"]
      /\ UNCHANGED <<bidirectional, size>>
      /\ count' = [count EXCEPT ![m][n] = count[m][n] + 1]
  BY DEF AddCount
<1>2. add[d] \in Adder /\ add \in [Direction -> Adder] /\ m \in Manager /\ n \in Node
  BY <1>0, <1>1, OneAdder DEF CountersOK
<1>3. /\ Total(count', m) = Total(count, m) + 1
      /\ \A j \in Manager : j # m => Total(count', j) = Total(count, j)
  <2> HIDE DEF m, n
  <2>1. PICK f, h : f = count /\ h = count'
    OBVIOUS
  <2>2. Increased(f, h, m, n, 1)
    BY <1>0, <1>1, <1>2, <2>1 DEF Increased
  <2>3. /\ Total(h, m) = Total(f, m) + 1
        /\ \A j \in Manager : j # m => Total(h, j) = Total(f, j)
    BY <2>2, TotalAdds
  <2> QED BY <2>1, <2>3
<1>4. /\ add'[d].side = add[d].side /\ add'[d].pc = "size"
      /\ \A e \in Direction : e # d => add'[e] = add[e]
  BY <1>1, <1>2 DEF Adder
<1>5. /\ m = <<add[d].side, d>> /\ add[d].side \in {"local", "remote"}
      /\ \A e \in Direction, s \in {"local", "remote"} :
           <<s, e>> \in Manager /\ (<<s, e>> = m <=> s = add[d].side /\ e = d)
  BY <1>2 DEF Current, Manager, Adder
<1>6. /\ Total(count, <<"remote", d>>) \in Nat /\ Total(count, <<"local", d>>) \in Nat
  BY <1>0, <1>5, TotalIsNat
<1>7. AgreesFor(d)'
  <2>1. PICK cl, cr, dl, dr, sr :
          /\ cl = Total(count, <<"local", d>>) /\ cr = Total(count, <<"remote", d>>)
          /\ dl = Total(count', <<"local", d>>) /\ dr = Total(count', <<"remote", d>>)
          /\ sr = Total(size, <<"remote", d>>)
    OBVIOUS
  <2>2. CASE add[d].side = "local"
    <3>1. dl = cl + 1 /\ dr = cr
      BY <1>3, <1>5, <2>1, <2>2
    <3>2. /\ bidirectional => cl = cr + 0
          /\ ~bidirectional => cr = 0
          /\ cr * Unit = sr + 0
      BY <1>0, <1>1, <2>1, <2>2 DEF AgreesFor, Ahead, BytesLate
    <3>3. cr + 0 = cr
      BY <1>6, <2>1
    <3> QED BY <1>1, <1>4, <2>1, <2>2, <3>1, <3>2, <3>3 DEF AgreesFor, Ahead, BytesLate
  <2>3. CASE add[d].side = "remote"
    <3>1. dl = cl /\ dr = cr + 1
      BY <1>3, <1>5, <2>1, <2>3
    <3>2. cr * Unit = sr + 0 /\ bidirectional /\ cl = cr + 1 /\ sr \in Nat
      BY <1>0, <1>1, <1>5, <2>1, <2>3, TotalIsNat
         DEF CountersOK, AgreesFor, Ahead, BytesLate
    <3>3. dr * Unit = sr + Unit /\ dl = dr
      BY <1>6, <2>1, <3>1, <3>2, UnitAssumption
    <3> QED BY <1>1, <1>4, <1>6, <2>1, <2>3, <3>1, <3>2, <3>3 DEF AgreesFor, Ahead, BytesLate
  <2> QED BY <1>5, <2>2, <2>3
<1>8. ASSUME NEW e \in Direction, e # d
      PROVE  /\ add'[e] = add[e]
             /\ \A s \in {"local", "remote"} : /\ Total(count', <<s, e>>) = Total(count, <<s, e>>)
                                              /\ Total(size', <<s, e>>) = Total(size, <<s, e>>)
  <2> HIDE DEF m, n
  <2> QED BY <1>1, <1>3, <1>4, <1>5, <1>8
<1> HIDE DEF m, n
<1> QED BY <1>1, <1>7, <1>8, OtherDirection

LEMMA AddSizeAgrees ==
  ASSUME IInv, Agreement, NEW d \in Direction, AddSize(d)
  PROVE  Agreement'
<1> DEFINE m == Current(d)
           n == NodeOf(d)
           a == IF More(d) THEN [add[d] EXCEPT !.pc = "track", !.side = "remote"] ELSE AddIdle
<1>0. CountersOK /\ Exclusive /\ size \in [Manager -> [Node -> Nat]] /\ AgreesFor(d)
  BY DEF IInv, TypeOK, CountersOK, Agreement
<1>1. /\ add[d].pc = "size" /\ add' = [add EXCEPT ![d] = a]
      /\ UNCHANGED <<bidirectional, count>>
      /\ size' = [size EXCEPT ![m][n] = size[m][n] + Unit]
  BY DEF AddSize
<1>2. add[d] \in Adder /\ add \in [Direction -> Adder] /\ m \in Manager /\ n \in Node
  BY <1>0, <1>1, OneAdder DEF CountersOK
<1>3. /\ Total(size', m) = Total(size, m) + Unit
      /\ \A j \in Manager : j # m => Total(size', j) = Total(size, j)
  <2> HIDE DEF m, n
  <2>1. PICK f, h : f = size /\ h = size'
    OBVIOUS
  <2>2. Increased(f, h, m, n, Unit)
    BY <1>0, <1>1, <1>2, <2>1, UnitAssumption DEF Increased
  <2>3. /\ Total(h, m) = Total(f, m) + Unit
        /\ \A j \in Manager : j # m => Total(h, j) = Total(f, j)
    BY <2>2, TotalAdds
  <2> QED BY <2>1, <2>3
<1>4. /\ add'[d] = a /\ \A e \in Direction : e # d => add'[e] = add[e]
  <2> HIDE DEF a
  <2> QED BY <1>1, <1>2
<1>5. /\ m = <<add[d].side, d>> /\ add[d].side \in {"local", "remote"}
      /\ \A e \in Direction, s \in {"local", "remote"} :
           <<s, e>> \in Manager /\ (<<s, e>> = m <=> s = add[d].side /\ e = d)
  BY <1>2 DEF Current, Manager, Adder
<1>6. Total(size, <<"remote", d>>) \in Nat
  BY <1>0, <1>5, TotalIsNat
<1>7. AgreesFor(d)'
  <2>1. PICK cl, cr, sr, tr :
          /\ cl = Total(count, <<"local", d>>) /\ cr = Total(count, <<"remote", d>>)
          /\ sr = Total(size, <<"remote", d>>) /\ tr = Total(size', <<"remote", d>>)
    OBVIOUS
  <2>2. CASE add[d].side = "local"
    <3>1. tr = sr
      BY <1>3, <1>5, <2>1, <2>2
    <3>2. /\ bidirectional => cl = cr + 1 /\ a.side = "remote" /\ a.pc = "track"
          /\ ~bidirectional => cr = 0 /\ a.side = "local" /\ a.pc = "idle"
          /\ cr * Unit = sr + 0
      BY <1>0, <1>1, <1>2, <2>1, <2>2 DEF AgreesFor, Ahead, BytesLate, More, AddIdle, Adder
    <3> HIDE DEF a
    <3> QED BY <1>1, <1>4, <2>1, <3>1, <3>2 DEF AgreesFor, Ahead, BytesLate
  <2>3. CASE add[d].side = "remote"
    <3>1. tr = sr + Unit
      BY <1>3, <1>5, <2>1, <2>3
    <3>2. /\ bidirectional /\ cl = cr + 0 /\ a.side = "local" /\ a.pc = "idle"
          /\ cr * Unit = sr + Unit
      BY <1>0, <1>1, <1>2, <2>1, <2>3 DEF AgreesFor, Ahead, BytesLate, More, AddIdle, Adder
    <3>3. tr + 0 = tr
      BY <1>6, <2>1, <3>1, UnitAssumption
    <3> HIDE DEF a
    <3> QED BY <1>1, <1>4, <2>1, <3>1, <3>2, <3>3 DEF AgreesFor, Ahead, BytesLate
  <2> QED BY <1>5, <2>2, <2>3
<1>8. ASSUME NEW e \in Direction, e # d
      PROVE  /\ add'[e] = add[e]
             /\ \A s \in {"local", "remote"} : /\ Total(count', <<s, e>>) = Total(count, <<s, e>>)
                                              /\ Total(size', <<s, e>>) = Total(size, <<s, e>>)
  <2> HIDE DEF m, n, a
  <2> QED BY <1>1, <1>3, <1>4, <1>5, <1>8
<1> HIDE DEF m, n, a
<1> QED BY <1>1, <1>7, <1>8, OtherDirection

LEMMA AddLockAgrees ==
  ASSUME IInv, Agreement, NEW d \in Direction, NEW l \in Local, NEW r \in Remote, AddLock(d, l, r)
  PROVE  Agreement'
<1>1. /\ add[d].pc = "idle" /\ UNCHANGED <<bidirectional, count, size>>
      /\ add' = [add EXCEPT ![d] = [pc |-> "track", side |-> "local",
                                    node |-> [local |-> l, remote |-> r]]]
  BY DEF AddLock
<1>2. add \in [Direction -> Adder] /\ add[d].side \in {"local", "remote"} /\ AgreesFor(d)
  BY DEF IInv, TypeOK, CountersOK, Agreement, Adder
<1>3. add'[d].pc = "track" /\ add'[d].side = "local"
      /\ \A e \in Direction : e # d => add'[e] = add[e]
  BY <1>1, <1>2
<1>4. AgreesFor(d)'
  BY <1>1, <1>2, <1>3 DEF AgreesFor, Ahead, BytesLate
<1> QED BY <1>1, <1>3, <1>4, OtherDirection

LEMMA FreshAgrees ==
  ASSUME Fresh, bidirectional \in BOOLEAN
  PROVE  Agreement
<1>1. ASSUME NEW d \in Direction PROVE AgreesFor(d)
  <2>1. add[d].side = "local" /\ add[d].pc = "idle"
    BY DEF Fresh, AddIdle
  <2>2. \A s \in {"local", "remote"} : Total(count, <<s, d>>) = 0
                                       /\ Total(size, <<s, d>>) = 0
    BY TotalOfZero DEF Fresh, Manager
  <2>3. 0 * Unit = 0
    BY UnitAssumption
  <2> QED BY <2>1, <2>2, <2>3 DEF AgreesFor, Ahead, BytesLate
<1> QED BY <1>1 DEF Agreement

-----------------------------------------------------------------------------
(* The theorems.                                                           *)

\* IInv holds in every state: counters are written under the lock, and read
\* without it.
THEOREM Inductive == Spec => []IInv
<1>1. Init => IInv
  BY FreshIsGood DEF Init, Fresh
<1>2. IInv /\ [Next]_vars => IInv'
  <2> SUFFICES ASSUME IInv, [Next]_vars PROVE IInv'
    OBVIOUS
  <2>1. CASE UNCHANGED vars \/ \E d \in Direction : ConcurrentMapAccess(d)
    <3>1. UNCHANGED <<made, tracked, count, size, lock, add, report, shown, begin>>
      BY <2>1 DEF ConcurrentMapAccess, reportVars, vars
    <3>2. CountersOK
      BY DEF IInv, TypeOK
    <3>3. \A m \in Manager, n \in Node : count[m][n] <= count'[m][n]
                                        /\ size[m][n] <= size'[m][n]
      BY <3>1, <3>2 DEF CountersOK
    <3> QED BY <3>1, <3>3, CountersStay, ReportStays DEF IInv, TypeOK, reportVars
  <2>2. CASE \E d \in Direction, l \in Local, r \in Remote : AddLock(d, l, r)
    BY <2>2, AddLockStep
  <2>3. CASE \E d \in Direction : Step(d)
    BY <2>3, TrackStep, AddCountStep, AddSizeStep DEF Step
  <2>4. CASE Request \/ RLock
    BY <2>4, RequestStep, RLockStep
  <2>5. CASE Marshal
    BY <2>5, PointersStep, NextManagerStep, NodesStep, ReadCountStep, ReadSizeStep,
       ManagerDoneStep, RespondStep DEF Marshal
  <2>6. CASE Restart
    <3>1. (Fresh => IInv)'
      BY FreshIsGood, PTL
    <3>2. Fresh'
      BY <2>6 DEF Restart, Fresh
    <3> QED BY <3>1, <3>2
  <2> QED BY <2>1, <2>2, <2>3, <2>4, <2>5, <2>6 DEF Next
<1> QED BY <1>1, <1>2, PTL DEF Spec

\* Though MarshalJSON reads after it released the lock, every count and size
\* it shows is of a time between the request and the answer
\* (ReportsAreRecent), for all nodes and any number of packets.
THEOREM RecentReports == Spec => []ReportsAreRecent
<1>1. IInv => ReportsAreRecent
  BY DEF IInv
<1> QED BY <1>1, Inductive, PTL

\* Every node that was counted when the page was requested is on the page
\* (ReportsAreComplete), though the maps grow while they are read.
THEOREM CompleteReports == Spec => []ReportsAreComplete
<1>1. IInv => ReportsAreComplete
  BY DEF IInv, NoneIsForgotten, ReportsAreComplete
<1> QED BY <1>1, Inductive, PTL

\* The count of a node and its size, which are read one after the other, are
\* apart by at most one packet (AtMostOnePacketWithoutBytes).
THEOREM SizesFollowCounts == Spec => []AtMostOnePacketWithoutBytes
<1>1. IInv => AtMostOnePacketWithoutBytes
  BY DEF IInv
<1> QED BY <1>1, Inductive, PTL

\* While no one adds, as many packets are counted for remote nodes as for
\* local ones in the client, and none in the server; and the bytes are theirs
\* (LocalAndRemoteAgree).  AddBidirectional keeps the lock between the two
\* nodes, so a packet that is counted for one of them is never seen there.
THEOREM TotalsAgree == Spec => []LocalAndRemoteAgree
<1>1. Init => Agreement
  BY FreshAgrees DEF Init, Fresh
<1>2. IInv /\ Agreement /\ [Next]_vars => Agreement'
  <2> SUFFICES ASSUME IInv, Agreement, [Next]_vars PROVE Agreement'
    OBVIOUS
  <2>1. CASE \/ UNCHANGED vars \/ \E d \in Direction : ConcurrentMapAccess(d)
             \/ Request \/ RLock \/ Marshal
    <3>1. UNCHANGED <<bidirectional, count, size, add>>
      BY <2>1 DEF ConcurrentMapAccess, vars, Request, RLock, Marshal, Pointers, NextManager,
                  Nodes, ReadCount, ReadSize, ManagerDone, Respond
    <3> QED BY <3>1, AgreementStays
  <2>2. CASE \E d \in Direction, l \in Local, r \in Remote : AddLock(d, l, r)
    BY <2>2, AddLockAgrees
  <2>3. CASE \E d \in Direction : Step(d)
    BY <2>3, TrackAgrees, AddCountAgrees, AddSizeAgrees DEF Step
  <2>4. CASE Restart
    <3>1. (Fresh /\ bidirectional \in BOOLEAN => Agreement)'
      BY FreshAgrees, PTL
    <3>2. Fresh' /\ (bidirectional \in BOOLEAN)'
      BY <2>4 DEF Restart, Fresh, Agreement
    <3> QED BY <3>1, <3>2
  <2> QED BY <2>1, <2>2, <2>3, <2>4 DEF Next
<1>3. IInv /\ Agreement => LocalAndRemoteAgree
  <2> SUFFICES ASSUME IInv, Agreement, lock = None, NEW d \in Direction
               PROVE  /\ Total(count, <<"remote", d>>) =
                           IF bidirectional THEN Total(count, <<"local", d>>) ELSE 0
                      /\ Total(size, <<"remote", d>>) = Total(count, <<"remote", d>>) * Unit
    BY DEF LocalAndRemoteAgree
  <2>1. add[d].pc = "idle"
    BY NoneAssumption DEF IInv, Exclusive, Direction
  <2>2. add[d].side = "local" /\ AgreesFor(d)
    BY <2>1 DEF IInv, TypeOK, CountersOK, Adder, Agreement, AgreesFor
  <2>3. /\ Total(count, <<"remote", d>>) \in Nat /\ Total(size, <<"remote", d>>) \in Nat
    <3>1. <<"remote", d>> \in Manager
      BY DEF Manager
    <3> QED BY <3>1, TotalIsNat DEF IInv, TypeOK, CountersOK
  <2> QED BY <2>1, <2>2, <2>3 DEF AgreesFor, Ahead, BytesLate
<1> QED BY <1>1, <1>2, <1>3, Inductive, PTL DEF Spec

=============================================================================
