------------------------------ MODULE Monitor ------------------------------
(***************************************************************************)
(* The traffic monitor (internal/stat/monitor.go and stat.go): counters    *)
(* that the handlers of both directions add to, and that the web page of   *)
(* the monitor reports.                                                    *)
(*                                                                         *)
(* AddBidirectional holds the lock while it adds; MarshalJSON releases it  *)
(* as soon as it has it, and reads the maps while they are written.  Go's  *)
(* runtime may notice that and end the process.                            *)
(*                                                                         *)
(* Every packet has the size Unit; times are left out.                     *)
(***************************************************************************)
EXTENDS Naturals, FiniteSets, FiniteSetsExt

CONSTANTS
  Local, Remote,  \* names of nodes, the ones of the sources and the others
  Unit,           \* size of a packet
  MaxAdds,        \* bound: packets that are added
  None            \* no one, not shown

ASSUME UnitAssumption == Unit \in Nat \ {0} /\ MaxAdds \in Nat

ASSUME NoneAssumption ==
  /\ None \notin Local \cup Remote \cup {"in", "out"}
  /\ None \notin [count : Nat, size : Nat]

\* Addresses are of 32 bits, and ports of 16.
ASSUME NodeAssumption == IsFiniteSet(Local) /\ IsFiniteSet(Remote)

Direction == {"in", "out"}

Manager == {"local", "remote"} \X Direction

Node == Local \cup Remote

VARIABLES
  bidirectional,  \* the client counts remote nodes, too; the server does not
  made,           \* managers that exist
  tracked,        \* nodes in manager.indicators
  count, size,    \* indicator.count and indicator.size
  lock,           \* the direction whose handler has monitor.lock, or None
  add,            \* AddBidirectional of a direction: [pc, side, node]
  adds,           \* packets added so far
  report,         \* MarshalJSON: where it is, and the managers and nodes left
  shown,          \* what it has read: [count, size], or None
  begin,          \* history: the counts when it had the lock
  fatal           \* the runtime has ended the process

vars == <<bidirectional, made, tracked, count, size, lock, add, adds, report, shown, begin, fatal>>

reportVars == <<report, shown, begin>>

-----------------------------------------------------------------------------

Zero == [m \in Manager |-> [n \in Node |-> 0]]

NotShown == [m \in Manager |-> [n \in Node |-> None]]

AddIdle == [pc |-> "idle", side |-> "local", node |-> [local |-> None, remote |-> None]]

ReportIdle ==
  [pc |-> "idle", done |-> {}, managers |-> {}, manager |-> None, nodes |-> {},
   node |-> None, count |-> 0]

Init ==
  /\ bidirectional \in BOOLEAN
  /\ made = {"local"} \X Direction
  /\ tracked = [m \in Manager |-> {}]
  /\ count = Zero
  /\ size = Zero
  /\ lock = None
  /\ add = [d \in Direction |-> AddIdle]
  /\ adds = 0
  /\ report = ReportIdle
  /\ shown = NotShown
  /\ begin = Zero
  /\ fatal = FALSE

-----------------------------------------------------------------------------
(* Add and AddBidirectional.                                               *)

Current(d) == <<add[d].side, d>>

NodeOf(d) == add[d].node[add[d].side]

AddLock(d, l, r) ==
  /\ ~fatal /\ add[d].pc = "idle" /\ adds < MaxAdds
  /\ lock = None
  /\ lock' = d
  /\ adds' = adds + 1
  /\ add' = [add EXCEPT ![d] = [pc |-> "track", side |-> "local",
                                 node |-> [local |-> l, remote |-> r]]]
  /\ UNCHANGED <<bidirectional, made, tracked, count, size, reportVars, fatal>>

\* MarshalJSON is at work on the map of the manager.
Reading(m) == report.pc \in {"nodes", "count", "size"} /\ report.manager = m

\* Mutant: a node gets a new indicator every time.
TrackAnew(d) ==
  LET m == Current(d)
      n == NodeOf(d)
  IN /\ ~fatal /\ add[d].pc = "track"
     /\ made' = made \cup {m}
     /\ tracked' = [tracked EXCEPT ![m] = tracked[m] \cup {n}]
     /\ count' = [count EXCEPT ![m][n] = 0]
     /\ size' = [size EXCEPT ![m][n] = 0]
     /\ add' = [add EXCEPT ![d].pc = "count"]
     /\ UNCHANGED <<bidirectional, lock, adds, reportVars, fatal>>

\* TrafficManager.Add: a node that is not known is entered into the map.  The
\* manager of remote nodes is made first.
Track(d) ==
  LET m == Current(d)
      n == NodeOf(d)
  IN /\ ~fatal /\ add[d].pc = "track"
     /\ made' = made \cup {m}
     /\ IF n \in tracked[m] THEN UNCHANGED <<tracked, count, size>>
        ELSE /\ tracked' = [tracked EXCEPT ![m] = tracked[m] \cup {n}]
             /\ count' = [count EXCEPT ![m][n] = 0]
             /\ size' = [size EXCEPT ![m][n] = 0]
     /\ add' = [add EXCEPT ![d].pc = "count"]
     /\ UNCHANGED <<bidirectional, lock, adds, reportVars, fatal>>

\* The map is written while MarshalJSON reads it, and the runtime notices.
ConcurrentMapAccess(d) ==
  /\ ~fatal /\ add[d].pc = "track"
  /\ NodeOf(d) \notin tracked[Current(d)]
  /\ Reading(Current(d))
  /\ fatal' = TRUE
  /\ UNCHANGED <<bidirectional, made, tracked, count, size, lock, add, adds, reportVars>>

\* TrafficIndicator.Add counts the packet, and then its size.
AddCount(d) ==
  LET m == Current(d)
  IN /\ ~fatal /\ add[d].pc = "count"
     /\ count' = [count EXCEPT ![m][NodeOf(d)] = count[m][NodeOf(d)] + 1]
     /\ add' = [add EXCEPT ![d].pc = "size"]
     /\ UNCHANGED <<bidirectional, made, tracked, size, lock, adds, reportVars, fatal>>

\* In the client the remote node follows the local one.
More(d) == bidirectional /\ add[d].side = "local"

\* Mutant: the lock is not kept for the remote node.
AddSizeUnlocksEarly(d) ==
  LET m == Current(d)
  IN /\ ~fatal /\ add[d].pc = "size"
     /\ size' = [size EXCEPT ![m][NodeOf(d)] = size[m][NodeOf(d)] + Unit]
     /\ add' = [add EXCEPT ![d] = IF More(d) THEN [@ EXCEPT !.pc = "track", !.side = "remote"]
                                  ELSE AddIdle]
     /\ lock' = None
     /\ UNCHANGED <<bidirectional, made, tracked, count, adds, reportVars, fatal>>

\* Mutant: the bytes are counted for one of the nodes.
AddSizeOnce(d) ==
  LET m == Current(d)
  IN /\ ~fatal /\ add[d].pc = "size"
     /\ size' = IF More(d) THEN size ELSE [size EXCEPT ![m][NodeOf(d)] = @ + Unit]
     /\ add' = [add EXCEPT ![d] = IF More(d) THEN [@ EXCEPT !.pc = "track", !.side = "remote"]
                                  ELSE AddIdle]
     /\ lock' = IF More(d) THEN lock ELSE None
     /\ UNCHANGED <<bidirectional, made, tracked, count, adds, reportVars, fatal>>

\* The bytes are counted, and the lock is released at the end.
AddSize(d) ==
  LET m == Current(d)
  IN /\ ~fatal /\ add[d].pc = "size"
     /\ size' = [size EXCEPT ![m][NodeOf(d)] = size[m][NodeOf(d)] + Unit]
     /\ add' = [add EXCEPT ![d] = IF More(d) THEN [@ EXCEPT !.pc = "track", !.side = "remote"]
                                  ELSE AddIdle]
     /\ lock' = IF More(d) THEN lock ELSE None
     /\ UNCHANGED <<bidirectional, made, tracked, count, adds, reportVars, fatal>>

-----------------------------------------------------------------------------
(* The handler of "/" and MarshalJSON.                                     *)

Request ==
  /\ ~fatal /\ report.pc = "idle"
  /\ report' = [ReportIdle EXCEPT !.pc = "rlock"]
  /\ UNCHANGED <<bidirectional, made, tracked, count, size, lock, add, adds, shown, begin, fatal>>

\* RLock, followed by RUnlock.
RLock ==
  /\ ~fatal /\ report.pc = "rlock"
  /\ lock = None
  /\ report' = [report EXCEPT !.pc = "pointers"]
  /\ begin' = count
  /\ UNCHANGED <<bidirectional, made, tracked, count, size, lock, add, adds, shown, fatal>>

\* Mutant: remote nodes are left out until both of their managers exist.
PointersOfBoth ==
  /\ ~fatal /\ report.pc = "pointers"
  /\ report' = [report EXCEPT !.pc = "next",
                  !.managers = IF made = Manager THEN made ELSE {"local"} \X Direction]
  /\ UNCHANGED <<bidirectional, made, tracked, count, size, lock, add, adds, shown, begin, fatal>>

\* The managers that exist; the others are null in the report.
Pointers ==
  /\ ~fatal /\ report.pc = "pointers"
  /\ report' = [report EXCEPT !.pc = "next", !.managers = made]
  /\ UNCHANGED <<bidirectional, made, tracked, count, size, lock, add, adds, shown, begin, fatal>>

\* The order of the managers in the report.
Before == [m \in Manager |->
  CASE m = <<"local", "in">> -> {}
    [] m = <<"local", "out">> -> {<<"local", "in">>}
    [] m = <<"remote", "in">> -> {"local"} \X Direction
    [] m = <<"remote", "out">> -> Manager \ {<<"remote", "out">>}]

\* The next manager is marshalled.
NextManager(m) ==
  /\ ~fatal /\ report.pc = "next"
  /\ m \in report.managers \ report.done
  /\ Before[m] \cap report.managers \subseteq report.done
  /\ report' = [report EXCEPT !.pc = "nodes", !.manager = m]
  /\ UNCHANGED <<bidirectional, made, tracked, count, size, lock, add, adds, shown, begin, fatal>>

\* The keys of the map.
Nodes ==
  /\ ~fatal /\ report.pc = "nodes"
  /\ report' = [report EXCEPT !.pc = "count", !.nodes = tracked[report.manager]]
  /\ UNCHANGED <<bidirectional, made, tracked, count, size, lock, add, adds, shown, begin, fatal>>

\* TrafficIndicator.MarshalJSON reads the count, and then the size.
ReadCount(n) ==
  /\ ~fatal /\ report.pc = "count" /\ n \in report.nodes
  /\ report' = [report EXCEPT !.pc = "size", !.node = n, !.count = count[report.manager][n]]
  /\ UNCHANGED <<bidirectional, made, tracked, count, size, lock, add, adds, shown, begin, fatal>>

ReadSize ==
  LET m == report.manager
      n == report.node
  IN /\ ~fatal /\ report.pc = "size"
     /\ shown' = [shown EXCEPT ![m][n] = [count |-> report.count, size |-> size[m][n]]]
     /\ report' = [report EXCEPT !.pc = "count", !.nodes = report.nodes \ {n}]
     /\ UNCHANGED <<bidirectional, made, tracked, count, size, lock, add, adds, begin, fatal>>

ManagerDone ==
  /\ ~fatal /\ report.pc = "count" /\ report.nodes = {}
  /\ report' = [report EXCEPT !.pc = "next", !.done = report.done \cup {report.manager},
                              !.manager = None, !.node = None, !.count = 0]
  /\ UNCHANGED <<bidirectional, made, tracked, count, size, lock, add, adds, shown, begin, fatal>>

\* The page is written.
Respond ==
  /\ ~fatal /\ report.pc = "next" /\ report.managers = report.done
  /\ report' = ReportIdle
  /\ shown' = NotShown
  /\ begin' = Zero
  /\ UNCHANGED <<bidirectional, made, tracked, count, size, lock, add, adds, fatal>>

-----------------------------------------------------------------------------

\* The program is started again.
Restart ==
  /\ fatal
  /\ made' = {"local"} \X Direction
  /\ tracked' = [m \in Manager |-> {}]
  /\ count' = Zero
  /\ size' = Zero
  /\ lock' = None
  /\ add' = [d \in Direction |-> AddIdle]
  /\ report' = ReportIdle
  /\ shown' = NotShown
  /\ begin' = Zero
  /\ fatal' = FALSE
  /\ UNCHANGED <<bidirectional, adds>>

Step(d) == Track(d) \/ AddCount(d) \/ AddSize(d)

Marshal ==
  \/ Pointers
  \/ \E m \in Manager : NextManager(m)
  \/ Nodes
  \/ \E n \in Node : ReadCount(n)
  \/ ReadSize
  \/ ManagerDone
  \/ Respond

Next ==
  \/ \E d \in Direction, l \in Local, r \in Remote : AddLock(d, l, r)
  \/ \E d \in Direction : Step(d)
  \/ \E d \in Direction : ConcurrentMapAccess(d)
  \/ Request
  \/ RLock
  \/ Marshal
  \/ Restart

Spec == Init /\ [][Next]_vars

-----------------------------------------------------------------------------
(* Properties.                                                             *)

\* A report, though it is read without the lock, has the counts of a time
\* between the request and the answer: none that is less than when MarshalJSON
\* had the lock, and none that was not reached yet.
ReportsAreRecent ==
  \A m \in Manager, n \in Node : shown[m][n] # None =>
    /\ begin[m][n] <= shown[m][n].count /\ shown[m][n].count <= count[m][n]
    /\ begin[m][n] * Unit <= shown[m][n].size /\ shown[m][n].size <= size[m][n]

\* Every node that was counted when the page was requested is on it.
ReportsAreComplete ==
  report.pc = "next" /\ report.managers = report.done =>
    \A m \in Manager, n \in Node : begin[m][n] > 0 => shown[m][n] # None

\* A report shows at most one packet of a node whose bytes are not shown.
AtMostOnePacketWithoutBytes ==
  \A m \in Manager, n \in Node : shown[m][n] # None =>
    shown[m][n].count * Unit <= shown[m][n].size + Unit

Total(f, m) == MapThenSumSet(LAMBDA n : f[m][n], Node)

\* While no one adds, as many packets and bytes are counted for remote nodes
\* as for local ones in the client, and none in the server.
LocalAndRemoteAgree ==
  lock = None => \A d \in Direction :
    /\ Total(count, <<"remote", d>>) = IF bidirectional THEN Total(count, <<"local", d>>) ELSE 0
    /\ Total(size, <<"remote", d>>) = Total(count, <<"remote", d>>) * Unit

=============================================================================
