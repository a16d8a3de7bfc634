---------------------------- MODULE PacketPaths ----------------------------
(***************************************************************************)
(* What paths of packets promise: packets leave a path in the order in     *)
(* which they came, each at most once, and nothing leaves that did not     *)
(* come.                                                                   *)
(*                                                                         *)
(* Client implements it with a path for every listen device, from the      *)
(* capture of a packet to the connection to the server.                    *)
(***************************************************************************)
EXTENDS Naturals, Sequences

CONSTANT Path   \* the paths

VARIABLES
  queue,   \* packets on their way
  out      \* packets that left

Init ==
  /\ queue = [k \in Path |-> <<>>]
  /\ out = [k \in Path |-> <<>>]

\* A packet comes, any packet.
Send(k) ==
  /\ queue'[k] # <<>>
  /\ queue' = [queue EXCEPT ![k] = Append(queue[k], queue'[k][Len(queue'[k])])]
  /\ UNCHANGED out

\* The oldest packet leaves.
Deliver(k) ==
  /\ queue[k] # <<>>
  /\ out' = [out EXCEPT ![k] = Append(out[k], Head(queue[k]))]
  /\ queue' = [queue EXCEPT ![k] = Tail(queue[k])]

\* The oldest packet is refused.
Drop(k) ==
  /\ queue[k] # <<>>
  /\ queue' = [queue EXCEPT ![k] = Tail(queue[k])]
  /\ UNCHANGED out

\* The paths are given up, and start anew.
Reset ==
  /\ queue' = [k \in Path |-> <<>>]
  /\ out' = [k \in Path |-> <<>>]

Next == (\E k \in Path : Send(k) \/ Deliver(k) \/ Drop(k)) \/ Reset

Spec == Init /\ [][Next]_<<queue, out>>

=============================================================================
