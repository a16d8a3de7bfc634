------------------------------ MODULE Fragment ------------------------------
(***************************************************************************)
(* CreateFragmentPackets (internal/pcap/fragment.go): an oversize packet   *)
(* becomes IPv4 fragments, or TCP segments when its transport layer is     *)
(* TCP.  One behaviour is one call; one step of the loops is one iteration *)
(* of the code's.  Sizes are in bytes, fragment offsets in units of eight. *)
(***************************************************************************)
EXTENDS Integers, Sequences

CONSTANTS
  IPv4MaxSize,   \* size of the largest IPv4 packet (65535)
  PayloadSize,   \* sizes of what follows the IPv4 header (or the TCP header)
  FragmentSize,  \* values of fragment and mtu, at least 576 in the programs
  IPv4Header,    \* length of the serialized IPv4 header
  TCPHeader,     \* length of the serialized TCP header
  Seq0, Id0,     \* TCP sequence number and IPv4 Id of the packet
  SeqWrap,       \* values of a sequence number (2^32)
  IdWrap         \* values of an Id (2^16)

ASSUME PayloadAssumption == IPv4MaxSize \in Nat /\ PayloadSize \subseteq 0 .. IPv4MaxSize

ASSUME HeaderAssumption == IPv4Header \in Nat /\ TCPHeader \in Nat

\* Each fragment has room for 16 bytes: the programs refuse sizes below 576.
ASSUME FragmentAssumption ==
  /\ FragmentSize \subseteq Nat
  /\ \A f \in FragmentSize : f >= IPv4Header + TCPHeader + 16

ASSUME WrapAssumption ==
  /\ SeqWrap \in Nat \ {0} /\ Seq0 \in 0 .. SeqWrap - 1
  /\ IdWrap \in Nat \ {0} /\ Id0 \in 0 .. IdWrap - 1

VARIABLES
  transport,  \* "TCP", or "other" for UDP and ICMPv4
  link,       \* the packet has a link layer
  payload,    \* len(payload)
  fragment,   \* the size limit
  i,          \* bytes of the payload that are in fragments
  fragments,  \* the packets created
  pc

callVars == <<transport, link, payload, fragment, i, fragments, pc>>

-----------------------------------------------------------------------------

Header == IF transport = "TCP" THEN IPv4Header + TCPHeader ELSE IPv4Header

Oversize == Header + payload > fragment

\* Mutant: the room for the headers is forgotten.
LongestWithoutHeader == IF fragment > payload - i THEN payload - i ELSE fragment

\* Mutant: min() is forgotten.
LongestUnbounded == fragment - Header

\* length, as the code first computes it.
Longest == IF fragment - Header > payload - i THEN payload - i ELSE fragment - Header

Remain(length) == payload - i - length

\* Mutant: fragments end at any byte.
UnalignedLength(length) == length

\* "Align": all but the last fragment carry a multiple of 8 bytes.
Align(length) == IF Remain(length) > 0 THEN (length \div 8) * 8 ELSE length

\* Mutant: the end of the payload may be a tiny fragment.
TinyLast(length) == length

\* "Leave at least 8 Bytes for last fragment".
LeaveForLast(length) ==
  IF Remain(length) > 0 /\ Remain(length) < 8 THEN length - 8 ELSE length

Length == LeaveForLast(Align(Longest))

Called ==
  /\ transport \in {"TCP", "other"}
  /\ link \in BOOLEAN
  /\ payload \in PayloadSize
  /\ transport = "other" => payload >= 8   \* a UDP or ICMPv4 header is part of it
  /\ fragment \in FragmentSize
  /\ i = 0
  /\ fragments = <<>>
  /\ pc = IF Oversize THEN "loop" ELSE "whole"

\* The packet fits and is serialized as it is.
CreateWhole ==
  /\ pc = "whole"
  /\ fragments' = <<[start |-> 0, length |-> payload, more |-> FALSE,
                     offset |-> 0, seq |-> Seq0, id |-> Id0]>>
  /\ i' = payload
  /\ pc' = "done"
  /\ UNCHANGED <<transport, link, payload, fragment>>

\* Mutant: the bytes that alignment leaves to the next fragment are in both.
CreateIPv4FragmentTwice ==
  /\ pc = "loop" /\ transport = "other" /\ i < payload
  /\ fragments' = Append(fragments,
       [start |-> i, length |-> Longest, more |-> Remain(Length) > 0,
        offset |-> i \div 8, seq |-> Seq0, id |-> Id0])
  /\ i' = i + Length
  /\ UNCHANGED <<transport, link, payload, fragment, pc>>

\* One iteration of CreateIPv4FragmentPackets.
CreateIPv4Fragment ==
  /\ pc = "loop" /\ transport = "other" /\ i < payload
  /\ fragments' = Append(fragments,
       [start |-> i, length |-> Length, more |-> Remain(Length) > 0,
        offset |-> i \div 8, seq |-> Seq0, id |-> Id0])
  /\ i' = i + Length
  /\ UNCHANGED <<transport, link, payload, fragment, pc>>

\* Mutant: the Id of the packet is on every segment.
CreateTCPSegmentSameId ==
  /\ pc = "loop" /\ transport = "TCP" /\ i < payload
  /\ fragments' = Append(fragments,
       [start |-> i, length |-> Longest, more |-> FALSE, offset |-> 0,
        seq |-> IF link THEN Seq0 ELSE (Seq0 + i) % SeqWrap, id |-> Id0])
  /\ i' = i + Longest
  /\ UNCHANGED <<transport, link, payload, fragment, pc>>

\* One iteration of CreateTCPSegmentPackets.  newTCPLayer has the segment's
\* sequence number, but with a link layer, as all callers have, tcpLayer is
\* serialized in its place and every segment has the number of the first.
CreateTCPSegment ==
  /\ pc = "loop" /\ transport = "TCP" /\ i < payload
  /\ fragments' = Append(fragments,
       [start |-> i, length |-> Longest, more |-> FALSE, offset |-> 0,
        seq |-> IF link THEN Seq0 ELSE (Seq0 + i) % SeqWrap,
        id |-> (Id0 + Len(fragments)) % IdWrap])
  /\ i' = i + Longest
  /\ UNCHANGED <<transport, link, payload, fragment, pc>>

\* Mutant: <= where the code has <.
ReturnLate ==
  /\ pc = "loop" /\ i > payload
  /\ pc' = "done"
  /\ UNCHANGED <<transport, link, payload, fragment, i, fragments>>

Return ==
  /\ pc = "loop" /\ i >= payload
  /\ pc' = "done"
  /\ UNCHANGED <<transport, link, payload, fragment, i, fragments>>

Iterate == CreateWhole \/ CreateIPv4Fragment \/ CreateTCPSegment \/ Return

\* The function runs to its end.
CreateFragmentPackets == Called /\ [][Iterate]_callVars /\ WF_callVars(Iterate)

-----------------------------------------------------------------------------
(* Properties.                                                             *)

Packet == [start : 0 .. IPv4MaxSize, length : 0 .. IPv4MaxSize, more : BOOLEAN,
           offset : 0 .. IPv4MaxSize, seq : 0 .. SeqWrap - 1, id : 0 .. IdWrap - 1]

\* Sizes and positions are within the packet and their header fields.
TypeOK ==
  /\ transport \in {"TCP", "other"}
  /\ link \in BOOLEAN
  /\ payload \in PayloadSize
  /\ fragment \in FragmentSize
  /\ i \in 0 .. payload
  /\ fragments \in Seq(Packet)
  /\ pc \in {"loop", "whole", "done"}

End(k) == fragments[k].start + fragments[k].length

\* The packets hold the payload from its first byte to byte i, each byte once.
Contiguous ==
  /\ fragments = <<>> => i = 0
  /\ fragments # <<>> => End(Len(fragments)) = i
  /\ \A k \in 1 .. Len(fragments) :
       fragments[k].start = IF k = 1 THEN 0 ELSE End(k - 1)

\* The receiver can put every IPv4 fragment in its place: the offset field
\* says where it starts, all but the last are multiples of 8 bytes and have
\* MoreFragments set, and the last has not.
Placeable ==
  transport = "other" =>
    \A k \in 1 .. Len(fragments) :
      /\ fragments[k].offset * 8 = fragments[k].start
      /\ fragments[k].more => fragments[k].length % 8 = 0
      /\ fragments[k].more <=> End(k) < payload

\* No packet is larger than the size limit.
FitsSize == \A k \in 1 .. Len(fragments) : Header + fragments[k].length <= fragment

\* "Leave at least 8 Bytes for last fragment": so has every fragment, too.
AtLeastEightBytes ==
  transport = "other" => \A k \in 1 .. Len(fragments) : fragments[k].length >= 8

\* The Ids of a packet's TCP segments differ, so that nothing on the way
\* takes them for pieces of one packet.
SegmentIdsDiffer ==
  transport = "TCP" /\ Len(fragments) <= IdWrap =>
    \A k, l \in 1 .. Len(fragments) : fragments[k].id = fragments[l].id => k = l

\* The loops come to an end: every iteration takes something off.
Terminates == <>(pc = "done")

=============================================================================
