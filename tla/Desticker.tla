----------------------------- MODULE Desticker -----------------------------
(***************************************************************************)
(* Mode "tcp" without encryption: TCPConn (internal/pcap/tcpconn.go) on a  *)
(* TCP stream, which keeps no packet boundaries, and its Desticker         *)
(* (internal/pcap/sticky.go), which finds them again by the length field   *)
(* of each packet's IPv4 header.                                           *)
(*                                                                         *)
(* A byte is its position in the stream.  What d.data holds is always the  *)
(* last bytes that were read, from "from" on.  Append is one action per    *)
(* step of its loop; the reader is one goroutine.                          *)
(***************************************************************************)
EXTENDS Integers, Sequences

CONSTANTS
  Length,      \* lengths of packets
  Header,      \* bytes without which a packet cannot be parsed
  Deadline,    \* deadline (keepSticky), in ticks
  MaxPackets   \* bound: packets that are written

ASSUME LengthAssumption ==
  /\ Header \in Nat \ {0}
  /\ Length \subseteq Nat /\ \A l \in Length : l >= Header

ASSUME BoundAssumption == Deadline \in Nat /\ MaxPackets \in Nat

VARIABLES
  start,      \* positions where the packets start, and where the last ends
  got,        \* bytes that conn.Read returned
  from,       \* d.data is the bytes from .. got - 1
  indicator,  \* d.indicator: the length of the packet being put together, or 0
  appear,     \* d.appear, as an age
  packets,    \* packets that Append has found
  stash,      \* stash[stashId:]
  returned,   \* packets that Read returned
  pc,         \* the reader: "idle" or in the "loop" of Append
  lost        \* history: bytes were discarded

vars == <<start, got, from, indicator, appear, packets, stash, returned, pc, lost>>

-----------------------------------------------------------------------------

Old == Deadline + 1

Older(a) == IF a = Old THEN a ELSE a + 1

Written == start[Len(start)]

Held == got - from

\* The lengths ParseEmbPacket may find at "from", none for an error.  What is
\* not the start of a packet parses as anything.
Parsed ==
  IF \E k \in 1 .. Len(start) - 1 : start[k] = from
  THEN {start[k + 1] - start[k] : k \in {k \in 1 .. Len(start) - 1 :
          start[k] = from /\ Held >= Header}}
  ELSE IF Held >= Header THEN Length ELSE {}

MayNotParse ==
  \/ Held < Header
  \/ \A k \in 1 .. Len(start) - 1 : start[k] # from

Init ==
  /\ start = <<0>>
  /\ got = 0
  /\ from = 0
  /\ indicator = 0
  /\ appear = 0
  /\ packets = <<>>
  /\ stash = <<>>
  /\ returned = <<>>
  /\ pc = "idle"
  /\ lost = FALSE

\* TCPConn.Write of the peer.
Write(l) ==
  /\ Len(start) <= MaxPackets
  /\ start' = Append(start, Written + l)
  /\ UNCHANGED <<got, from, indicator, appear, packets, stash, returned, pc, lost>>

\* Read returns a stashed packet.
ReadStash ==
  /\ pc = "idle" /\ stash # <<>>
  /\ returned' = Append(returned, Head(stash))
  /\ stash' = Tail(stash)
  /\ UNCHANGED <<start, got, from, indicator, appear, packets, pc, lost>>

TooOld == Deadline > 0 /\ appear > Deadline

\* Read reads n bytes from the connection.  Append discards what it has when
\* it found nothing for longer than deadline, and appends them.
ReadConn(n) ==
  /\ pc = "idle" /\ stash = <<>>
  /\ n \in 1 .. Written - got
  /\ got' = got + n
  /\ from' = IF TooOld THEN got ELSE from
  /\ indicator' = IF TooOld THEN 0 ELSE indicator
  /\ lost' = (lost \/ (TooOld /\ Held > 0))
  /\ packets' = <<>>
  /\ pc' = "loop"
  /\ UNCHANGED <<start, appear, stash, returned>>

\* Mutant: "d.indicator = nil" is forgotten.
ExtractSameLength ==
  /\ pc = "loop" /\ indicator # 0 /\ Held >= indicator
  /\ packets' = Append(packets, <<from, from + indicator>>)
  /\ from' = from + indicator
  /\ UNCHANGED <<start, got, indicator, appear, stash, returned, pc, lost>>

\* The packet is complete.
Extract ==
  /\ pc = "loop" /\ indicator # 0 /\ Held >= indicator
  /\ packets' = Append(packets, <<from, from + indicator>>)
  /\ from' = from + indicator
  /\ indicator' = 0
  /\ UNCHANGED <<start, got, appear, stash, returned, pc, lost>>

\* The header is complete.
Parse ==
  /\ pc = "loop" /\ indicator = 0
  /\ indicator' \in Parsed
  /\ UNCHANGED <<start, got, from, appear, packets, stash, returned, pc, lost>>

\* Mutant: Append returns with the first packet it finds.
BreakEarly ==
  /\ pc = "loop"
  /\ packets # <<>> \/ (IF indicator = 0 THEN MayNotParse ELSE Held < indicator)
  /\ appear' = IF packets # <<>> THEN 0 ELSE appear
  /\ stash' = packets
  /\ packets' = <<>>
  /\ pc' = "idle"
  /\ UNCHANGED <<start, got, from, indicator, returned, lost>>

\* The packet or the header is not complete: Append returns.
Break ==
  /\ pc = "loop"
  /\ IF indicator = 0 THEN MayNotParse ELSE Held < indicator
  /\ appear' = IF packets # <<>> THEN 0 ELSE appear
  /\ stash' = packets
  /\ packets' = <<>>
  /\ pc' = "idle"
  /\ UNCHANGED <<start, got, from, indicator, returned, lost>>

Tick ==
  /\ appear' = Older(appear)
  /\ UNCHANGED <<start, got, from, indicator, packets, stash, returned, pc, lost>>

Next ==
  \/ \E l \in Length : Write(l)
  \/ ReadStash
  \/ \E n \in 1 .. Written - got : ReadConn(n)
  \/ Extract
  \/ Parse
  \/ Break
  \/ Tick

\* The loop around Read never stops, and TCP delivers.
Fairness == WF_vars(ReadStash \/ (\E n \in 1 .. Written - got : ReadConn(n)) \/ Extract
                      \/ Parse \/ Break)

Spec == Init /\ [][Next]_vars /\ Fairness

-----------------------------------------------------------------------------
(* Properties.                                                             *)

\* Everything found so far: returned, stashed, or in the hands of Append.
Found == returned \o stash \o packets

\* As long as nothing was discarded, however the stream is cut into reads,
\* the packets found are the packets written, each once and in order.
PacketsAsWritten ==
  ~lost => \A k \in 1 .. Len(Found) : Found[k] = <<start[k], start[k + 1]>>

\* A packet that was written is returned, or bytes were discarded.  No packet
\* waits in d.data for the next one to be read.
EveryPacketIsReturned ==
  \A k \in 1 .. MaxPackets : (Len(start) > k) ~> (Len(returned) >= k \/ lost)

\* The deadline counts from the last packet found and not from the last data,
\* so it may discard what has just come.  Still, what it discards of a stream
\* in step is the beginning of one packet, never a whole one: Append does not
\* return while a whole packet is left in d.data.
DiscardsNoWholePacket ==
  [][~lost /\ lost' =>
       \E k \in 1 .. Len(start) - 1 : start[k] = from /\ got < start[k + 1]]_vars

=============================================================================
