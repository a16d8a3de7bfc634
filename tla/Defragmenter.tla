---------------------------- MODULE Defragmenter ----------------------------
(***************************************************************************)
(* EasyDefragmenter (internal/pcap/fragment.go), which the server and      *)
(* every FakeTCPConn feed with what they capture, between a network that   *)
(* loses, reorders and duplicates, and hosts that reuse IPv4 Ids.          *)
(*                                                                         *)
(* A datagram is given by the offsets at which it was cut, in units of 8   *)
(* bytes; it is one packet when it was not cut.                            *)
(***************************************************************************)
EXTENDS Integers, Sequences

CONSTANTS
  Datagram,    \* the datagrams of a behaviour
  FragFlow,    \* fragFlow: Id and source address
  FlowOf,      \* the fragFlow of a datagram
  HostKey,     \* what the host takes care not to reuse an Id for
  KeyOf,       \* the HostKey of a datagram
  Cut,         \* the offsets of a datagram's fragments
  Deadline,    \* deadline (keepFragments), in ticks
  LengthWrap,  \* values of the uint16 length, in units of 8 bytes (8192)
  MaxDuplicates,  \* bound: duplicates that the network makes
  NoIndicator

\* The offsets of fragments: they start with 0 and increase.
IsCut(s) ==
  /\ Len(s) > 0 /\ s[1] = 0
  /\ \A k \in 1 .. Len(s) : s[k] \in Nat /\ s[k] < LengthWrap
  /\ \A k \in 1 .. Len(s) - 1 : s[k] < s[k + 1]

ASSUME DatagramAssumption ==
  /\ FlowOf \in [Datagram -> FragFlow]
  /\ KeyOf \in [Datagram -> HostKey]
  /\ \A d \in Datagram : Cut[d] \in Seq(Nat) /\ IsCut(Cut[d])

ASSUME BoundAssumption == Deadline \in Nat /\ LengthWrap \in Nat /\ MaxDuplicates \in Nat

Indicator == [length : Nat, offset : Nat, frags : Seq([d : Datagram, k : Nat]), age : Nat]

ASSUME NoIndicatorAssumption == NoIndicator \notin Indicator

VARIABLES
  net,     \* fragments on their way
  sent,    \* datagrams that were sent
  quiet,   \* ticks since a fragment with a HostKey left the network
  frags,   \* frags: the fragIndicator of a fragFlow
  result,  \* fragments of the packet that the last call returned, or none
  duplicates  \* how many duplicates were made

vars == <<net, sent, quiet, frags, result, duplicates>>

-----------------------------------------------------------------------------

FragOffset(f) == Cut[f.d][f.k]

MoreFragments(f) == f.k < Len(Cut[f.d])

IsFrag(f) == MoreFragments(f) \/ FragOffset(f) # 0

\* len(NetworkPayload()) of a fragment that is not the last.
PayloadLength(f) == Cut[f.d][f.k + 1] - Cut[f.d][f.k]

AllFragments(d) == [k \in 1 .. Len(Cut[d]) |-> [d |-> d, k |-> k]]

Old == Deadline + 1

Older(a) == IF a = Old THEN a ELSE a + 1

newFragIndicator == [length |-> 0, offset |-> 0, frags |-> <<>>, age |-> 0]

\* sort.Slice by offset, of s with f at its end: s is sorted already, so the
\* fragments that belong behind f move up by one.
Sorted(s, f) ==
  LET Behind(g) == FragOffset(g) > FragOffset(f)
  IN [n \in 1 .. Len(s) + 1 |->
        IF n <= Len(s) /\ ~ Behind(s[n]) THEN s[n]
        ELSE IF n > 1 /\ Behind(s[n - 1]) THEN s[n - 1]
        ELSE f]

\* fragIndicator.append.
append(ind, f) ==
  [length |-> IF MoreFragments(f) THEN (ind.length + PayloadLength(f)) % LengthWrap
                                  ELSE ind.length,
   offset |-> IF MoreFragments(f) THEN ind.offset ELSE FragOffset(f),
   frags  |-> Sorted(ind.frags, f),
   age    |-> 0]

\* Mutant: the length in bytes is compared with the offset in units of 8.
isCompletedInBytes(ind) == ind.length * 8 = ind.offset

\* length / 8 == offset.
isCompleted(ind) == ind.length = ind.offset

\* Mutant: fragments are kept for ever.
CurrentForever(flow) == IF frags[flow] = NoIndicator THEN newFragIndicator ELSE frags[flow]

\* The indicator that AppendOriginal appends to: a new one when there is
\* none or when its last fragment came longer than deadline ago.
Current(flow) ==
  IF frags[flow] = NoIndicator \/ (Deadline > 0 /\ frags[flow].age > Deadline)
  THEN newFragIndicator
  ELSE frags[flow]

\* AppendOriginal, whole.  concatenate may fail to parse what it put together.
AppendOriginal(f) ==
  IF ~ IsFrag(f)
  THEN frags' = frags /\ result' = <<f>>
  ELSE LET ind == append(Current(FlowOf[f.d]), f) IN
       IF isCompleted(ind)
       THEN /\ frags' = [frags EXCEPT ![FlowOf[f.d]] = NoIndicator]
            /\ result' \in {ind.frags, <<>>}
       ELSE /\ frags' = [frags EXCEPT ![FlowOf[f.d]] = ind]
            /\ result' = <<>>

-----------------------------------------------------------------------------

Init ==
  /\ net = {}
  /\ sent = {}
  /\ quiet = [h \in HostKey |-> Old]
  /\ frags = [l \in FragFlow |-> NoIndicator]
  /\ result = <<>>
  /\ duplicates = 0

\* A host sends a datagram.  It uses an Id again only when the fragments of
\* the earlier datagram are gone for longer than they are kept.
Send(d) ==
  /\ d \notin sent
  /\ \A f \in net : KeyOf[f.d] # KeyOf[d]
  /\ quiet[KeyOf[d]] = Old
  /\ net' = net \cup {AllFragments(d)[k] : k \in 1 .. Len(Cut[d])}
  /\ sent' = sent \cup {d}
  /\ UNCHANGED <<quiet, frags, result, duplicates>>

Lose(f) ==
  /\ net' = net \ {f}
  /\ quiet' = [quiet EXCEPT ![KeyOf[f.d]] = 0]
  /\ UNCHANGED <<sent, frags, result, duplicates>>

\* A fragment is captured; a duplicate may be still to come.
Arrive(f) ==
  /\ AppendOriginal(f)
  /\ \/ net' = net \ {f} /\ UNCHANGED duplicates
     \/ net' = net /\ duplicates < MaxDuplicates /\ duplicates' = duplicates + 1
  /\ quiet' = [quiet EXCEPT ![KeyOf[f.d]] = 0]
  /\ UNCHANGED sent

Tick ==
  /\ quiet' = [h \in HostKey |-> Older(quiet[h])]
  /\ frags' = [l \in FragFlow |->
       IF frags[l] = NoIndicator THEN NoIndicator
       ELSE [frags[l] EXCEPT !.age = Older(@)]]
  /\ UNCHANGED <<net, sent, result, duplicates>>

Next ==
  \/ \E d \in Datagram : Send(d)
  \/ \E f \in net : Lose(f) \/ Arrive(f)
  \/ Tick

Spec == Init /\ [][Next]_vars

-----------------------------------------------------------------------------
(* Properties.                                                             *)

Twice(s) == \E m, n \in DOMAIN s : m # n /\ s[m] = s[n]

\* A packet that is returned is one datagram: all of its fragments, each
\* once, in order, and no fragment of another one.  The only test for it in
\* the code is a sum of lengths, which only a duplicate deceives: a packet
\* that is wrong holds a fragment twice.
ReassembledExactly ==
  result # <<>> => (\E d \in sent : result = AllFragments(d)) \/ Twice(result)

\* The fragments of a datagram are not all there and waiting, unless a
\* duplicate among them spoiled the sum.
NoneWaitsWhenWhole ==
  \A l \in FragFlow : frags[l] # NoIndicator =>
    \/ Twice(frags[l].frags)
    \/ \A d \in Datagram : \E k \in 1 .. Len(Cut[d]) :
         \A n \in DOMAIN frags[l].frags : frags[l].frags[n] # AllFragments(d)[k]

=============================================================================
