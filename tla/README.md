# TLA+ verification of IkaGo

IkaGo is a proxy. A *client* captures the IPv4 packets of devices in its LAN
with pcap and sends them through a tunnel to a *server*; the server translates
their source address and port, sends them to their destinations, and forwards
what comes back to the client they belong to. The tunnel is *FakeTCP* (packets
that look like TCP and are written and captured with pcap), FakeTCP under KCP,
or a real TCP connection (mode `tcp`).

The modules here model the parts that keep state across packets. TLC checks
them on small instances, and TLAPS proves every safety property that a passing
run checks, for all values of the constants. `PROJECT.json` maps each
definition to the lines it models, lists the runs, the mutants that show each
property can fail, the hazards of the code, and the findings.

    tlc -workers 2 -config ServerNAT_udp.cfg MCServerNAT
    tlapm ServerNAT_proofs.tla

## Inventory

| Part | State | Operations | Hard behaviour | What makes it correct | Module |
|---|---|---|---|---|---|
| Server NAT (`cmd/ikago-server/main.go`) | `patMap`, `nat`, three pools of time stamps, three 16-bit counters | `handleListen`, `handleUpstream`, `dist`, restart | two goroutines share the pools without a lock and `nat` with one; reuse of idle ports; counters wrap; fragments and ICMPv4 errors take other paths | no port in use is given away; a reply returns to its source; a port is refused only when all are in use | `ServerNAT` |
| Fragmentation (`internal/pcap/fragment.go`) | loop variables of one call | `CreateFragmentPackets` | alignment, minimal last fragment, wrapping Ids and sequence numbers | the pieces are the payload, fit, and can be placed; the loop ends | `Fragment` |
| Defragmentation (`internal/pcap/fragment.go`) | `frags`, one indicator per Id and source | `AppendOriginal` | loss, reordering, duplication, reuse of Ids, a deadline | what is returned is one datagram; what is complete is returned | `Defragmenter` |
| FakeTCP (`internal/pcap/faketcpconn.go`) | `seq`, `ack` per peer, `id`, connection flags, the listener's `clients` | dial, accept, three handshakes, `ReadFrom`, `WriteTo`, `Reconnect`, `Close` | an unreliable network, kernels that reset, restarts of either side, wrapping numbers, several writers | handshakes complete; acknowledgements are right; packets can be told apart | `FakeTCP` |
| Mode `tcp` (`internal/pcap/tcpconn.go`, `sticky.go`) | `d.data`, `d.indicator`, `d.appear`, `stash` | `Read`, `Write`, `Append` | a stream is cut anywhere; a deadline discards | packets come out as they were written, all of them | `Desticker` |
| Client proxy (`cmd/ikago-client/main.go`, `internal/pcap/raw.go`) | a buffer per listen device, the channel `c`, `nat` (device and hardware address of a source) | `ReadPacket`, `handleListen`, `publish`, `handleUpstream`, restart | several devices share one bounded channel; forwards before it records; looks up once and writes several fragments | packets leave in the order of their device, none waits for ever; a reply reaches a place of its source, all of it | `Client` |
| Traffic monitor (`internal/stat`) | maps of counters, a lock | `AddBidirectional`, `MarshalJSON` | the lock is released before the maps are read | a page is recent, complete, and consistent up to one packet | `Monitor` |
| Ping and DNS records (`cmd/*/main.go`, `internal/pcap/dns.go`) | `pingTime`, `pingSeq`, a goroutine per reply; `dns` | `OnRecv`, the goroutine, recording, the page | unlocked variables, reordered replies, timeouts that race replies | the server is given up only after silence, and then surely; a page shows whole responses | `Status` |
| Devices (`internal/pcap/device.go`) | `blacklist` | `FindAllDevs`, `FindListenDevs`, `FindUpstreamDevAndGatewayDev` | two calls share a blacklist; the order of lists; timeouts | exactly the unambiguous devices are found, in both calls; no start without a gateway | `Devices` |

Not modelled:

- KCP, the library kcp-go. What its connections stand on is in `FakeTCP`.
- Encryption: calls of Go's cipher library on one message at a time, without
  state.
- Configuration: parsing of options before the programs start.
- The commands that set up the firewall and other parts of the system. A
  missing firewall rule is the fault `"reset"` of `FakeTCP`.
- The log.
- `StrictDefragmenter`, which wraps gopacket's `ip4defrag`, read and write
  deadlines of `FakeTCPConn`, and `String` of the traffic types: no program
  uses them.
- Raw connections but for `ReadPacket` and its buffer, which are in `Client`:
  they are calls of libpcap.
- At the server, the goroutines that accept connections and read from them.
  `ServerNAT` starts where the packets come out of the channel that they
  share; the same construction, with a goroutine per device, is in `Client`.

How the parts interact:

- A packet of a device goes through the client's `handleListen`, `WriteTo` or
  `TCPConn.Write`, the tunnel, `ReadFrom` or `TCPConn.Read` in one goroutine
  per connection at the server, a channel, and the server's `handleListen` in
  *one* goroutine that empties the channel.
- A packet from upstream is captured by the server's main goroutine, which
  runs `handleUpstream`: defragmenter, NAT, and `Write` to the client's
  connection.
- A packet from the server is read by the client's main goroutine, which runs
  `handleUpstream`: lookup in the client's `nat`, fragmentation, and a write to
  the listen device of the source.
- Both handlers of both programs end with `AddBidirectional` or `Add` of the
  traffic monitor, and `handleUpstream` with DNS records; an HTTP server shows
  them.
- `WriteTo` splits what is too large with `CreateFragmentPackets`; the
  server's `handleUpstream` and every `FakeTCPConn` feed what they capture to an
  `EasyDefragmenter`.

## The modules

Each component has a module with its state and actions, and an `MC` module with
the constants of its instances.

### ServerNAT

The variables `patMap`, `next`, `pool` and `nat` are the server's tables,
`listen` and `upstream` are the two goroutines with what they have at hand. A
handler is several actions, one for each stretch between accesses to shared
state: `ListenDistribute` (lookup in `patMap`, `dist`), `ListenWriteMore` and
`ListenWrite` (a fragment of the packet that is not, or is, its last),
`ListenNAT` (under `natLock`) and `ListenKeepAlive`; `UpstreamLookup` (under
`natLock`), `UpstreamKeepAlive` and `UpstreamWrite`. Between any two of them
the other goroutine may take any number of steps, and time may pass (`Tick`).
`ListenWriteError` ends `handleListen` before the first fragment or after any
other; what was written by then stays written, without an entry or a stamp.
Only handleListen touches `patMap` and the counters. The pools' slots are accessed by both goroutines without a lock.
A slot is a multi-word `time.Time`; the
model takes its read and its write as atomic. The writers of a slot write
the present time, so a torn read mixes two present times or
the present time with the one before.

A time stamp is represented by its age, which stops counting one above
`KeepAlive`: the code compares ages with `keepAlive` and does nothing else
with them. Packets are reduced to what the lookups use: the quintuple, whether
the packet is an ICMPv4 error and what is embedded in it, and port or Id.
`idle`, `sent`, `cut` and `recycled` are history: nothing in the code's actions
depends on them. `idle` starts anew when a packet of the quintuple leaves or
is found in the NAT, which is *before* its port is stamped, so that the time in
between can be seen; `cut` has the quintuples whose last packet left in part and
was not recorded.

### Fragment

One behaviour is one call of `CreateFragmentPackets`, which is the name of the
specification: `Called` is what it is called with, `Iterate` an iteration of its
loops or its return. Contents are positions in the payload, so that "every byte
once" can be stated.

### Defragmenter

`AppendOriginal` is one action. Around it are hosts that do not reuse an Id
while fragments with it are in the network or were less than the deadline ago
(`Send`, per `HostKey`: what the *host* distinguishes, for IPv4 source,
destination, protocol), and a network that loses, reorders and, up to
`MaxDuplicates` times, repeats fragments. Offsets are in units of 8 bytes, which
every fragment but the last respects; `length` is a sum of uint16, so it wraps.
A datagram is given by the offsets at which it was cut, which start with 0,
increase and are 16-bit lengths (`IsCut`); `CreatedIsCut` shows that the
fragments of `CreateFragmentPackets` are such a datagram.

### FakeTCP

Two endpoints. `handshakeSYN`, `handshakeSYNACK`, `handshakeACK` and `WriteTo`
hold `c.lock` from first to last access and are atomic. `ReadFrom` sets `ack`
without it, in one assignment of a word. A message has one or two packets
(`Segments`), all with the sequence number of the message and each with an Id of
its own. `WriteToError` is a write that fails at one of them: those before it
are on their way, and `seq` and `id` stay. The history fields of a packet say
which message it is of (`first`) and how its write ended (`write`). The constant `Faults` says what goes wrong (loss,
reordering, duplication, failing writes, resets by a kernel), `Restartable` who
restarts. The variable `multicast` says whether the server uses the one
connection for all clients that KCP is given, and does not change. `backlog` holds the SYNs that the listener's
own pcap handle has captured and `Accept` did not take yet; once a connection exists, its
handle gets the SYNs as well.

### Desticker

A byte is its position in the TCP stream. `Append` is one action per turn of
its loop. What `ParseEmbPacket` makes of bytes that are not the start of a
packet is left open: any length, or an error. Once bytes are discarded (`lost`)
the stream is out of step, and nothing is claimed of what comes after; what the
first discard may take is claimed (`DiscardsNoWholePacket`).

### Client

Each goroutine is a group of actions: one per listen device (`Capture`,
`Enqueue`), the one that receives from the channel (`ListenTake` to
`ListenRecord`) and the main one (`UpstreamRead` to `UpstreamWriteError`). A
packet has a number, so that equal packets can be told apart. `handleListen`
writes to the server (`ListenWrite`) and records the source afterwards
(`ListenRecord`); between the two, and between the fragments of a reply, the
other goroutine may take any step. The environment is what the server answers:
a reply comes only for a source the server has heard of (`known`), which a
restart of the client does not change. `UpstreamPanic` is the type assertion
in `CreateFragmentPackets` that fails for a fragment.
`forwarded` and `wrote` are history.

### PacketPaths

The abstract specification of paths of packets: packets leave in the order in
which they came, each at most once; a path may refuse a packet (`Drop`), and
all paths may start anew (`Reset`). `Client` implements it with a path per listen
device: the queue of a device is the packet in the hands of `handleListen`, its
part of the channel and the packet in its goroutine, and the packets that are
dropped are those that cannot be parsed, that are answered here, or whose write
fails.

### Monitor

`AddBidirectional` is a step for every access to shared state: the lock, the
map, `count`, `size`, and again for the remote node in the client
(`bidirectional`; the server counts local nodes only). `MarshalJSON` takes and
releases the lock in one step (`RLock`), as its `RUnlock` follows at once, and
reads everything after it. Reads and writes of words are atomic, as on the
platforms Go runs on; a map that is written while it is read may make Go's
runtime end the process (`ConcurrentMapAccess`), and the program is started
again. All packets have one size, and times are left out.

### Status

`OnRecv` has one action for `pingTime` and one for `pingSeq` and the start of
the goroutine. There is one goroutine for every reply, and replies may come in any
order, repeatedly or not at all: neither `OnRecv` nor the pinger filters them. A
goroutine sleeps (`Tick`), compares (`Wake`) and writes (`Alarm`). Ages stop counting at `Deadline`. A response's addresses are
recorded one by one while `dnsLock` is held.

### Devices

A behaviour is the start of a program: `FindAllDevs` (an action per turn of its
loops: `Pass`, `Claim` or `Conflict` for a device of libpcap, then
`CheckBlacklist` for an interface that has got a name), the choice of listen devices, `FindAllDevs`
again with the blacklist of the first call, and the search for upstream device
and gateway, which passes over loopback devices (`SkipLoop`). Interfaces and libpcap's devices are positions in their lists;
which networks the gateway is in, and whether it is heard, is chosen.

## What the runs check

Passing runs:

| Run | Question | Bounds |
|---|---|---|
| `nat_udp` | Do ports, stamps, NAT entries and refusals stay right while both goroutines interleave, time passes and the process restarts? | three quintuples, which differ in the client and are symmetric, two ports: the pool runs empty and ports are recycled; packets of any number of fragments; a counter of 4 values wraps; keepAlive of one tick, so that an age can be below, at and above it |
| `nat_mixed` | Do TCP, ICMPv4 and ICMPv4 errors stay apart? | two TCP quintuples on one port, one ICMPv4 quintuple on two Ids, errors with either outer Id; a counter of 2 values, keepAlive of no tick |
| `fragment` | Are the pieces right? | every payload of 0 to 90 bytes with every size of 56 to 76: from one to several pieces with each remainder modulo 8; Ids and sequence numbers wrap |
| `defragmenter` | Is what is reassembled one datagram? | three datagrams on two flows, two of them with the same Id; up to four fragments, one datagram uncut; two duplicates; a deadline of two ticks; length wraps |
| `faketcp_faults` | Do acknowledgements and numbers hold under every fault at once, with a listener and on KCP's shared connection? | messages of one packet and of two; three events (writes, also failed ones, reconnects, restarts, losses, duplicates, resets, answers that fail) in addition to reordering and to packets that never arrive: enough for a failed write, a write after it and a fault of any other kind; numbers do not wrap |
| `faketcp_orderly` | Does the handshake complete, and is `ack` right when numbers wrap? | orderly network, four sequence numbers, four events, client restarts |
| `desticker` | Do packets come out as written, and all of them? | three packets of the header's size and of twice that, each cut anywhere, a deadline of one tick |
| `client` | Are packets forwarded in order and all of them handled, and do replies reach their source? | three devices, one of them loopback, that compete for a channel of one packet; three captures of six frames, in which a source changes its hardware address, its device, or both; replies of up to two fragments; restarts at any time |
| `monitor` | What may a page show that is made without the lock? | one local and two remote nodes, three packets in two directions, client and server; packets of two bytes, so that a packet and a byte differ |
| `status` | Is the server given up just when it is silent, and do pages show whole responses? | two sequence numbers and four replies in any order, so that a reply can be repeated after another, twice; a deadline of two ticks; responses that share an address, and one without |
| `devices` | Are the right devices found, whatever the lists? | all lists of two interfaces with any of two addresses, loopback, up or down, and all lists of three devices of libpcap: three claims of one interface, a conflict on each of two, several loopback devices |

The properties, by module (`ServerNAT`, `Fragment`, `Client` and `Status` also
have a type invariant, `TypeOK`, that their runs check; those of the other
modules are in the modules of their proofs):

- `ServerNAT`: `SharedOnlyAfterRecycle`, `PoolTracksUse`,
  `RepliesReachTheirSource`, `MissOnlyBeforeRecord`,
  `RefusedOnlyWhenAllInUse`. They bound what the code's order of statements
  costs: a port in use is given away only while a packet has no stamp yet, a
  reply can be lost only while the handler is between write and record or after
  a write that failed midway, and no port is refused while one is free.
- `Fragment`: `Contiguous`, `Placeable`, `FitsSize`, `AtLeastEightBytes`,
  `SegmentIdsDiffer`, `Terminates`.
- `Defragmenter`: `ReassembledExactly`, `NoneWaitsWhenWhole`. Both make one
  exception, of a datagram that holds one of its fragments twice.
- `FakeTCP`: `AckWithinSent`, `PacketsAreDistinguishable`, `AckIsNewestRead`,
  `Connects`. The first two except packets of a write that failed midway.
- `Desticker`: `PacketsAsWritten`, `EveryPacketIsReturned`,
  `DiscardsNoWholePacket`.
- `Client`: `NatFollowsAddress`, `RepliesStayTogether`, `ForwardsInOrder` (it
  implements `PacketPaths`), `EveryPacketIsHandled`. `NatFollowsAddress` says
  exactly what `nat` holds: the hardware address the source used last, on the
  device where it *first* used it.
- `Monitor`: `ReportsAreRecent`, `ReportsAreComplete`,
  `AtMostOnePacketWithoutBytes`, `LocalAndRemoteAgree`.
- `Status`: `AlarmOnlyAfterSilence`, `SilenceIsNoticed`,
  `PagesShowWholeAnswers`. The first excepts a goroutine whose reply is
  repeated by the last one that came.
- `Devices`: `UnambiguousDevsAreFound`, `StartsWithGateway`.

In one run the code does not do what a document says; "findings" has the
quotation. `nat_fullcone`: `patMap` never forgets, so a quintuple that was
silent speaks again on a port that `dist` has given to another: two live
quintuples share one port.

Behaviours of the code that a reader of the properties should know, and that
no run is about:

- A fragment that a client forwards has no transport layer, and
  `CreateFragmentPackets` asserts its type: the server panics
  (`ServerNAT!ListenFragment`).
- A fragmented reply is forwarded fragment by fragment, with the server's port
  (ports inside of packets are not in `ServerNAT`).
- When the server fails to write one of several fragments, those before it are
  on the wire and their port is neither stamped nor in `nat`: replies find no
  entry, and `dist` may give the port away (`ServerNAT!ListenWriteError`).
- `handleUpstream` stamps a port a while after it has looked the packet up; the
  port may be given away in between, if it was about to expire
  (`ServerNAT!UpstreamKeepAlive`).
- ICMPv4 errors about TCP or UDP packets are looked up under the protocol
  ICMPv4 and dropped (`ServerNAT!UpstreamGuide`).
- With KCP a RST makes the server dereference the address of a peer that its
  connection does not have (`FakeTCP!MulticastRST`).
- A fragment is filed under Id and source, not destination and protocol.
  `Defragmenter` distinguishes `FragFlow` from `HostKey` for this; with two
  keys in one flow datagrams are mixed.
- Completeness of a datagram is judged by the sum of lengths, so that a
  duplicate can stand for a fragment that is missing (`fragment.go:54`,
  `Defragmenter!isCompleted`).
- With a link layer all TCP segments of a packet have the first one's sequence
  number (`fragment.go:417`, `Fragment!CreateTCPSegment`,
  `FakeTCP!Fragments`).
- When `WriteTo` fails after some segments, the next message uses their Ids
  and their sequence number again (`faketcpconn.go:606`, `FakeTCP!WriteToError`).
- After the loss of the packet that wraps the sequence number `ack` stands
  still until the numbers come round (`FakeTCP!AckAdvances`, with loss and
  wrapping numbers at a time).
- A message larger than the mtu is split by `WriteTo`, and the pieces are
  returned as messages of their own (`faketcpconn.go:597`).
- Mode `tcp` discards bytes that came a moment before when no packet was completed
  for 30 s (`sticky.go:26`, `Desticker!TooOld`).
- A source that moves to another listen device and keeps its hardware address
  keeps its old device in the client's `nat`, and replies go there
  (`cmd/ikago-client/main.go:874`, `Client!Outdated`).
- A fragment from the server makes the client panic (`Client!UpstreamPanic`).
- A request of the traffic page may end the process
  (`Monitor!ConcurrentMapAccess`).
- A goroutine that has decided that the server is down may write so after a
  reply has come (`Status!Alarm`), until the next reply.
- A ping reply that is repeated after another one sets `pingSeq` back, and the
  goroutine of the first copy takes the server for down although replies come
  (`Status!OnRecvSeq`, `Status!Wake`).

The passing runs exclude some of these by their bounds: `defragmenter` has one
`HostKey` per flow, `faketcp_orderly` no loss and no oversize messages,
`faketcp_faults` no wrapping. Panics are included, with the restart after
them. The other cases are exceptions that the properties state: ports that were recycled,
writes that failed midway, duplicates of fragments, repeated ping replies. The
history of `ServerNAT` ends with the process, so its properties
say nothing of replies to packets of the process before.

### Deadlock

Deadlock is checked except where the modelled thing ends: `Fragment` is a
call that returns, `Devices` is the start of a program, and a behaviour of
`FakeTCP` ends when its `MaxEvents` events have happened and the network is
empty.

### Fairness

- `Fragment`: a call runs on (`WF_callVars(Iterate)`).
- `FakeTCP`: `DialFakeTCP` is called when the program starts; the loops around
  `ReadFrom` and `Accept` never stop, and pcap hands over what arrives. Nothing
  is assumed of writes, reconnects, restarts or faults. `Connects` is checked on an orderly
  network only: FakeTCP sends no SYN again, so with loss it
  does not hold.
- `Desticker`: the loop around `Read` never stops, and TCP delivers what was
  written. Time and writers need not move.
- `Client`: the goroutine that handles packets runs on (weak), and a goroutine
  that waits to send to the channel is served although others take the free
  place meanwhile (strong): Go's channels queue their senders. Nothing is
  assumed of captures, of the server, of failures or restarts.
- `Status`: goroutines run on and time passes (weak). Replies need not come.
- `ServerNAT`, `Defragmenter`, `Monitor` and `Devices` state no liveness. That a
  page is answered while packets are added without end is up to Go's `RWMutex`,
  and endless adds are outside the bounds of `Monitor`.

## What is proved

The theorems hold for every set of quintuples, every pool size and keep-alive
time, for every payload and size limit, for all sources, devices and
capacities, for every number of pings and all DNS responses, for all ways to
cut a stream or a datagram, all finite sets of nodes and numbers of packets,
and all lists of interfaces and devices. They rest on the named `ASSUME`s of
the modules and, for `FakeTCP` and `Defragmenter`, on hypotheses that the
theorems state:

- `ServerNAT`: pools are nonempty, at most as large as the code's, and divide
  the range of the counters (16384 and 65536 divide 65536); protocols are
  among TCP, UDP and ICMPv4; an ICMPv4 error's Id is an index of the pool
  (65536 slots for 16 bits); the "none" values are not real ones.
- `Fragment`: each packet has room for the headers and 16 bytes. Both
  programs refuse sizes below 576.
- `Defragmenter`: datagrams are cut as `IsCut` says; "none" is not an
  indicator. `Reassembles` and `WholeAtOnce` suppose that `Deadline > 0`, as the
  server and `FakeTCPConn` set it to `keepFragments`, 30 s, and `OneKeyPerFlow`, that datagrams with
  one Id and source have one `HostKey`; without it datagrams are mixed (see
  above). The run satisfies both. `CreatedIsCut` supposes that the largest IPv4
  packet is shorter than 8 `LengthWrap` (65535 and 65536).
- `Client`: the channel has room for a packet, and replies have at least one
  fragment; "none" is neither a packet nor a place.
- `Status`: the deadline is positive; "none" is not a name.
- `Desticker`: a packet is at least as long as its header, which is not empty.
- `Monitor`: a packet is not empty; there are finitely many nodes (IPv4
  addresses); "none" is neither a node, a direction nor
  an entry of a page.
- `Devices`: interfaces and devices are sequences of records; "none" is not a
  position.
- `FakeTCP`: a message has at most two packets and is no longer than the
  sequence numbers go, and "none" is not a connection. `AcksAreOfSent` and
  `PacketsDiffer` suppose `[]NumbersLast`, that `seq` and `id` have not wrapped:
  two packets 2^16 apart do have one Id. `OrderlyAcks` supposes `Orderly`
  instead: no faults, a server that is not restarted, and messages that fit a
  packet (`MessagesFit`), as the segments of a larger one have its
  sequence number and `ack` falls behind; numbers may wrap.

`ServerNAT_proofs`. None of the safety properties is inductive by itself. The
inductive invariant `IInv` adds to them:

- `ListenHolds`, `SentMapped`, `UnmappedIdle`: a quintuple that is past
  `dist`, has sent, or was active has a port, and keeps it;
- `NatOwnerHolds`: a NAT entry belongs to a quintuple that holds the port it is
  under. Needed because `handleUpstream` keeps alive the *port*, and the
  argument is about the *quintuple*;
- `UpstreamFound`, `UpstreamAnswers`: the same for the entry that
  `handleUpstream` took under the lock and uses after it, whatever
  `handleListen` did in between.

With these, `PoolTracksUse` says that a slot that `dist` takes for free has no
active holder but one with a packet that is not stamped yet (`Unstamped`), hence
every holder is recycled (`SharedOnlyAfterRecycle`), and
a reply's quintuple and its NAT entry hold the same port, hence are the same
or one was recycled (`RepliesReachTheirSource`). The refusal property is an
action property: `EverySlotProbed` shows that the wrapped counter, modulo the
pool size, visits every slot, from the divisibility of the counter's range.

`Fragment_proofs`. `IInv` says that the pieces so far are the payload up to
`i`, and that before the last piece `i` is a multiple of 8 and at least 8
bytes are left; without the latter the last fragment could be tiny. `AppendStep` carries a
property of all pieces over one `Append`. `SegmentIdsDiffer` follows from
the Id of piece *k* being `Id0 + k - 1` modulo `IdWrap` (`SameRemainder`).
`IterationsTakeSome` is the safety half of `Terminates`: every iteration takes
something off the payload and no more than is left.

The module goes on to the other half of `fragment.go`. `CreatedIsCut` composes
the two: what a call returns is a datagram as `Defragmenter` assumes it, with
`MoreFragments` on all but the last and lengths that are the distances between
offsets. `EndsInside` carries the bound of the last offset to all of them.

The argument about `Defragmenter` is in three parts.

- *The sequence.* `SortedFacts`: the insertion keeps fragments in the order of
  their offsets, adds one and hides no duplicate. `WholeIsExact`: fragments in
  order, every one and none twice, are `AllFragments(d)`.
- *The sum.* `IsLength(d, s, length)` says that `length` is the sum of the lengths
  of those fragments of `d`, but for the last, that `s` holds, by giving all
  partial sums; so it needs no recursion. `LengthAdds` is what one more
  fragment does to it, and `LengthBounds`, by induction, that the sum reaches the
  last fragment's offset exactly when no other fragment is missing. So it stays
  below `LengthWrap` as long as nothing is there twice, the 16-bit addition in
  `append` does not wrap, and `length / 8 == offset` is a right test
  (`CompletedIsWhole`).
- *The state.* Neither property is inductive: they need that an indicator only
  ever gets fragments of one datagram. `WaitsFor` says which one, and that as
  long as the indicator is not too old no other datagram with the same
  `HostKey` is on its way, because the host's time of silence (`quiet`) is at most the
  indicator's age. `SendStep` shows that an Id is used again only when the
  indicator is stale, `ArriveStep` that a stale indicator is replaced. TLC
  checked `DefragInv` on the run's instance first.

`Client_proofs`. `NatFollowsAddress` makes an exception while `handleListen` is
between write and record, and so is not inductive: the invariant has to say
what `nat` holds *then*. `NatFollows` does, with all packets but the one in
hand (`Recorded`), and `RecordsLast` says that this one was forwarded last.
`FollowsNext` is the argument about `Outdated`: if the entry follows the
packets so far, the conditional assignment makes it follow one more, by the
three cases of no packet before, the same address, and another address. For
replies, `ReplyInHand` says that the entry that was read under `natLock` is the
place of a packet of the source and all fragments so far went there, whatever
`nat` is by now; it holds at the lookup because of `NatFollows`.

`ForwardsAsPaths` is the refinement of `PacketPaths`. `OfConn` filters the packets of a
device out of a sequence, by a recursive function; its lemmas say what it does
to an appended and to a removed packet. `Capture` is a packet that comes, and
`Enqueue` and `ListenTake` leave the path as it is: the packet moves within the
queue that the mapping puts together from channel and goroutines, for which it
matters that a goroutine holds packets of its own device only (`ReadersOwn`).
`ListenWrite` is a packet that leaves, the other ends of `handleListen` drop one
(`DropsOldest`), and a restart gives all paths up.

`Status_proofs`. `SleepsInSilence`: `pingSeq` is the number of the last reply,
whose goroutine has not slept longer than the silence lasts. Replies may overtake
and repeat each other, so nothing of the kind holds of the other goroutines: one that
wakes either sees that `pingSeq` is not its own, or has the number of the
last reply, which is the exception of the property. `WholeWhenUnlocked`: when `dnsLock` is free, the
records are those of whole responses.

`FakeTCP_proofs`. With faults, `IInv` relates `seq` and `id` to what a process
has sent (`InStep`), every packet on its way or in the backlog to what its
sender has sent by now (`Sent`), two packets of a process to each other
(`InTurn`: the packets of a later message start where those of an earlier one
end, or after that), and `ack` to what the peer has sent (`AckIsOfSent`). The last speaks
only of an `ack` that the peer's present process caused, which is why
`newest.ackOf` is kept: after a restart of the peer the old `ack` is higher than
anything the new process sent.

Without faults, `AckIsNewestRead` needs that whatever arrives next goes on
where the reader is. `Line(e)` is what is on its way to an endpoint together
with the packet that its peer sends next. `OInv` says that this is a chain
(`Chain`: numbered without gaps, each packet starts where the one before it
ends, and a later process starts at its first packet), and that its first
packet starts at the newest end that was read, or is the SYN of a new process
(`GoesOn`). The exception is a reader that has read no more than a SYN: the
listener may have passed over SYNs that came before it accepted the first, and
`AckStaysAtEnd` is the argument that the test in `ReadFrom` is right all the
same, on numbers that wrap. `ListenerWaits` says that the SYN that `Accept`
takes is the first packet of a process.

`Desticker_proofs`. As long as nothing was discarded, `d.data` starts at the
first packet that was not found yet and `d.indicator` is its length or 0
(`InStep`); with `Increasing`, which says that no packet is shorter than its
header, `PacketsAsWritten` is inductive. For `DiscardsNoWholePacket` the
invariant has to say what `Append` leaves behind: while the reader waits, no
packet that was not found is in `d.data` as a whole (`NoneIsWhole`). It holds when
`Append` breaks off, as it does so only for less than the packet of the
indicator or for less than a header, and packets are at least a header apart
(`Separated`).

`Monitor_proofs`. `BytesOfCounts` says that size and count agree except for
the packet that the holder of the lock is adding (`HalfAdded`), and
`BeginIsPast` that what was counted when the lock was released stays counted,
with its bytes. `ReadIsRecent` carries this over the time between the read of
a count and the read of its size. `NoneIsForgotten` follows a node through
the nested loops of `MarshalJSON`.
`TotalsAgree` is about sums over all nodes, between whose two halves the handler
has the lock: `Agreement` says by how much they are apart at every step (`Ahead`,
`BytesLate`). What the fold `MapThenSumSet` computes is shown first, from its
definition as a recursive function on the subsets of a finite set: that there
is such a function (`SumExists`), and that it adds *k* when one summand grows by
*k* (`SumAdds`).

`Devices_proofs`. The blacklist of the first call is input to the second, so
the invariant has to say what it is good for: every device on it shares its interface
with another (`BlacklistIsAmbiguous`), and it holds all devices of an
interface except those that will find their interface taken
(`BlacklistIsClosed`). `EachIsListedOnce` says where an interface with a name
is: in `mid`, in the result, or its device is on the blacklist.
`MinInSet` shows that the interface a device is matched with is the first
in the list, from the well-foundedness of the naturals.

Where a proof needs induction over numbers, it is about a set of numbers: the
lemma `Induction` says that a set that has 0 and with every *n* also *n* + 1 has
all of them, and follows from the well-foundedness of < (`WFMin`). The library's
own induction theorems take an operator as a parameter, which the provers
cannot instantiate.

Only model-checked is the liveness (`Terminates`, `Connects`,
`EveryPacketIsReturned`, `EveryPacketIsHandled`, `SilenceIsNoticed`): it is outside what TLAPS proves here.

No module declares a recursive operator.

## Plan

1. *Done*: `ServerNAT`, `Fragment`, `Defragmenter`, `Client`, `Status`,
   `FakeTCP`, `Desticker`, `Monitor` and `Devices` with proofs of all their
   safety properties; `PacketPaths` and its refinement by `Client`, proved.
2. `FakeTCP` with several clients on KCP's shared connection, whose `id` they
   share.
3. A composition of client, tunnel and server: the round trip of a packet
   across restarts.
4. A NAT that maps each active quintuple to its own port as an abstract
   specification, which `ServerNAT` implements as long as no recycled
   quintuple returns.
