------------------------------ MODULE Devices ------------------------------
(***************************************************************************)
(* How the programs find their devices when they start                     *)
(* (internal/pcap/device.go): FindAllDevs matches the devices of libpcap   *)
(* with the interfaces of the system by their addresses and keeps a        *)
(* blacklist of the ones it cannot tell apart; FindListenDevs and          *)
(* FindUpstreamDevAndGatewayDev both call it, one after the other.         *)
(*                                                                         *)
(* An interface is its position in the list of the system, a device of     *)
(* libpcap its position in the list of libpcap; each has a name of its     *)
(* own.  What FindGatewayDev hears on the network is a choice.             *)
(***************************************************************************)
EXTENDS Naturals, FiniteSets, Sequences, FiniteSetsExt

CONSTANTS
  Address,    \* IPv4 addresses
  Interfaces, \* lists of interfaces: [addrs, loop, up]
  PcapDevs,   \* lists of devices of libpcap: [addrs, loop], addrs a sequence
  None        \* no interface, no device

ASSUME InputAssumption ==
  /\ Interfaces \subseteq Seq([addrs : SUBSET Address, loop : BOOLEAN, up : BOOLEAN])
  /\ PcapDevs \subseteq Seq([addrs : Seq(Address), loop : BOOLEAN])
  /\ None \notin Nat

VARIABLES
  inters,      \* net.Interfaces()
  devs,        \* pcap.FindAllDevs()
  blacklist,   \* blacklist
  name,        \* the name of an interface's Device: a device of libpcap, or None
  mid,         \* mid, or what is left of it to check
  next,        \* the device of libpcap that is next
  found,       \* the result of FindAllDevs: <<[inter, dev], ...>>
  listenDevs,  \* listenDevs, or None
  gateway,     \* the addresses in whose network the gateway is
  trying,      \* devices that FindUpstreamDevAndGatewayDev has yet to try
  upDev,       \* upDev, or None
  gatewayDev,  \* the device on which gatewayDev was found, or None
  pc           \* "match", "found", "upstream", "started" or "fatal"

vars == <<inters, devs, blacklist, name, mid, next, found, listenDevs, gateway, trying, upDev,
          gatewayDev, pc>>

-----------------------------------------------------------------------------

\* The interfaces that are not passed over.
Usable == {i \in DOMAIN inters : inters[i].up \/ inters[i].loop}

First(S) == IF S = {} THEN None ELSE Min(S)

FindLoopDev == First({i \in Usable : inters[i].loop})

FindDev(a) == First({i \in Usable : a \in inters[i].addrs})

\* The interface that a device of libpcap is matched with: the loopback one,
\* or that of the first of its addresses that belongs to one.
Match(p) ==
  LET known == {k \in DOMAIN devs[p].addrs : FindDev(devs[p].addrs[k]) # None}
  IN IF devs[p].loop THEN FindLoopDev
     ELSE IF known = {} THEN None ELSE FindDev(devs[p].addrs[Min(known)])

Init ==
  /\ inters \in Interfaces
  /\ devs \in PcapDevs
  /\ blacklist = {}
  /\ name = [i \in DOMAIN inters |-> None]
  /\ mid = <<>>
  /\ next = 1
  /\ found = <<>>
  /\ listenDevs = None
  /\ gateway = {}
  /\ trying = <<>>
  /\ upDev = None
  /\ gatewayDev = None
  /\ pc = "match"

-----------------------------------------------------------------------------
(* FindAllDevs.                                                            *)

input == <<inters, devs>>
choice == <<listenDevs, gateway, trying, upDev, gatewayDev>>

\* A device that is on the blacklist or has no interface is passed over.
Pass ==
  /\ pc = "match" /\ next \in DOMAIN devs
  /\ next \in blacklist \/ Match(next) = None
  /\ next' = next + 1
  /\ UNCHANGED <<input, blacklist, name, mid, found, choice, pc>>

\* The interface is free.
Claim ==
  LET d == Match(next)
  IN /\ pc = "match" /\ next \in DOMAIN devs
     /\ next \notin blacklist /\ d # None /\ name[d] = None
     /\ name' = [name EXCEPT ![d] = next]
     /\ mid' = Append(mid, d)
     /\ next' = next + 1
     /\ UNCHANGED <<input, blacklist, found, choice, pc>>

\* Mutant: the device that came first is kept.
ConflictKeepsFirst ==
  LET d == Match(next)
  IN /\ pc = "match" /\ next \in DOMAIN devs
     /\ next \notin blacklist /\ d # None /\ name[d] # None
     /\ blacklist' = blacklist \cup {next}
     /\ next' = next + 1
     /\ UNCHANGED <<input, name, mid, found, choice, pc>>

\* Another device has the interface: neither will be used.  A loopback device
\* takes the interface nevertheless.
Conflict ==
  LET d == Match(next)
  IN /\ pc = "match" /\ next \in DOMAIN devs
     /\ next \notin blacklist /\ d # None /\ name[d] # None
     /\ blacklist' = blacklist \cup {next, name[d]}
     /\ name' = IF devs[next].loop THEN [name EXCEPT ![d] = next] ELSE name
     /\ mid' = IF devs[next].loop THEN Append(mid, d) ELSE mid
     /\ next' = next + 1
     /\ UNCHANGED <<input, found, choice, pc>>

\* All devices are matched: the next one of mid is added to the result, unless
\* it came onto the blacklist.
CheckBlacklist ==
  LET d == Head(mid)
  IN /\ pc = "match" /\ next \notin DOMAIN devs /\ mid # <<>>
     /\ found' = IF name[d] \in blacklist THEN found
                 ELSE Append(found, [inter |-> d, dev |-> name[d]])
     /\ mid' = Tail(mid)
     /\ UNCHANGED <<input, blacklist, name, next, choice, pc>>

ReturnAllDevs ==
  /\ pc = "match" /\ next \notin DOMAIN devs /\ mid = <<>>
  /\ pc' = "found"
  /\ UNCHANGED <<input, blacklist, name, mid, next, found, choice>>

-----------------------------------------------------------------------------
(* FindListenDevs and FindUpstreamDevAndGatewayDev, and what main does      *)
(* with their results.                                                     *)

IsLoop(d) == inters[d.inter].loop

Fatal ==
  /\ pc' = "fatal"
  /\ UNCHANGED <<input, blacklist, name, mid, next, found, choice>>

\* FindListenDevs: the devices of the given names, or all but loopback, and
\* then FindAllDevs is called again, with new Devices and the old blacklist.
Listen(names) ==
  LET chosen == IF names = {} THEN SelectSeq(found, LAMBDA d : ~IsLoop(d))
                ELSE SelectSeq(found, LAMBDA d : d.inter \in names)
  IN /\ pc = "found" /\ listenDevs = None
     /\ names \subseteq {found[k].inter : k \in DOMAIN found}
     /\ chosen # <<>>
     /\ listenDevs' = chosen
     /\ name' = [i \in DOMAIN inters |-> None]
     /\ mid' = <<>>
     /\ next' = 1
     /\ found' = <<>>
     /\ pc' = "match"
     /\ UNCHANGED <<input, blacklist, gateway, trying, upDev, gatewayDev>>

\* A name is unknown, or there is no device.
ListenError ==
  /\ pc = "found" /\ listenDevs = None
  /\ Fatal

\* A device is given by name: it is the gateway itself if it is loopback.
UpstreamLoop(k) ==
  /\ pc = "found" /\ listenDevs # None
  /\ k \in DOMAIN found /\ IsLoop(found[k])
  /\ upDev' = found[k]
  /\ gatewayDev' = found[k]
  /\ pc' = "started"
  /\ UNCHANGED <<input, blacklist, name, mid, next, found, listenDevs, gateway, trying>>

\* The devices to try: the one that is given by name, or all.
Upstream(devices, domain) ==
  /\ pc = "found" /\ listenDevs # None
  /\ devices = found \/ (Len(devices) = 1 /\ ~IsLoop(devices[1]))
  /\ trying' = devices
  /\ gateway' = domain
  /\ pc' = "upstream"
  /\ UNCHANGED <<input, blacklist, name, mid, next, found, listenDevs, upDev, gatewayDev>>

InDomain(d) == inters[d.inter].addrs \cap gateway # {}

\* Loopback devices are passed over.
SkipLoop ==
  /\ pc = "upstream" /\ trying # <<>>
  /\ IsLoop(Head(trying))
  /\ trying' = Tail(trying)
  /\ UNCHANGED <<input, blacklist, name, mid, next, found, listenDevs, gateway, upDev, gatewayDev, pc>>

\* Mutant: the search goes on after the device is found.
GatewayGoOn ==
  /\ pc = "upstream" /\ trying # <<>>
  /\ ~IsLoop(Head(trying)) /\ InDomain(Head(trying))
  /\ gatewayDev' = Head(trying)
  /\ upDev' = IF upDev = None THEN Head(trying) ELSE upDev
  /\ trying' = Tail(trying)
  /\ pc' = IF trying' = <<>> THEN "started" ELSE "upstream"
  /\ UNCHANGED <<input, blacklist, name, mid, next, found, listenDevs, gateway>>

\* FindGatewayDev captures the packet it sends to the gateway.
GatewayFound ==
  /\ pc = "upstream" /\ trying # <<>>
  /\ ~IsLoop(Head(trying)) /\ InDomain(Head(trying))
  /\ gatewayDev' = Head(trying)
  /\ upDev' = Head(trying)
  /\ pc' = "started"
  /\ UNCHANGED <<input, blacklist, name, mid, next, found, listenDevs, gateway, trying>>

\* It does not within 3 s, or the device is not in the network of the gateway.
GatewayTimeout ==
  /\ pc = "upstream" /\ trying # <<>>
  /\ ~IsLoop(Head(trying))
  /\ gatewayDev' = None
  /\ trying' = Tail(trying)
  /\ UNCHANGED <<input, blacklist, name, mid, next, found, listenDevs, gateway, upDev, pc>>

\* No device is left ("cannot determine upstream device"), the name of the
\* device is unknown, or the system does not know its gateway.
UpstreamError ==
  /\ (pc = "upstream" /\ trying = <<>>) \/ (pc = "found" /\ listenDevs # None)
  /\ Fatal

Next ==
  \/ Pass
  \/ Claim
  \/ Conflict
  \/ CheckBlacklist
  \/ ReturnAllDevs
  \/ \E names \in SUBSET DOMAIN inters : Listen(names)
  \/ ListenError
  \/ \E k \in DOMAIN found : UpstreamLoop(k)
  \/ \E devices \in {found} \cup {<<found[k]>> : k \in DOMAIN found}, domain \in SUBSET Address :
       Upstream(devices, domain)
  \/ SkipLoop
  \/ GatewayFound
  \/ GatewayTimeout
  \/ UpstreamError

Spec == Init /\ [][Next]_vars

-----------------------------------------------------------------------------
(* Properties.                                                             *)

Device == [inter : DOMAIN inters, dev : DOMAIN devs]

\* The devices of libpcap that are matched with an interface.
Claims(d) == {p \in DOMAIN devs : Match(p) = d}

\* However the lists are ordered, FindAllDevs returns, once each, exactly the
\* interfaces that one device of libpcap is matched with.  It does so in the
\* second call, too, in spite of the blacklist that the first one left.
UnambiguousDevsAreFound ==
  pc = "found" =>
    /\ Range(found) = {d \in Device : Claims(d.inter) = {d.dev}}
    /\ IsInjective(found)

\* A program that starts has an upstream device with one matching device of
\* libpcap, and the gateway was found on it.
StartsWithGateway ==
  pc = "started" =>
    /\ gatewayDev = upDev
    /\ Claims(upDev.inter) = {upDev.dev}
    /\ IsLoop(upDev) \/ InDomain(upDev)

=============================================================================
