------------------------------- MODULE Status -------------------------------
(***************************************************************************)
(* What the web pages of the monitor show besides traffic: the time of     *)
(* the last ping of the client (cmd/ikago-client/main.go), which tells     *)
(* whether the server can be reached, and the names that were found in     *)
(* DNS responses (client and server).                                      *)
(*                                                                         *)
(* OnRecv runs in the goroutine of the pinger, and starts one more for     *)
(* every reply that looks after a while whether another came.  None of     *)
(* them uses a lock.  Replies may be lost, reordered and repeated: the     *)
(* pinger hands every one of them on.                                      *)
(***************************************************************************)
EXTENDS Naturals, FiniteSets

CONSTANTS
  MaxSeq,     \* bound: sequence numbers of pings
  MaxReplies, \* bound: replies that come, repeated ones among them
  Deadline,   \* pingDeadline, in ticks
  Address,    \* addresses in DNS answers
  Name,       \* names
  Answers,    \* DNS responses: [name, ips]
  None        \* no name, no answer

ASSUME BoundAssumption ==
  MaxSeq \in Nat /\ MaxReplies \in Nat /\ Deadline \in Nat \ {0}

ASSUME AnswersAssumption == Answers \subseteq [name : Name, ips : SUBSET Address]

ASSUME NoneAssumption == None \notin Name

Seqs == 1 .. MaxSeq

Replies == 1 .. MaxReplies

VARIABLES
  pingTime,   \* "none" (-1), "rtt" or "down" (-2)
  pingSeq,    \* pingSeq
  recv,       \* packet.Seq of the reply that OnRecv has half recorded, or 0
  replies,    \* replies that were recorded so far
  timer,      \* the goroutine of each of them: [seq, pc, age]
  silence,    \* history: age of the last reply that was recorded
  dns,        \* dns
  recording,  \* handleUpstream, while it has dnsLock: [name, ips] left
  page,       \* the last page of "/dns"
  whole       \* history: dns after the last complete response

vars == <<pingTime, pingSeq, recv, replies, timer, silence, dns, recording, page, whole>>

pingVars == <<pingTime, pingSeq, recv, replies, timer, silence>>
dnsVars == <<dns, recording, page, whole>>

-----------------------------------------------------------------------------

NoNames == [a \in Address |-> None]

NoAnswer == [name |-> None, ips |-> {}]

Init ==
  /\ pingTime = "none"
  /\ pingSeq = 0
  /\ recv = 0
  /\ replies = 0
  /\ timer = [k \in Replies |-> [seq |-> 0, pc |-> "none", age |-> 0]]
  /\ silence = 0
  /\ dns = NoNames
  /\ recording = NoAnswer
  /\ page = NoNames
  /\ whole = NoNames

-----------------------------------------------------------------------------
(* The pinger.                                                             *)

\* OnRecv sets pingTime, then pingSeq, and starts a goroutine.
OnRecv(s) ==
  /\ recv = 0 /\ replies < MaxReplies
  /\ pingTime' = "rtt"
  /\ recv' = s
  /\ UNCHANGED <<pingSeq, replies, timer, silence, dnsVars>>

\* The goroutine of the reply starts to sleep.
Sleeps(s) ==
  /\ replies' = replies + 1
  /\ timer' = [timer EXCEPT ![replies + 1] = [seq |-> s, pc |-> "sleep", age |-> 0]]
  /\ silence' = 0

\* Mutant: pingSeq is set only once.
OnRecvSeqOnce ==
  /\ recv # 0
  /\ pingSeq' = IF pingSeq = 0 THEN recv ELSE pingSeq
  /\ Sleeps(recv)
  /\ recv' = 0
  /\ UNCHANGED <<pingTime, dnsVars>>

\* Mutant: pingSeq is the number of the next ping.
OnRecvSeqNext ==
  /\ recv # 0
  /\ pingSeq' = recv + 1
  /\ Sleeps(recv)
  /\ recv' = 0
  /\ UNCHANGED <<pingTime, dnsVars>>

OnRecvSeq ==
  /\ recv # 0
  /\ pingSeq' = recv
  /\ Sleeps(recv)
  /\ recv' = 0
  /\ UNCHANGED <<pingTime, dnsVars>>

\* Mutant: whether another reply came is not looked at.
WakeAlways(k) ==
  /\ timer[k].pc = "sleep" /\ timer[k].age >= Deadline
  /\ timer' = [timer EXCEPT ![k].pc = "alarm"]
  /\ UNCHANGED <<pingTime, pingSeq, recv, replies, silence, dnsVars>>

\* The goroutine has slept, and compares pingSeq.
Wake(k) ==
  /\ timer[k].pc = "sleep" /\ timer[k].age >= Deadline
  /\ timer' = [timer EXCEPT ![k].pc = IF timer[k].seq = pingSeq THEN "alarm" ELSE "done"]
  /\ UNCHANGED <<pingTime, pingSeq, recv, replies, silence, dnsVars>>

\* It sets pingTime to -2.
Alarm(k) ==
  /\ timer[k].pc = "alarm"
  /\ timer' = [timer EXCEPT ![k].pc = "done"]
  /\ pingTime' = "down"
  /\ UNCHANGED <<pingSeq, recv, replies, silence, dnsVars>>

Older(age) == IF age < Deadline THEN age + 1 ELSE age

Tick ==
  /\ \E k \in Replies : timer[k].pc = "sleep" /\ timer[k].age < Deadline
  /\ timer' = [k \in Replies |-> IF timer[k].pc = "sleep"
                                 THEN [timer[k] EXCEPT !.age = Older(timer[k].age)] ELSE timer[k]]
  /\ silence' = Older(silence)
  /\ UNCHANGED <<pingTime, pingSeq, recv, replies, dnsVars>>

-----------------------------------------------------------------------------
(* DNS records.                                                            *)

\* handleUpstream locks dnsLock for a response with a name and addresses.
RecordDNS(r) ==
  /\ recording = NoAnswer
  /\ r.ips # {}
  /\ recording' = r
  /\ UNCHANGED <<pingVars, dns, page, whole>>

\* One address is recorded, and the lock released after the last.
RecordAddress(a) ==
  /\ a \in recording.ips
  /\ dns' = [dns EXCEPT ![a] = recording.name]
  /\ recording' = IF recording.ips = {a} THEN NoAnswer
                  ELSE [recording EXCEPT !.ips = recording.ips \ {a}]
  /\ whole' = IF recording.ips = {a} THEN dns' ELSE whole
  /\ UNCHANGED <<pingVars, page>>

\* Mutant: the records are read without dnsLock.
PageUnlocked ==
  /\ page' = dns
  /\ UNCHANGED <<pingVars, dns, recording, whole>>

\* The handler of "/dns" copies the records, under dnsLock.
Page ==
  /\ recording = NoAnswer
  /\ page' = dns
  /\ UNCHANGED <<pingVars, dns, recording, whole>>

Next ==
  \/ \E s \in Seqs : OnRecv(s)
  \/ OnRecvSeq
  \/ \E k \in Replies : Wake(k)
  \/ \E k \in Replies : Alarm(k)
  \/ Tick
  \/ \E r \in Answers : RecordDNS(r)
  \/ \E a \in Address : RecordAddress(a)
  \/ Page

\* Goroutines run, and time passes.
Fairness ==
  /\ WF_vars(OnRecvSeq)
  /\ \A k \in Replies : WF_vars(Wake(k)) /\ WF_vars(Alarm(k))
  /\ WF_vars(Tick)

Spec == Init /\ [][Next]_vars /\ Fairness

-----------------------------------------------------------------------------
(* Properties.                                                             *)

\* The state of the pinger and of the records has its type.
TypeOK ==
  /\ pingTime \in {"none", "rtt", "down"}
  /\ pingSeq \in 0 .. MaxSeq /\ recv \in 0 .. MaxSeq
  /\ replies \in 0 .. MaxReplies /\ (recv # 0 => replies < MaxReplies)
  /\ timer \in [Replies -> [seq : 0 .. MaxSeq, pc : {"none", "sleep", "alarm", "done"},
                            age : 0 .. Deadline]]
  /\ silence \in 0 .. Deadline
  /\ dns \in [Address -> Name \cup {None}]
  /\ page \in [Address -> Name \cup {None}]
  /\ recording \in [name : Name \cup {None}, ips : SUBSET Address]

\* A goroutine decides that the server is down only if no reply was recorded
\* for pingDeadline, whatever the order of replies and goroutines, or if the
\* last one repeats the reply that it waits after: a repeated reply sets pingSeq
\* back, and makes the server seem down while it answers.  (A goroutine that
\* decided may still write that down after a reply that comes meanwhile.)
AlarmOnlyAfterSilence ==
  [][\A k \in Replies : timer[k].pc # "alarm" /\ timer'[k].pc = "alarm" =>
       \/ silence >= Deadline
       \/ k < replies /\ timer[replies].seq = timer[k].seq]_vars

\* If replies stop to come, the page says so in the end, and for good.
SilenceIsNoticed == <>[](pingTime \in {"none", "down"})

\* A page of DNS records has the addresses of a response all or not at all.
PagesShowWholeAnswers == [][page' # page => page' = whole]_vars

=============================================================================
