---------------------------- MODULE Status_proofs ----------------------------
(***************************************************************************)
(* Proofs about Status, for every number of pings and of replies, every    *)
(* deadline and all DNS responses.                                         *)
(***************************************************************************)
EXTENDS Status, TLAPS

-----------------------------------------------------------------------------
(* The inductive invariant.                                                *)

Timer == [seq : 0 .. MaxSeq, pc : {"none", "sleep", "alarm", "done"}, age : 0 .. Deadline]

\* pingSeq names the last reply, whose goroutine has slept no longer than no
\* other reply came.  Replies that have not come have no goroutine.
SleepsInSilence ==
  /\ replies > 0 => pingSeq = timer[replies].seq /\ timer[replies].age <= silence
  /\ \A k \in Replies : k > replies => timer[k].pc = "none"

\* Outside of dnsLock the records are those of whole responses.
WholeWhenUnlocked == recording = NoAnswer => dns = whole

IInv == TypeOK /\ SleepsInSilence /\ WholeWhenUnlocked

-----------------------------------------------------------------------------

\* OnRecv, the goroutines of replies and time.
LEMMA PingStep ==
  ASSUME IInv, UNCHANGED dnsVars,
         \/ (\E s \in Seqs : OnRecv(s)) \/ OnRecvSeq \/ Tick
         \/ \E k \in Replies : Wake(k) \/ Alarm(k)
  PROVE  IInv'
<1>0. /\ MaxSeq \in Nat /\ MaxReplies \in Nat /\ Deadline \in Nat /\ Deadline > 0
      /\ Seqs = 1 .. MaxSeq /\ Replies = 1 .. MaxReplies
      /\ pingTime \in {"none", "rtt", "down"}
      /\ pingSeq \in 0 .. MaxSeq /\ recv \in 0 .. MaxSeq
      /\ replies \in 0 .. MaxReplies /\ (recv # 0 => replies < MaxReplies)
      /\ timer \in [Replies -> Timer]
      /\ silence \in 0 .. Deadline
  BY BoundAssumption DEF IInv, TypeOK, Seqs, Replies, Timer
<1>1. /\ replies > 0 => pingSeq = timer[replies].seq /\ timer[replies].age <= silence
      /\ \A k \in Replies : k > replies => timer[k].pc = "none"
  BY DEF IInv, SleepsInSilence
<1>2. WholeWhenUnlocked'
  BY DEF IInv, WholeWhenUnlocked, dnsVars, NoAnswer
<1>3. /\ dns' \in [Address -> Name \cup {None}]
      /\ page' \in [Address -> Name \cup {None}]
      /\ recording' \in [name : Name \cup {None}, ips : SUBSET Address]
  BY DEF IInv, TypeOK, dnsVars
<1> SUFFICES /\ pingTime' \in {"none", "rtt", "down"}
             /\ pingSeq' \in 0 .. MaxSeq /\ recv' \in 0 .. MaxSeq
             /\ replies' \in 0 .. MaxReplies /\ (recv' # 0 => replies' < MaxReplies)
             /\ timer' \in [Replies -> Timer]
             /\ silence' \in 0 .. Deadline
             /\ SleepsInSilence'
  BY <1>2, <1>3 DEF IInv, TypeOK, Timer
<1>4. CASE \E s \in Seqs : OnRecv(s)
  <2>1. /\ pingTime' = "rtt" /\ recv' \in 0 .. MaxSeq /\ replies < MaxReplies
        /\ UNCHANGED <<pingSeq, replies, timer, silence>>
    BY <1>0, <1>4 DEF OnRecv
  <2> QED BY <1>0, <1>1, <2>1 DEF SleepsInSilence
\* A goroutine that wakes or gives the alarm goes on.
<1>5. CASE \E k \in Replies : Wake(k) \/ Alarm(k)
  <2>1. PICK k \in Replies, p \in {"alarm", "done"} :
          /\ timer[k].pc # "none"
          /\ timer' = [timer EXCEPT ![k].pc = p]
          /\ pingTime' \in {pingTime, "down"}
          /\ UNCHANGED <<pingSeq, recv, replies, silence>>
    BY <1>5 DEF Wake, Alarm
  <2>2. timer' \in [Replies -> Timer]
    BY <1>0, <2>1 DEF Timer
  <2>3. /\ \A j \in Replies : timer'[j].seq = timer[j].seq /\ timer'[j].age = timer[j].age
        /\ \A j \in Replies : j # k => timer'[j] = timer[j]
    BY <1>0, <2>1 DEF Timer
  <2>4. SleepsInSilence'
    <3>1. replies > 0 => replies \in Replies
      BY <1>0
    <3>2. \A j \in Replies : j > replies => j # k
      BY <1>1, <2>1
    <3> QED BY <1>1, <2>1, <2>3, <3>1, <3>2 DEF SleepsInSilence
  <2> QED BY <1>0, <2>1, <2>2, <2>4
<1>6. CASE OnRecvSeq
  <2>1. PICK n \in Replies : n = replies + 1
    BY <1>0, <1>6 DEF OnRecvSeq
  <2>2. /\ recv \in Seqs /\ pingSeq' = recv /\ recv' = 0 /\ silence' = 0 /\ replies' = n
        /\ timer' = [timer EXCEPT ![n] = [seq |-> recv, pc |-> "sleep", age |-> 0]]
        /\ pingTime' = pingTime
    BY <1>0, <1>6, <2>1 DEF OnRecvSeq, Sleeps
  <2>3. timer' \in [Replies -> Timer]
    BY <1>0, <2>2 DEF Timer
  <2>4. /\ timer'[n].seq = recv /\ timer'[n].age = 0
        /\ \A k \in Replies : k # n => timer'[k] = timer[k]
    BY <1>0, <2>2
  <2>5. \A k \in Replies : k > n => k > replies /\ k # n
    BY <1>0, <2>1
  <2>6. SleepsInSilence'
    BY <1>0, <1>1, <2>2, <2>4, <2>5 DEF SleepsInSilence
  <2> QED BY <1>0, <2>2, <2>3, <2>6
<1>7. CASE Tick
  <2>1. /\ timer' = [k \in Replies |-> IF timer[k].pc = "sleep"
                       THEN [timer[k] EXCEPT !.age = Older(timer[k].age)] ELSE timer[k]]
        /\ silence' = Older(silence)
        /\ UNCHANGED <<pingTime, pingSeq, recv, replies>>
    BY <1>7 DEF Tick
  <2>2. \A a, b \in 0 .. Deadline : /\ Older(a) \in 0 .. Deadline /\ b <= Older(b)
                                    /\ a <= b => Older(a) <= Older(b)
    BY <1>0 DEF Older
  <2>3. \A k \in Replies : timer[k] \in Timer /\ timer[k].age \in 0 .. Deadline
    BY <1>0 DEF Timer
  <2>4. timer' \in [Replies -> Timer]
    <3>1. \A k \in Replies : Older(timer[k].age) \in 0 .. Deadline
      BY <2>2, <2>3
    <3> QED BY <1>0, <2>1, <2>3, <3>1 DEF Timer
  <2>5. \A k \in Replies : /\ timer'[k].seq = timer[k].seq /\ timer'[k].pc = timer[k].pc
                           /\ timer'[k].age \in {timer[k].age, Older(timer[k].age)}
    BY <2>1, <2>3 DEF Timer
  <2>6. replies > 0 => timer'[replies].age <= silence'
    <3> SUFFICES ASSUME replies > 0 PROVE timer'[replies].age <= silence'
      OBVIOUS
    <3>1. replies \in Replies
      BY <1>0
    <3>2. PICK a \in 0 .. Deadline : a = timer[replies].age /\ a <= silence
      BY <1>1, <2>3, <3>1
    <3>3. timer'[replies].age \in {a, Older(a)}
      BY <2>5, <3>1, <3>2
    <3>4. Older(a) <= Older(silence) /\ silence <= Older(silence) /\ Older(silence) \in 0 .. Deadline
      BY <1>0, <2>2, <3>2
    <3> QED BY <1>0, <2>1, <3>2, <3>3, <3>4
  <2>7. SleepsInSilence'
    <3>1. replies > 0 => replies \in Replies
      BY <1>0
    <3> QED BY <1>1, <2>1, <2>5, <2>6, <3>1 DEF SleepsInSilence
  <2> QED BY <1>0, <2>1, <2>2, <2>4, <2>7
<1> QED BY <1>4, <1>5, <1>6, <1>7

\* DNS records and their page.
LEMMA DNSStep ==
  ASSUME IInv, UNCHANGED pingVars,
         \/ \E r \in Answers : RecordDNS(r)
         \/ \E a \in Address : RecordAddress(a)
         \/ Page
  PROVE  IInv'
<1>0. /\ dns \in [Address -> Name \cup {None}]
      /\ page \in [Address -> Name \cup {None}]
      /\ recording \in [name : Name \cup {None}, ips : SUBSET Address]
  BY DEF IInv, TypeOK
<1> SUFFICES /\ dns' \in [Address -> Name \cup {None}]
             /\ page' \in [Address -> Name \cup {None}]
             /\ recording' \in [name : Name \cup {None}, ips : SUBSET Address]
             /\ WholeWhenUnlocked'
  BY DEF IInv, TypeOK, SleepsInSilence, pingVars
<1>1. CASE \E r \in Answers : RecordDNS(r)
  <2>1. PICK r \in Answers : r.ips # {} /\ recording' = r /\ UNCHANGED <<dns, page, whole>>
    BY <1>1 DEF RecordDNS
  <2>2. r \in [name : Name, ips : SUBSET Address] /\ r # NoAnswer
    BY <2>1, AnswersAssumption DEF NoAnswer
  <2> QED BY <1>0, <2>1, <2>2 DEF WholeWhenUnlocked, NoAnswer
<1>2. CASE \E a \in Address : RecordAddress(a)
  <2>1. PICK a \in Address : RecordAddress(a)
    BY <1>2
  <2>2. CASE recording.ips = {a}
    BY <1>0, <2>1, <2>2 DEF RecordAddress, WholeWhenUnlocked, NoAnswer
  <2>3. CASE recording.ips # {a}
    <3>1. /\ dns' = [dns EXCEPT ![a] = recording.name] /\ page' = page
          /\ recording' = [recording EXCEPT !.ips = recording.ips \ {a}]
          /\ recording.ips \ {a} # {}
      BY <2>1, <2>3 DEF RecordAddress
    <3>2. recording' # NoAnswer
      BY <1>0, <3>1 DEF NoAnswer
    <3> QED BY <1>0, <3>1, <3>2 DEF WholeWhenUnlocked, NoAnswer
  <2> QED BY <2>2, <2>3
<1>3. CASE Page
  BY <1>0, <1>3 DEF Page, IInv, WholeWhenUnlocked, NoAnswer
<1> QED BY <1>1, <1>2, <1>3

\* The strengthened invariant holds always.
THEOREM Inductive == Spec => []IInv
<1>1. Init => IInv
  BY BoundAssumption
  DEF Init, IInv, TypeOK, SleepsInSilence, WholeWhenUnlocked, NoNames, NoAnswer, Seqs, Replies
<1>2. IInv /\ [Next]_vars => IInv'
  <2> SUFFICES ASSUME IInv, [Next]_vars PROVE IInv'
    OBVIOUS
  <2>1. CASE \/ (\E s \in Seqs : OnRecv(s)) \/ OnRecvSeq \/ Tick
             \/ \E k \in Replies : Wake(k) \/ Alarm(k)
    BY <2>1, PingStep DEF OnRecv, Wake, Alarm, OnRecvSeq, Tick
  <2>2. CASE \/ \E r \in Answers : RecordDNS(r)
             \/ \E a \in Address : RecordAddress(a)
             \/ Page
    BY <2>2, DNSStep DEF RecordDNS, RecordAddress, Page
  <2>3. CASE UNCHANGED vars
    BY <2>3 DEF vars, IInv, TypeOK, SleepsInSilence, WholeWhenUnlocked, NoAnswer
  <2> QED BY <2>1, <2>2, <2>3 DEF Next
<1> QED BY <1>1, <1>2, PTL DEF Spec

\* The unlocked variables of the pinger, the records and the page keep their
\* types.
THEOREM TypeCorrect == Spec => []TypeOK
<1>1. IInv => TypeOK
  BY DEF IInv
<1> QED BY <1>1, Inductive, PTL

\* No goroutine gives the server up while replies come, however replies are
\* lost, reordered and repeated and whenever goroutines wake, unless the last
\* reply repeats the one that the goroutine waits after (AlarmOnlyAfterSilence).
THEOREM AlarmsFollowSilence == Spec => AlarmOnlyAfterSilence
<1> DEFINE A == \A k \in Replies : timer[k].pc # "alarm" /\ timer'[k].pc = "alarm" =>
                  \/ silence >= Deadline
                  \/ k < replies /\ timer[replies].seq = timer[k].seq
<1>1. IInv /\ [Next]_vars => [A]_vars
  <2> SUFFICES ASSUME IInv, Next, NEW k \in Replies,
                      timer[k].pc # "alarm", timer'[k].pc = "alarm"
               PROVE  \/ silence >= Deadline
                      \/ k < replies /\ timer[replies].seq = timer[k].seq
    BY DEF vars
  <2>0. /\ Deadline \in Nat /\ silence \in 0 .. Deadline /\ MaxReplies \in Nat
        /\ Replies = 1 .. MaxReplies /\ replies \in 0 .. MaxReplies
        /\ timer \in [Replies -> Timer]
    BY BoundAssumption DEF IInv, TypeOK, Timer, Replies
  <2>1. PICK r \in Replies : Wake(r)
    <3>1. ~ OnRecvSeq /\ ~ Tick
      <4>1. ASSUME OnRecvSeq PROVE FALSE
        <5>1. timer' = [timer EXCEPT ![replies + 1] = [seq |-> recv, pc |-> "sleep", age |-> 0]]
          BY <4>1 DEF OnRecvSeq, Sleeps
        <5>2. timer'[k] = timer[k] \/ timer'[k] = [seq |-> recv, pc |-> "sleep", age |-> 0]
          BY <2>0, <5>1
        <5> QED BY <5>2
      <4>2. ASSUME Tick PROVE FALSE
        <5>1. timer'[k] = (IF timer[k].pc = "sleep"
                           THEN [timer[k] EXCEPT !.age = Older(timer[k].age)] ELSE timer[k])
          BY <4>2 DEF Tick
        <5>2. timer[k] \in Timer
          BY <2>0
        <5> QED BY <5>1, <5>2 DEF Timer
      <4> QED BY <4>1, <4>2
    <3>2. /\ \A s \in Seqs : ~ OnRecv(s)
          /\ \A r \in Replies : ~ Alarm(r)
      BY <2>0 DEF OnRecv, Alarm, Timer
    <3>3. timer' # timer
      OBVIOUS
    <3>4. /\ ~ \E r \in Answers : RecordDNS(r)
          /\ ~ \E a \in Address : RecordAddress(a)
          /\ ~ Page
      BY <3>3 DEF RecordDNS, RecordAddress, Page, pingVars
    <3> QED BY <3>1, <3>2, <3>4 DEF Next
  <2>2. /\ timer[r].pc = "sleep" /\ timer[r].age >= Deadline
        /\ timer' = [timer EXCEPT ![r].pc = IF timer[r].seq = pingSeq THEN "alarm" ELSE "done"]
    BY <2>1 DEF Wake
  <2>3. r = k /\ timer[k].seq = pingSeq
    BY <2>0, <2>2 DEF Timer
  <2>4. k <= replies /\ replies > 0
    <3>1. k > replies => timer[k].pc = "none"
      BY DEF IInv, SleepsInSilence
    <3> QED BY <2>0, <2>2, <2>3, <3>1
  <2>5. pingSeq = timer[replies].seq /\ timer[replies].age <= silence
    BY <2>4 DEF IInv, SleepsInSilence
  <2>6. CASE k = replies
    BY <2>0, <2>2, <2>3, <2>5, <2>6 DEF Timer
  <2>7. CASE k < replies
    BY <2>3, <2>5, <2>7
  <2> QED BY <2>0, <2>4, <2>6, <2>7
<1> QED BY <1>1, Inductive, PTL DEF Spec, AlarmOnlyAfterSilence

\* A page that is made under dnsLock has no response in part.
THEOREM PagesAreWhole == Spec => PagesShowWholeAnswers
<1>1. IInv /\ [Next]_vars => [page' # page => page' = whole]_vars
  <2> SUFFICES ASSUME IInv, Next, page' # page
               PROVE  page' = whole
    BY DEF vars
  <2>1. Page
    BY DEF Next, OnRecv, OnRecvSeq, Wake, Alarm, Tick, RecordDNS, RecordAddress, dnsVars
  <2> QED BY <2>1 DEF Page, IInv, WholeWhenUnlocked
<1> QED BY <1>1, Inductive, PTL DEF Spec, PagesShowWholeAnswers

=============================================================================
