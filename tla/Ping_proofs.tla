---------------------------- MODULE Ping_proofs ----------------------------
(***************************************************************************)
(* What holds of Ping for any processes, hosts, identifiers and width of a *)
(* short: checksum(), which adds the carries in exactly twice, is right    *)
(* for every frame of myping.c, and every printed line answers a request.  *)
(***************************************************************************)
EXTENDS Ping, TLAPS

-----------------------------------------------------------------------------
(* checksum *)

LEMMA DivMod ==
    ASSUME NEW n \in Nat
    PROVE  /\ n \div Base \in Nat /\ n % Base \in 0 .. Base - 1
           /\ n = Base * (n \div Base) + (n % Base)
BY BaseAssumption DEF ICMP_ECHO

\* A number below Base * Base has a quotient below Base.
LEMMA QuotientBound ==
    ASSUME NEW n \in Nat, n < Base * Base
    PROVE  n \div Base < Base
<1>1. PICK h \in Nat : h = n \div Base
  BY DivMod
<1>2. PICK l \in 0 .. Base - 1 : l = n % Base
  BY DivMod
<1>3. n = Base * h + l
  BY DivMod, <1>1, <1>2
<1>4. Base \in Nat /\ Base > 8
  BY BaseAssumption DEF ICMP_ECHO
<1>5. ASSUME h >= Base PROVE FALSE
  <2>1. Base * h >= Base * Base
    BY <1>4, <1>5
  <2> QED BY <2>1, <1>3, <1>4
<1> QED BY <1>1, <1>4, <1>5

\* Quotient and remainder of a number below 2 * Base.
LEMMA SmallDivMod ==
    ASSUME NEW n \in Nat, n < 2 * Base
    PROVE  IF n < Base THEN n \div Base = 0 /\ n % Base = n
                       ELSE n \div Base = 1 /\ n % Base = n - Base
<1>1. PICK h \in Nat : h = n \div Base
  BY DivMod
<1>2. PICK l \in 0 .. Base - 1 : l = n % Base
  BY DivMod
<1>3. n = Base * h + l
  BY DivMod, <1>1, <1>2
<1>4. Base \in Nat /\ Base > 8
  BY BaseAssumption DEF ICMP_ECHO
<1>5. h < 2
  <2>1. ASSUME h >= 2 PROVE FALSE
    <3>1. Base * h >= Base * 2
      BY <1>4, <2>1
    <3> QED BY <3>1, <1>3, <1>4
  <2> QED BY <2>1
<1>6. CASE h = 0
  BY <1>1, <1>2, <1>3, <1>4, <1>6
<1>7. CASE h = 1
  BY <1>1, <1>2, <1>3, <1>4, <1>7
<1> QED BY <1>5, <1>6, <1>7

\* The checksum fits a short and makes the words add up to a multiple of
\* Base - 1, carries of carries included.
LEMMA ChecksumVerifies ==
    ASSUME NEW sum \in Nat, sum < Base * Base
    PROVE  checksum(sum) \in 0 .. Base - 1 /\ Verifies(sum, checksum(sum))
<1> DEFINE h == sum \div Base
           l == sum % Base
           r == l + h
           c == checksum(sum)
<1>1. /\ h \in Nat /\ l \in 0 .. Base - 1 /\ h < Base
      /\ sum = Base * h + l
  BY DivMod, QuotientBound
<1>2. Base \in Nat /\ Base > 8
  BY BaseAssumption DEF ICMP_ECHO
<1>3. r \in Nat /\ r < 2 * Base
  BY <1>1, <1>2
<1>4. c = Base - 1 - ((r + (r \div Base)) % Base)
  BY DEF checksum
<1> HIDE DEF h, l, c
<1>5. CASE r < Base
  <2>1. c = Base - 1 - r
    <3>1. r \div Base = 0 /\ r % Base = r
      BY <1>3, <1>5, SmallDivMod
    <3>2. r + (r \div Base) = r
      BY <3>1, <1>3
    <3> QED BY <1>4, <3>1, <3>2
  <2>2. sum + c = (h + 1) * (Base - 1)
    BY <2>1, <1>1, <1>2
  <2>3. h + 1 \in 1 .. sum + c
    BY <2>1, <2>2, <1>1, <1>2, <1>3, <1>5
  <2>4. c \in 0 .. Base - 1
    BY <2>1, <1>1, <1>2, <1>3, <1>5
  <2> QED BY <2>2, <2>3, <2>4 DEF Verifies, c
<1>6. CASE r >= Base
  <2>1. c = Base - 1 - (r - Base + 1)
    <3>1. r \div Base = 1 /\ r % Base = r - Base
      BY <1>2, <1>3, <1>6, SmallDivMod
    <3>2. r + 1 < 2 * Base
      BY <1>1, <1>2
    <3>3. (r + 1) % Base = r + 1 - Base
      BY <3>2, <1>2, <1>3, <1>6, SmallDivMod
    <3> QED BY <1>4, <3>1, <3>3, <1>2, <1>3
  <2>2. sum + c = (h + 2) * (Base - 1)
    BY <2>1, <1>1, <1>2
  <2>3. h + 2 \in 1 .. sum + c
    BY <2>2, <1>1, <1>2
  <2>4. c \in 0 .. Base - 1
    BY <2>1, <1>1, <1>2, <1>3, <1>6
  <2> QED BY <2>2, <2>3, <2>4 DEF Verifies, c
<1> QED BY <1>3, <1>2, <1>5, <1>6

-----------------------------------------------------------------------------
(* The inductive invariant *)

\* A short is within its range, whatever the identifier.
LEMMA ShortRange ==
    ASSUME NEW n \in Nat
    PROVE  Short(n) \in Int /\ Short(n) % Base \in 0 .. Base - 1
<1>1. Base \in Nat /\ Base > 8
  BY BaseAssumption DEF ICMP_ECHO
<1>2. Short(n) \in Int
  BY <1>1, DivMod DEF Short
<1> QED BY <1>1, <1>2

\* A message names a request that was really sent.
Asked(m) == \E q \in Pings : icmp_id(q) = m.id /\ <<m.host, m.seq>> \in sent[q]

\* The hosts that a process may be directed to.
Known == {target[q] : q \in Pings} \cup foreign

\* Requests as sendFrame makes them.
Requests == {m \in Messages : /\ m.host \in Known /\ Asked(m)
                              /\ Verifies(WordSum(m.id, m.seq, m.data), m.cksum)}

\* What may be received: messages of known hosts, and replies only to requests.
Received == {m \in Messages : m.host \in Known /\ (m.kind = "reply" => Asked(m))}

\* Every request on its way has a checksum that its host accepts.
FramesVerify == \A m \in net : Verifies(WordSum(m.id, m.seq, m.data), m.cksum)

AddrKnown == \A p \in Pings : addr[p] # Garbage => addr[p] \in Known
NetGood == net \subseteq Requests
QueueGood == queue \in [Pings -> Seq(Received)]
FrameGood == \A p \in Pings : pc[p] = "check" => frame[p] \in Received /\ addr[p] = frame[p].host

IndInv == TypeOK /\ AddrKnown /\ NetGood /\ QueueGood /\ FrameGood /\ LinesAreAnswers

LEMMA InitInd == Init => IndInv
<1> SUFFICES ASSUME Init PROVE IndInv
  OBVIOUS
<1>1. TypeOK
  BY BoundsAssumption DEF Init, TypeOK, Bound
<1>2. AddrKnown /\ NetGood /\ QueueGood /\ FrameGood /\ LinesAreAnswers
  BY DEF Init, AddrKnown, NetGood, QueueGood, FrameGood, LinesAreAnswers
<1> QED BY <1>1, <1>2 DEF IndInv

\* What is known and asked stays so: histories only grow.
LEMMA Monotone ==
    ASSUME UNCHANGED <<pid, target>>, foreign \subseteq foreign',
           \A q \in Pings : sent[q] \subseteq sent'[q]
    PROVE  Known \subseteq Known' /\ Requests \subseteq Requests' /\ Received \subseteq Received'
<1>1. Known \subseteq Known'
  BY DEF Known
<1>2. ASSUME NEW m, Asked(m) PROVE Asked(m)'
  BY <1>2 DEF Asked, icmp_id, PidField
<1> QED BY <1>1, <1>2 DEF Requests, Received

\* A set of messages may be enlarged under the queues.
LEMMA SeqMonotone ==
    ASSUME NEW S, NEW T, S \subseteq T, NEW f \in [Pings -> Seq(S)]
    PROVE  f \in [Pings -> Seq(T)]
OBVIOUS

\* The printed lines stay answers while histories grow and nothing is printed.
LEMMA LinesMonotone ==
    ASSUME UNCHANGED <<pid, target, printed>>, foreign \subseteq foreign',
           \A q \in Pings : sent[q] \subseteq sent'[q], LinesAreAnswers
    PROVE  LinesAreAnswers'
BY DEF LinesAreAnswers, icmp_id, PidField

\* A message that arrives is appended to the queues of some processes.
LEMMA ArriveGood ==
    ASSUME QueueGood, NEW m \in Received', Arrive(m),
           UNCHANGED <<pid, target, sent>>, foreign \subseteq foreign'
    PROVE  QueueGood'
<1>1. queue \in [Pings -> Seq(Received')]
  BY Monotone, SeqMonotone DEF QueueGood
<1> QED BY <1>1 DEF Arrive, QueueGood

LEMMA NextInd == IndInv /\ [Next]_vars => IndInv'
<1> SUFFICES ASSUME IndInv, [Next]_vars PROVE IndInv'
  OBVIOUS
<1> USE DEF IndInv
<1>1. ASSUME NEW p \in Pings, main(p) PROVE IndInv'
  <2>1. TypeOK'
    BY <1>1 DEF main, TypeOK
  <2>2. AddrKnown' /\ FrameGood'
    BY <1>1, Monotone DEF main, AddrKnown, FrameGood, Known, TypeOK
  <2>3. NetGood' /\ QueueGood' /\ LinesAreAnswers'
    BY <1>1, Monotone, LinesMonotone DEF main, NetGood, QueueGood
  <2> QED BY <2>1, <2>2, <2>3
<1>2. ASSUME NEW p \in Pings, MainFails(p) \/ recvmsgFails(p) \/ sendmsgFails(p) PROVE IndInv'
  <2>1. TypeOK'
    <3>1. CASE MainFails(p)
      BY <3>1, BoundsAssumption DEF MainFails, Fault, TypeOK
    <3>3. CASE recvmsgFails(p)
      BY <3>3, BoundsAssumption DEF recvmsgFails, Fault, TypeOK
    <3>2. CASE sendmsgFails(p)
      <4>1. faults' \in 0 .. MaxFaults
        BY <3>2, BoundsAssumption DEF sendmsgFails, Fault, TypeOK
      <4>2. seqNum' \in [Pings -> Nat] /\ \A q \in Pings : seqNum'[q] \in 1 .. Bound(q) + 1
        BY <3>2, BoundsAssumption DEF sendmsgFails, TypeOK, Bound
      <4> QED BY <3>2, <4>1, <4>2 DEF sendmsgFails, TypeOK
    <3> QED BY <1>2, <3>1, <3>2, <3>3
  <2>2. AddrKnown' /\ FrameGood'
    BY <1>2, Monotone DEF MainFails, recvmsgFails, sendmsgFails, AddrKnown, FrameGood, Known, TypeOK
  <2>3. NetGood' /\ QueueGood' /\ LinesAreAnswers'
    BY <1>2, Monotone, LinesMonotone DEF MainFails, recvmsgFails, sendmsgFails, NetGood, QueueGood
  <2> QED BY <2>1, <2>2, <2>3
<1>3. ASSUME NEW p \in Pings, recvmsg(p) PROVE IndInv'
  <2>1. queue[p] \in Seq(Received) /\ queue[p] # <<>>
    BY <1>3 DEF recvmsg, QueueGood
  <2>2. Head(queue[p]) \in Received /\ Tail(queue[p]) \in Seq(Received)
    BY <2>1
  <2>3. Received \subseteq Messages /\ Received' = Received /\ Known' = Known
    BY <1>3 DEF recvmsg, Received, Known, Asked, icmp_id, PidField
  <2>4. Head(queue[p]).host \in Hosts /\ Head(queue[p]).host \in Known
    BY <2>2 DEF Received, Messages
  <2>5. QueueGood'
    BY <1>3, <2>2, <2>3 DEF recvmsg, QueueGood
  <2>6. TypeOK'
    <3>1. queue' \in [Pings -> Seq(Messages)]
      BY <2>3, <2>5, SeqMonotone DEF QueueGood
    <3> QED BY <1>3, <2>2, <2>3, <2>4, <3>1 DEF recvmsg, TypeOK
  <2>7. AddrKnown' /\ FrameGood'
    BY <1>3, <2>2, <2>3, <2>4 DEF recvmsg, AddrKnown, FrameGood, TypeOK
  <2>8. NetGood' /\ LinesAreAnswers'
    BY <1>3, Monotone, LinesMonotone DEF recvmsg, NetGood
  <2> QED BY <2>5, <2>6, <2>7, <2>8
<1>4. ASSUME NEW p \in Pings, Skip(p) PROVE IndInv'
  <2>1. TypeOK'
    BY <1>4 DEF Skip, TypeOK
  <2>2. AddrKnown' /\ FrameGood'
    BY <1>4, Monotone DEF Skip, AddrKnown, FrameGood, Known, TypeOK
  <2>3. NetGood' /\ QueueGood' /\ LinesAreAnswers'
    BY <1>4, Monotone, LinesMonotone DEF Skip, NetGood, QueueGood
  <2> QED BY <2>1, <2>2, <2>3
<1>5. ASSUME NEW p \in Pings, PrintLine(p) PROVE IndInv'
  <2> DEFINE line == <<addr[p], frame[p].seq>>
  <2>1. /\ frame[p] \in Received
        /\ addr[p] = frame[p].host /\ frame[p].kind = "reply"
        /\ frame[p].id = PidField(p)
    BY <1>5 DEF PrintLine, ForMe, FrameGood
  <2>2. icmp_id(p) = frame[p].id
    <3>1. frame[p].id \in 0 .. Base - 1
      BY <2>1 DEF Received, Messages
    <3>2. frame[p].id % Base = frame[p].id
      BY <3>1, BaseAssumption DEF ICMP_ECHO
    <3> QED BY <2>1, <3>2 DEF icmp_id
  <2>3. \E q \in Pings : icmp_id(q) = icmp_id(p) /\ line \in sent[q]
    BY <2>1, <2>2 DEF Received, Asked
  <2>4. line[1] \in Known /\ line \in Hosts \X (0 .. Base - 1)
    BY <2>1 DEF Received, Messages
  <2>5. TypeOK'
    BY <1>5, <2>4 DEF PrintLine, TypeOK
  <2>6. AddrKnown' /\ FrameGood'
    BY <1>5, Monotone DEF PrintLine, AddrKnown, FrameGood, Known, TypeOK
  <2>7. NetGood' /\ QueueGood'
    BY <1>5, Monotone DEF PrintLine, NetGood, QueueGood
  <2>8. LinesAreAnswers'
    <3> SUFFICES ASSUME NEW q \in Pings, NEW k \in printed'[q]
                 PROVE  /\ \E o \in Pings : icmp_id(o) = icmp_id(q) /\ k \in sent[o]
                        /\ k[1] \in Known
      BY <1>5 DEF PrintLine, LinesAreAnswers, icmp_id, PidField, Known
    <3>1. CASE k \in printed[q]
      BY <3>1 DEF LinesAreAnswers, Known
    <3>2. CASE q = p /\ k = line
      BY <3>2, <2>3, <2>4
    <3>3. k \in printed[q] \/ (q = p /\ k = line)
      BY <1>5 DEF PrintLine, TypeOK
    <3> QED BY <3>1, <3>2, <3>3
  <2> QED BY <2>5, <2>6, <2>7, <2>8
<1>6. ASSUME NEW p \in Pings, sendFrame(p) PROVE IndInv'
  <2>1. PICK d \in Data : net' = net \cup {Request(p, d)}
    BY <1>6 DEF sendFrame
  <2>r. PICK r : r = Request(p, d)
    OBVIOUS
  <2> DEFINE id == icmp_id(p)
             seq == seqNum[p] % Base
  <2>2. id \in 0 .. Base - 1 /\ seq \in 0 .. Base - 1
    <3>1. pid[p] \in Nat /\ seqNum[p] \in Nat
      BY BoundsAssumption, PidsAssumption DEF TypeOK, Bound
    <3> QED BY <3>1, ShortRange, DivMod DEF icmp_id, PidField
  <2>3. addr[p] \in Hosts /\ addr[p] \in Known
    BY <1>6 DEF sendFrame, TypeOK, AddrKnown
  <2>4. /\ sent' = [sent EXCEPT ![p] = @ \cup {<<addr[p], seq>>}]
        /\ UNCHANGED <<pid, target, foreign, printed, addr, frame, pc, queue>>
    BY <1>6 DEF sendFrame
  <2>5. \A q \in Pings : sent[q] \subseteq sent'[q]
    BY <2>4 DEF TypeOK
  <2>6. WordSum(id, seq, d) \in Nat /\ WordSum(id, seq, d) < Base * Base
    <3>1. d \in Nat /\ ICMP_ECHO + 2 * (Base - 1) + d < Base * Base
      BY DataAssumption
    <3> HIDE DEF id, seq
    <3>2. ICMP_ECHO + id + seq + d <= ICMP_ECHO + 2 * (Base - 1) + d
      BY <2>2, <3>1, BaseAssumption DEF ICMP_ECHO
    <3>3. Base * Base \in Nat
      BY BaseAssumption
    <3> QED BY <2>2, <3>1, <3>2, <3>3, BaseAssumption DEF WordSum, ICMP_ECHO
  <2>7. /\ r.kind = "request" /\ r.host = addr[p] /\ r.id = id /\ r.seq = seq
        /\ r.data = d /\ r.cksum = checksum(WordSum(id, seq, d))
    BY <2>r DEF Request
  <2>8. checksum(WordSum(id, seq, d)) \in 0 .. Base - 1
        /\ Verifies(WordSum(id, seq, d), checksum(WordSum(id, seq, d)))
    BY <2>6, ChecksumVerifies
  <2>9. r \in Messages
    BY <2>r, <2>2, <2>3, <2>8 DEF Request, Messages
  <2>10. TypeOK'
    <3>1. seqNum' = [seqNum EXCEPT ![p] = @ + 1] /\ seqNum[p] <= Bound(p) /\ UNCHANGED faults
      BY <1>6 DEF sendFrame
    <3>2. seqNum' \in [Pings -> Nat] /\ \A q \in Pings : seqNum'[q] \in 1 .. Bound(q) + 1
      BY <3>1, BoundsAssumption DEF TypeOK, Bound
    <3>3. sent' \in [Pings -> SUBSET (Hosts \X (0 .. Base - 1))]
      BY <2>2, <2>3, <2>4 DEF TypeOK
    <3> QED BY <2>r, <2>1, <2>4, <2>9, <3>1, <3>2, <3>3 DEF TypeOK
  <2>11. r \in Requests'
    <3>1. <<r.host, r.seq>> \in sent'[p] /\ icmp_id(p)' = r.id
      BY <2>4, <2>7 DEF TypeOK, icmp_id, PidField
    <3>2. r.host \in Known'
      BY <2>3, <2>4, <2>7 DEF Known
    <3>3. Asked(r)'
      BY <3>1 DEF Asked
    <3> QED BY <3>2, <3>3, <2>7, <2>8, <2>9 DEF Requests
  <2>12. NetGood' /\ QueueGood' /\ FrameGood' /\ LinesAreAnswers'
    <3>1. Requests \subseteq Requests' /\ Received \subseteq Received'
      BY <2>4, <2>5, Monotone
    <3>2. NetGood'
      BY <2>r, <2>1, <2>11, <3>1 DEF NetGood
    <3>3. QueueGood'
      BY <2>4, <3>1, SeqMonotone DEF QueueGood
    <3>4. FrameGood'
      BY <2>4, <3>1 DEF FrameGood
    <3>5. LinesAreAnswers'
      BY <2>4, <2>5, LinesMonotone
    <3> QED BY <3>2, <3>3, <3>4, <3>5
  <2>13. AddrKnown'
    BY <2>4 DEF AddrKnown, Known
  <2> QED BY <2>10, <2>12, <2>13
<1>7. ASSUME NEW m \in net, Answer(m) PROVE IndInv'
  <2> DEFINE r == [m EXCEPT !.kind = "reply"]
  <2>1. m \in Requests
    BY DEF NetGood
  <2>2. r \in Messages /\ r.host = m.host /\ r.id = m.id /\ r.seq = m.seq
    BY <2>1 DEF Requests, Messages
  <2>3. UNCHANGED <<pid, target, procVars, foreign, faults>> /\ net' \subseteq net
    BY <1>7 DEF Answer
  <2> HIDE DEF r
  <2>4. r \in Received'
    <3>1. r \in Received
      BY <2>1, <2>2 DEF Requests, Received, Asked
    <3> QED BY <3>1, <2>3, Monotone DEF procVars
  <2>5. QueueGood'
    <3>1. CASE Arrive(r)
      BY <3>1, <2>3, <2>4, ArriveGood DEF procVars
    <3>2. CASE UNCHANGED queue
      BY <3>2, <2>3, Monotone, SeqMonotone DEF procVars, QueueGood
    <3> QED BY <1>7, <3>1, <3>2 DEF Answer, r
  <2>6. TypeOK'
    <3>1. queue' \in [Pings -> Seq(Messages)]
      BY <2>5, SeqMonotone DEF QueueGood, Received
    <3> QED BY <2>3, <3>1 DEF TypeOK, procVars
  <2>7. AddrKnown' /\ NetGood' /\ FrameGood' /\ LinesAreAnswers'
    BY <2>3, Monotone, LinesMonotone DEF procVars, AddrKnown, Known, NetGood, FrameGood
  <2> QED BY <2>5, <2>6, <2>7
<1>8. ASSUME NEW m \in net, Lose(m) PROVE IndInv'
  <2>1. TypeOK'
    BY <1>8, BoundsAssumption DEF Lose, Fault, TypeOK, procVars
  <2>2. AddrKnown' /\ NetGood' /\ QueueGood' /\ FrameGood' /\ LinesAreAnswers'
    BY <1>8, Monotone, LinesMonotone DEF Lose, procVars, AddrKnown, Known, NetGood, QueueGood, FrameGood
  <2> QED BY <2>1, <2>2
<1>9. ASSUME NEW h \in Hosts, Foreign(h) PROVE IndInv'
  <2> DEFINE m == [Nothing EXCEPT !.host = h]
  <2>1. m \in Messages /\ m.host = h /\ m.kind = "other"
    BY BaseAssumption DEF Nothing, Messages, ICMP_ECHO
  <2>2. /\ foreign' = foreign \cup {h} /\ Arrive(m)
        /\ UNCHANGED <<pid, target, procVars, net>>
    BY <1>9 DEF Foreign
  <2> HIDE DEF m
  <2>3. m \in Received'
    BY <2>1, <2>2 DEF Received, Known
  <2>4. QueueGood'
    BY <2>1, <2>2, <2>3, ArriveGood DEF procVars
  <2>5. TypeOK'
    <3>1. queue' \in [Pings -> Seq(Messages)]
      BY <2>4, SeqMonotone DEF QueueGood, Received
    <3> QED BY <1>9, <2>2, <3>1, BoundsAssumption DEF Foreign, Fault, TypeOK, procVars
  <2>6. AddrKnown' /\ NetGood' /\ FrameGood' /\ LinesAreAnswers'
    BY <2>2, Monotone, LinesMonotone DEF procVars, AddrKnown, Known, NetGood, FrameGood
  <2> QED BY <2>4, <2>5, <2>6
<1>10. CASE UNCHANGED vars
  <2>1. TypeOK'
    BY <1>10 DEF vars, procVars, TypeOK
  <2>2. AddrKnown' /\ NetGood' /\ QueueGood' /\ FrameGood' /\ LinesAreAnswers'
    BY <1>10, Monotone, LinesMonotone DEF vars, procVars, AddrKnown, Known, NetGood, QueueGood, FrameGood
  <2> QED BY <2>1, <2>2
<1> QED BY <1>1, <1>2, <1>3, <1>4, <1>5, <1>6, <1>7, <1>8, <1>9, <1>10 DEF Next, recvFrame, network

-----------------------------------------------------------------------------
LEMMA Invariance == Spec => []IndInv
BY InitInd, NextInd, PTL DEF Spec

\* Fields of myping.c fit an unsigned short and only hosts are recorded, for any
\* processes, hosts, identifiers and bounds.
THEOREM TypeCorrect == Spec => []TypeOK
<1>1. IndInv => TypeOK
  BY DEF IndInv
<1> QED BY <1>1, Invariance, PTL

\* Every line that recvFrame prints names a host that was sent that request under
\* this identifier, however other processes' traffic redirects the handler.
THEOREM LinesAlwaysAnswers == Spec => []LinesAreAnswers
<1>1. IndInv => LinesAreAnswers
  BY DEF IndInv
<1> QED BY <1>1, Invariance, PTL

\* checksum() is right for every frame that sendFrame sends, for any identifier,
\* sequence number and time: no host drops a request for its checksum.
THEOREM FramesAlwaysVerify == Spec => []FramesVerify
<1>1. IndInv => FramesVerify
  BY DEF IndInv, NetGood, Requests, FramesVerify
<1> QED BY <1>1, Invariance, PTL
=============================================================================
