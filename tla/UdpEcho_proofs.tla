--------------------------- MODULE UdpEcho_proofs ---------------------------
(***************************************************************************)
(* The two pairs of programs in which one request is answered at a time.   *)
(* For any number of lines, any lengths and any resend limit: the reliable *)
(* UDP echo client prints the echoes of its lines in order, and never      *)
(* waits without a timer. For a file of any length and pipes of any size:  *)
(* the client of the file server over pipes prints the reply to its path,  *)
(* all of it and in order, unless something is killed or fails.            *)
(***************************************************************************)
EXTENDS UdpEcho, PipeFile, SequenceTheorems, FiniteSetTheorems, TLAPS

Data == [line : Nat, len : Nat]
Datagram == [seq : Nat, data : Data]

\* The shapes of the variables that the argument needs.
ShapeOK == /\ pc \in {"read", "send", "sent", "armed", "recvmsg", "check",
                      "exit0", "exit-1", "crash"}
           /\ inStr \in Data
           /\ SeqNum \in Nat
           /\ rtt \in {RTT_MIN, RTT_MAX}
           /\ recv \in Datagram
           /\ output \in Seq(Data)
           /\ requests \subseteq Datagram /\ replies \subseteq Datagram

\* A number has been used for one line only, and the latest while waiting is
\* that of the current line.
NumbersOK == /\ \A r \in requests : r.seq <= SeqNum
             /\ Waiting => \A r \in requests : r.seq = SeqNum => r.data = inStr
             /\ Waiting => \E r \in requests : r.data = inStr

\* Every reply is the echo of a request.
RepliesOK == /\ \A r \in replies : \E q \in requests : q.seq = r.seq /\ r.data = Cut(q.data)
             /\ pc = "check" => recv \in replies

\* One echo is printed per line.
CountOK == /\ pc \in {"read", "exit0"} => Len(output) = inStr.line
           /\ pc = "send" \/ Waiting => Len(output) + 1 = inStr.line

IndInv == ShapeOK /\ NumbersOK /\ RepliesOK /\ CountOK /\ EchoesInOrder /\ WaitIsTimed

LEMMA CutData == \A d \in Data : Cut(d) \in Data /\ Cut(d).line = d.line
  BY LengthAssumption DEF Cut, Data

LEMMA InitInd == Init => IndInv
<1> SUFFICES ASSUME Init PROVE IndInv OBVIOUS
<1>1. NoLine \in Data BY DEF NoLine, Data
<1>2. ShapeOK
  <2>1. recv \in Datagram BY <1>1 DEF Init, Datagram
  <2>2. output \in Seq(Data) BY DEF Init
  <2> QED BY <1>1, <2>1, <2>2 DEF Init, ShapeOK
<1>3. NumbersOK /\ RepliesOK /\ WaitIsTimed
  BY DEF Init, NumbersOK, RepliesOK, WaitIsTimed, Waiting
<1>4. CountOK /\ EchoesInOrder
  BY DEF Init, CountOK, EchoesInOrder, Waiting, NoLine
<1> QED BY <1>2, <1>3, <1>4 DEF IndInv

\* Steps that leave the network and the output alone.
LEMMA QuietStep ==
  ASSUME IndInv, ReadLine \/ ReadEOF \/ SetJump \/ Receive \/ Discard \/ Refused
                   \/ GiveUp \/ StaleJump \/ StartServer \/ Terminated \/ UNCHANGED vars
  PROVE  IndInv'
<1>0. Lengths \subseteq Nat BY LengthAssumption
<1>1. CASE ReadLine
  BY <1>0, <1>1 DEF ReadLine, IndInv, ShapeOK, NumbersOK, RepliesOK, CountOK, EchoesInOrder,
     WaitIsTimed, Waiting, Data, Datagram
<1>2. CASE ReadEOF
  BY <1>2 DEF ReadEOF, IndInv, ShapeOK, NumbersOK, RepliesOK, CountOK, EchoesInOrder,
     WaitIsTimed, Waiting, Data, Datagram
<1>3. CASE SetJump
  BY <1>3 DEF SetJump, IndInv, ShapeOK, NumbersOK, RepliesOK, CountOK, EchoesInOrder,
     WaitIsTimed, Waiting, Data, Datagram
<1>4. CASE Receive
  BY <1>4 DEF Receive, IndInv, ShapeOK, NumbersOK, RepliesOK, CountOK, EchoesInOrder,
     WaitIsTimed, Waiting, Data, Datagram
<1>5. CASE Discard
  BY <1>5 DEF Discard, IndInv, ShapeOK, NumbersOK, RepliesOK, CountOK, EchoesInOrder,
     WaitIsTimed, Waiting, Data, Datagram
<1>6. CASE Refused \/ GiveUp \/ StaleJump
  <2>1. /\ pc' \in {"exit-1", "crash"}
        /\ UNCHANGED <<inStr, SeqNum, rtt, recv, output, requests, replies>>
    BY <1>6 DEF Refused, GiveUp, StaleJump
  <2> QED BY <2>1 DEF IndInv, ShapeOK, NumbersOK, RepliesOK, CountOK, EchoesInOrder,
               WaitIsTimed, Waiting
<1>7. CASE StartServer \/ Terminated \/ UNCHANGED vars
  BY <1>7 DEF StartServer, Terminated, vars, clientVars, IndInv, ShapeOK, NumbersOK,
     RepliesOK, CountOK, EchoesInOrder, WaitIsTimed, Waiting
<1> QED BY <1>1, <1>2, <1>3, <1>4, <1>5, <1>6, <1>7

\* A datagram leaves with a number that no earlier one has.
LEMMA SendStep ==
  ASSUME IndInv, FirstSend \/ Resend
  PROVE  IndInv'
<1> DEFINE new == [seq |-> SeqNum + 1, data |-> inStr]
<1>1. /\ SeqNum' = SeqNum + 1 /\ requests' = requests \cup {new}
      /\ pc \in {"send", "sent", "armed", "recvmsg", "check"}
      /\ pc' \in {"sent", "armed"} /\ alarm' = (rtt # 0)
      /\ UNCHANGED <<inStr, rtt, recv, output, replies>>
  BY DEF FirstSend, Resend, SendAgain, Transmit, Waiting
<1>2. new \in Datagram BY DEF IndInv, ShapeOK, Datagram
<1>3. ShapeOK' BY <1>1, <1>2 DEF IndInv, ShapeOK
<1>4. NumbersOK'
  <2>1. \A r \in requests' : r.seq <= SeqNum'
    BY <1>1, <1>2 DEF IndInv, ShapeOK, NumbersOK, Datagram
  <2>2. \A r \in requests' : r.seq = SeqNum' => r.data = inStr'
    BY <1>1, <1>2 DEF IndInv, ShapeOK, NumbersOK, Datagram
  <2>3. \E r \in requests' : r.data = inStr'
    <3>1. new \in requests' /\ new.data = inStr' BY <1>1
    <3> QED BY <3>1
  <2> QED BY <2>1, <2>2, <2>3 DEF NumbersOK
<1>5. RepliesOK'
  BY <1>1 DEF IndInv, RepliesOK
<1>6. CountOK'
  BY <1>1 DEF IndInv, CountOK, Waiting
<1>7. EchoesInOrder'
  BY <1>1 DEF IndInv, EchoesInOrder
<1>8. WaitIsTimed'
  <2>1. rtt # 0 BY RttAssumption DEF IndInv, ShapeOK
  <2>2. alarm' BY <1>1, <2>1
  <2> QED BY <2>2 DEF WaitIsTimed
<1> QED BY <1>3, <1>4, <1>5, <1>6, <1>7, <1>8 DEF IndInv

\* The reply that is accepted is the echo of the current line.
LEMMA AcceptStep ==
  ASSUME IndInv, Accept
  PROVE  IndInv'
<1>1. PICK q \in requests : q.seq = recv.seq /\ recv.data = Cut(q.data)
  BY DEF Accept, IndInv, RepliesOK
<1>2. q.data = inStr
  BY <1>1 DEF Accept, IndInv, NumbersOK, Waiting
<1>3. output' = Append(output, recv.data) /\ Len(output) + 1 = inStr.line
      /\ recv.data \in Data /\ output \in Seq(Data) /\ inStr \in Data
  BY DEF Accept, IndInv, ShapeOK, CountOK, Waiting, Datagram
<1>4. EchoesInOrder'
  <2> SUFFICES ASSUME NEW k \in 1 .. Len(output')
               PROVE  \E r \in requests' : r.data.line = k /\ output'[k] = Cut(r.data)
    BY DEF EchoesInOrder
  <2>1. requests' = requests BY DEF Accept
  <2>2. CASE k = Len(output) + 1
    <3>1. output'[k] = recv.data BY <1>3, <2>2
    <3>2. q.data.line = k BY <1>2, <1>3, <2>2
    <3> QED BY <1>1, <2>1, <3>1, <3>2
  <2>3. CASE k \in 1 .. Len(output)
    <3>1. output'[k] = output[k] BY <1>3, <2>3
    <3> QED BY <2>1, <2>3, <3>1 DEF IndInv, EchoesInOrder
  <2> QED BY <1>3, <2>2, <2>3
<1>5. CountOK'
  BY <1>3 DEF Accept, CountOK, Waiting, Data
<1>6. ShapeOK'
  BY <1>3 DEF Accept, updateRtt, IndInv, ShapeOK
<1>7. NumbersOK' /\ RepliesOK' /\ WaitIsTimed'
  BY DEF Accept, IndInv, NumbersOK, RepliesOK, WaitIsTimed, Waiting
<1> QED BY <1>4, <1>5, <1>6, <1>7 DEF IndInv

LEMMA ServerStep ==
  ASSUME IndInv, str_serv
  PROVE  IndInv'
<1>1. PICK r \in requests : replies' = replies \cup {[seq |-> r.seq, data |-> Cut(r.data)]}
  BY DEF str_serv
<1>2. [seq |-> r.seq, data |-> Cut(r.data)] \in Datagram
  BY CutData DEF IndInv, ShapeOK, Datagram
<1>3. ShapeOK'
  BY <1>1, <1>2 DEF str_serv, clientVars, IndInv, ShapeOK
<1>4. RepliesOK'
  BY <1>1 DEF str_serv, clientVars, IndInv, RepliesOK
<1>5. NumbersOK' /\ CountOK' /\ EchoesInOrder' /\ WaitIsTimed'
  BY DEF str_serv, clientVars, IndInv, NumbersOK, CountOK, EchoesInOrder, WaitIsTimed, Waiting
<1> QED BY <1>3, <1>4, <1>5 DEF IndInv

LEMMA NextInd == IndInv /\ [Next]_vars => IndInv'
  BY QuietStep, SendStep, AcceptStep, ServerStep DEF Next, client, sigAlarmHandler

LEMMA Inductive == Spec => []IndInv
  BY InitInd, NextInd, PTL DEF Spec

\* The client's output is the sequence of its lines' echoes, whatever the
\* network does and whenever SIGALRM arrives: dgSendRecv never takes a late
\* or duplicated reply for the current one.
THEOREM EchoesCorrect == Spec => []EchoesInOrder
<1>1. IndInv => EchoesInOrder BY DEF IndInv
<1> QED BY <1>1, Inductive, PTL

\* dgSendRecv never waits for a reply without an armed alarm, for every
\* RTT_MIN of at least one second.
THEOREM WaitsAreTimed == Spec => []WaitIsTimed
<1>1. IndInv => WaitIsTimed BY DEF IndInv
<1> QED BY <1>1, Inductive, PTL

-----------------------------------------------------------------------------
(* Types: the sequence numbers are bounded *)

\* Datagrams that dgSendRecv sends for one line at most.
Quota == MAX_RESEND_TIMES + 1

\* Every line has its quota: so many numbers were used before the current line,
\* and each resend of it has used one more.
ResendsOK == /\ pc \in {"read", "exit0"} => SeqNum <= inStr.line * Quota
             /\ pc = "send" => /\ resendCount = 0 /\ inStr.line >= 1
                              /\ SeqNum <= (inStr.line - 1) * Quota
             /\ Waiting => /\ resendCount <= MAX_RESEND_TIMES /\ inStr.line >= 1
                           /\ SeqNum <= (inStr.line - 1) * Quota + 1 + resendCount

TypeInv == TypeOK /\ ResendsOK

LEMMA QuotaStep ==
  ASSUME NEW n \in 1 .. Lines
  PROVE  /\ Quota \in Nat /\ (n - 1) * Quota \in Nat /\ n * Quota \in Nat
         /\ n * Quota = (n - 1) * Quota + Quota
         /\ n * Quota <= Lines * Quota /\ Lines * Quota \in Nat
<1>1. Quota \in Nat /\ n \in Nat /\ n >= 1 /\ Lines \in Nat /\ n <= Lines
  BY CountsAssumption DEF Quota
<1>2. n * Quota = (n - 1) * Quota + Quota
  BY <1>1
<1> DEFINE d == Lines - n
<1>3. d \in Nat /\ Lines = n + d
  BY <1>1
<1>4. Lines * Quota = n * Quota + d * Quota /\ d * Quota \in Nat
  BY <1>1, <1>3
<1>5. (n - 1) * Quota \in Nat /\ n * Quota \in Nat
  BY <1>1
<1>6. n * Quota <= Lines * Quota /\ Lines * Quota \in Nat
  BY <1>4, <1>5
<1> QED BY <1>1, <1>2, <1>5, <1>6

\* The same facts about the current line.
LEMMA CurrentQuota ==
  ASSUME TypeInv, pc = "send" \/ Waiting
  PROVE  /\ inStr.line \in 1 .. Lines /\ SeqNum \in Nat
         /\ Quota = MAX_RESEND_TIMES + 1 /\ MAX_RESEND_TIMES \in Nat
         /\ (inStr.line - 1) * Quota \in Nat
         /\ inStr.line * Quota = (inStr.line - 1) * Quota + Quota
         /\ inStr.line * Quota <= Lines * Quota /\ Lines * Quota \in Nat
<1>1. inStr.line \in 1 .. Lines /\ SeqNum \in Nat
  BY CountsAssumption DEF TypeInv, TypeOK, ResendsOK
<1> QED BY <1>1, QuotaStep, CountsAssumption DEF Quota

LEMMA InitType == Init => TypeInv
<1> SUFFICES ASSUME Init PROVE TypeInv OBVIOUS
<1>1. Lines * (MAX_RESEND_TIMES + 1) \in Nat
  BY CountsAssumption
<1>2. TypeOK
  <2>1. /\ inStr \in [line : 0 .. Lines, len : Lengths \cup {0}]
        /\ SeqNum \in 0 .. Lines * (MAX_RESEND_TIMES + 1)
        /\ resendCount \in 0 .. MAX_RESEND_TIMES + 1
        /\ rtt \in RTT_MIN .. RTT_MAX
    BY <1>1, CountsAssumption, RttAssumption DEF Init, NoLine
  <2>2. alarm \in BOOLEAN /\ up \in BOOLEAN /\ refused \in BOOLEAN
    BY DEF Init
  <2> QED BY <2>1, <2>2 DEF Init, TypeOK
<1>3. ResendsOK
  BY CountsAssumption DEF Init, ResendsOK, NoLine, Waiting, Quota
<1> QED BY <1>2, <1>3 DEF TypeInv

\* A new line: its numbers start after those of the lines before it.
LEMMA ReadLineType ==
  ASSUME TypeInv, ReadLine
  PROVE  TypeInv'
<1>1. PICK n \in Lengths : inStr' = [line |-> inStr.line + 1, len |-> n]
  BY DEF ReadLine
<1>2. /\ inStr'.line = inStr.line + 1 /\ inStr.line \in Nat /\ inStr.line < Lines
      /\ SeqNum <= inStr.line * Quota
  BY <1>1, CountsAssumption DEF ReadLine, TypeInv, TypeOK, ResendsOK
<1>3. (inStr'.line - 1) * Quota = inStr.line * Quota
  BY <1>2
<1>4. TypeOK'
  BY <1>1, <1>2, CountsAssumption DEF ReadLine, TypeInv, TypeOK
<1>5. ResendsOK'
  BY <1>2, <1>3 DEF ReadLine, ResendsOK, Waiting
<1> QED BY <1>4, <1>5 DEF TypeInv

\* A datagram: it uses a number of the line's quota.
LEMMA SendType ==
  ASSUME TypeInv, FirstSend \/ Resend
  PROVE  TypeInv'
<1>1. /\ SeqNum' = SeqNum + 1 /\ alarm' \in BOOLEAN /\ pc' \in {"sent", "armed"}
      /\ UNCHANGED <<inStr, rtt, up>>
  BY DEF FirstSend, Resend, SendAgain, Transmit
<1>2. refused' \in BOOLEAN
  BY DEF FirstSend, Resend, SendAgain, Transmit, TypeInv, TypeOK
<1> DEFINE used == (inStr.line - 1) * Quota
<1>3. /\ inStr.line \in 1 .. Lines /\ SeqNum \in Nat /\ used \in Nat
      /\ Quota = MAX_RESEND_TIMES + 1 /\ MAX_RESEND_TIMES \in Nat
      /\ used + Quota <= Lines * Quota /\ Lines * Quota \in Nat
  BY CurrentQuota DEF FirstSend, Resend, SendAgain
<1>4. /\ resendCount' \in 0 .. MAX_RESEND_TIMES
      /\ SeqNum' <= used + 1 + resendCount'
  <2>1. CASE FirstSend
    BY <2>1, <1>1, <1>3 DEF FirstSend, TypeInv, ResendsOK
  <2>2. CASE Resend
    <3>1. /\ resendCount \in Nat /\ resendCount < MAX_RESEND_TIMES
          /\ resendCount' = resendCount + 1 /\ SeqNum <= used + 1 + resendCount
      BY <2>2, <1>3 DEF Resend, SendAgain, TypeInv, TypeOK, ResendsOK
    <3> QED BY <3>1, <1>1, <1>3
  <2> QED BY <2>1, <2>2
<1>5. SeqNum' \in 0 .. Lines * Quota
  BY <1>1, <1>3, <1>4
<1>6. TypeOK'
  BY <1>1, <1>2, <1>3, <1>4, <1>5 DEF TypeInv, TypeOK, Quota
<1>7. ResendsOK'
  BY <1>1, <1>3, <1>4 DEF ResendsOK, Waiting
<1> QED BY <1>6, <1>7 DEF TypeInv

\* A reply is accepted: what is left of the quota is never used.
LEMMA AcceptType ==
  ASSUME TypeInv, Accept
  PROVE  TypeInv'
<1>1. Waiting
  BY DEF Accept, Waiting
<1>2. SeqNum <= inStr.line * Quota
  BY <1>1, CurrentQuota DEF TypeInv, TypeOK, ResendsOK
<1>3. TypeOK'
  <2>1. rtt' \in RTT_MIN .. RTT_MAX
    BY RttAssumption DEF Accept, updateRtt
  <2>2. alarm' \in BOOLEAN
    BY DEF Accept
  <2> QED BY <2>1, <2>2 DEF Accept, TypeInv, TypeOK
<1>4. ResendsOK'
  BY <1>2 DEF Accept, ResendsOK, Waiting
<1> QED BY <1>3, <1>4 DEF TypeInv

\* The other steps send nothing.
LEMMA OtherType ==
  ASSUME TypeInv, ReadEOF \/ SetJump \/ Receive \/ Discard \/ Refused \/ GiveUp \/ StaleJump
                    \/ str_serv \/ StartServer \/ Terminated \/ UNCHANGED vars
  PROVE  TypeInv'
<1>1. CASE ReadEOF \/ SetJump \/ Receive \/ Discard \/ Refused \/ StaleJump
  BY <1>1 DEF ReadEOF, SetJump, Receive, Discard, Refused, StaleJump, TypeInv, TypeOK, ResendsOK, Waiting
<1>2. CASE GiveUp
  <2>1. resendCount' \in 0 .. MAX_RESEND_TIMES + 1
    BY <1>2, CountsAssumption DEF GiveUp, TypeInv, TypeOK, ResendsOK
  <2> QED BY <1>2, <2>1 DEF GiveUp, TypeInv, TypeOK, ResendsOK, Waiting
<1>3. CASE str_serv \/ StartServer \/ Terminated \/ UNCHANGED vars
  BY <1>3 DEF str_serv, StartServer, Terminated, vars, clientVars, TypeInv, TypeOK, ResendsOK, Waiting
<1> QED BY <1>1, <1>2, <1>3

\* Every variable of the client keeps its type: dgSendRecv uses at most
\* MAX_RESEND_TIMES + 1 sequence numbers for a line, so that SeqNum stays within
\* Lines times as many, and updateRtt keeps rtt within its clamps.
THEOREM TypeCorrect == Spec => []TypeOK
<1>1. TypeInv /\ [Next]_vars => TypeInv'
  BY ReadLineType, SendType, AcceptType, OtherType DEF Next, client, sigAlarmHandler
<1>2. TypeInv => TypeOK
  BY DEF TypeInv
<1> QED BY InitType, <1>1, <1>2, PTL DEF Spec

-----------------------------------------------------------------------------
(* The pipes of IPC/PipeFIFO: what holds whatever happens *)

\* Where a program can be: one that runs, and one that does not.
Ended == {"off", "exit0", "exit-1", "killed"}
Places == Ended \cup {"mkfifo1", "mkfifo2", "open1", "open2", "close", "read", "send", "ask", "show",
                     "unlink1", "unlink2", "waitpid"}
Modes == {"r", "w"}
End == Pipes \X Modes
Things == Paths \cup Nat \cup {"can not open"}

PipeShape ==
    /\ kind \in Kinds /\ name \in [{FIFO1, FIFO2} -> Pipes \cup {NoPipe}]
    /\ asked \in Paths /\ runs \in [Procs -> 0 .. MaxRuns]
    /\ started \subseteq Procs /\ twice \in BOOLEAN /\ faulty \in BOOLEAN
    /\ data \in [Pipes -> Seq(Things)] /\ todo \in Seq(Things) /\ printed \in Seq(Things)
    /\ ends \in [Procs -> SUBSET End]

PlacesOK ==
    /\ at \in [Procs -> Places]
    /\ kind = "fifo" => /\ at["server"] \in Ended \cup {"mkfifo1", "mkfifo2", "open1", "open2", "read",
                           "send"}
                        /\ at["client"] \in Ended \cup {"mkfifo1", "mkfifo2", "open1", "open2", "ask", "show",
                                                        "unlink1", "unlink2"}
    /\ kind = "pipe" => /\ at["server"] \in Ended \cup {"close", "read", "send"}
                        /\ at["client"] \in Ended \cup {"close", "ask", "show", "waitpid"}
                        /\ name = [n \in {FIFO1, FIFO2} |-> NoPipe] /\ waits = [p \in Procs |-> <<>>]
    /\ \A p \in Procs : Running(p) => p \in started

\* A program waits for the other end of a pipe it has opened.
WaitsOK == waits \in [Procs -> End \cup {<<>>}] /\ \A p \in Procs : waits[p] # <<>> => waits[p] \in ends[p]

\* The ends that a program has open at each place
EndsOK ==
    /\ \A p \in Procs : /\ at[p] \in Ended \cup {"mkfifo1", "mkfifo2", "open1", "unlink1", "unlink2"}
                           => ends[p] = {}
                        /\ at[p] = "close" => ends[p] = AllEnds
                        /\ at[p] # "close" => \A i, j \in Pipes, m \in Modes :
                                                 <<i, m>> \in ends[p] /\ <<j, m>> \in ends[p] => i = j
    /\ at["server"] = "open2" => \A i \in Pipes : <<i, "w">> \notin ends["server"]
    /\ at["client"] = "open2" => \A i \in Pipes : <<i, "r">> \notin ends["client"]
    /\ kind = "pipe" => /\ at["server"] \in {"read", "send"}
                           => ends["server"] = {<<FIFO1, "r">>, <<FIFO2, "w">>}
                        /\ at["client"] \in {"ask", "show", "waitpid"}
                           => ends["client"] = {<<FIFO1, "w">>, <<FIFO2, "r">>}
    /\ kind = "fifo" => \A i \in Pipes, p \in Procs : ~(<<i, "r">> \in ends[p] /\ <<i, "w">> \in ends[p])

\* Each name refers to its own pipe, which is used in one direction.
NamesOK ==
    /\ name[FIFO1] # NoPipe => name[FIFO1] # name[FIFO2]
    /\ <<name[FIFO2], "r">> \notin ends["server"] /\ <<name[FIFO1], "w">> \notin ends["server"]
    /\ <<name[FIFO1], "r">> \notin ends["client"] /\ <<name[FIFO2], "w">> \notin ends["client"]

\* A pipe holds no more than it can, and one that nobody has open nothing.
RoomOK == /\ \A i \in Pipes : Len(data[i]) <= PipeSize
          /\ \A i \in Pipes : (\A p \in Procs, m \in Modes : <<i, m>> \notin ends[p]) => data[i] = <<>>

PipeBase == PipeShape /\ PlacesOK /\ WaitsOK /\ EndsOK /\ NamesOK /\ RoomOK

\* Min gives a member (of the few pipes there are).
LEMMA MinMember ==
  ASSUME NEW S \in SUBSET Pipes, S # {} PROVE Min(S) \in S
<1>1. \E x \in S : \A y \in S : x <= y
  <2>1. CASE 1 \in S BY <2>1 DEF Pipes
  <2>2. CASE 1 \notin S /\ 2 \in S BY <2>2 DEF Pipes
  <2>3. CASE 1 \notin S /\ 2 \notin S /\ 3 \in S BY <2>3 DEF Pipes
  <2>4. CASE 1 \notin S /\ 2 \notin S /\ 3 \notin S
    <3>1. \A y \in S : y = 4 BY <2>4 DEF Pipes
    <3> QED BY <3>1
  <2> QED BY <2>1, <2>2, <2>3, <2>4
<1> QED BY <1>1 DEF Min

\* The base of the invariant gives the types: two ends of one kind would be one.
LEMMA BaseTyped == ASSUME PipeBase PROVE PipeTypeOK
<1>1. ASSUME NEW p \in Procs, NEW mode \in {"r", "w"}, at[p] # "close"
      PROVE  Cardinality({e \in ends[p] : e[2] = mode}) <= 1
  <2> DEFINE S == {e \in ends[p] : e[2] = mode}
  <2>1. ASSUME NEW d \in S, NEW e \in S PROVE d = e
    <3>1. d \in Pipes \X Modes /\ e \in Pipes \X Modes BY <2>1 DEF PipeBase, PipeShape, End
    <3>2. d = <<d[1], mode>> /\ e = <<e[1], mode>> BY <2>1, <3>1
    <3>3. <<d[1], mode>> \in ends[p] /\ <<e[1], mode>> \in ends[p] BY <2>1, <3>2
    <3>4. d[1] = e[1] BY <1>1, <3>1, <3>3 DEF PipeBase, EndsOK, Modes
    <3> QED BY <3>2, <3>4
  <2>2. CASE S = {} BY <2>2, FS_EmptySet
  <2>3. CASE S # {}
    <3>1. PICK e : e \in S BY <2>3
    <3>2. S = {e} BY <2>1, <3>1
    <3>3. Cardinality({e}) = 1 BY FS_Singleton
    <3> QED BY <3>2, <3>3
  <2> QED BY <2>2, <2>3
<1>2. \A p \in Procs : ends[p] \subseteq Pipes \X {"r", "w"} /\ waits[p] \in ends[p] \cup {<<>>}
  BY DEF PipeBase, PipeShape, WaitsOK, End, Modes
<1> QED BY <1>1, <1>2 DEF PipeTypeOK, PipeBase, PipeShape, RoomOK

\* What the server sends is text or a chunk of the file.
LEMMA ReplyThings == ASSUME NEW path PROVE Reply(path) \in Seq(Things)
<1>1. CASE path = "file"
  <2>1. Chunks \in Nat BY SizesAssumption
  <2>4. \A k \in 1 .. Chunks : k \in Things
    <3>1. \A k \in 1 .. Chunks : k \in Nat BY <2>1
    <3> QED BY <3>1 DEF Things
  <2>2. [k \in 1 .. Chunks |-> k] \in [1 .. Chunks -> Things] BY <2>4
  <2>3. [k \in 1 .. Chunks |-> k] \in Seq(Things) BY <2>1, <2>2, SeqDef
  <2> QED BY <1>1, <2>3 DEF Reply
<1>2. CASE path = "void" BY <1>2 DEF Reply
<1>3. CASE path # "file" /\ path # "void" BY <1>3 DEF Reply, Things
<1> QED BY <1>1, <1>2, <1>3

\* The base holds at the start.
LEMMA BaseInit == PipeInit => PipeBase
<1> SUFFICES ASSUME PipeInit PROVE PipeBase OBVIOUS
<1>1. <<>> \in Seq(Things) OBVIOUS
<1>2. runs \in [Procs -> 0 .. MaxRuns]
  <2>1. 0 \in 0 .. MaxRuns BY SizesAssumption
  <2> QED BY <2>1 DEF PipeInit
<1>9. PipeShape BY <1>1, <1>2 DEF PipeInit, PipeShape, Paths, NoPipe
<1>3. PlacesOK BY KindsAssumption DEF PipeInit, PlacesOK, Procs, Ended, Places, Running
<1>4. WaitsOK /\ EndsOK BY DEF PipeInit, WaitsOK, EndsOK, Procs, Ended
<1>5. NamesOK BY DEF PipeInit, NamesOK, Procs
<1>6. RoomOK
  <2>1. Len(<<>>) <= PipeSize BY SizesAssumption
  <2> QED BY <2>1 DEF PipeInit, RoomOK
<1> QED BY <1>9, <1>3, <1>4, <1>5, <1>6 DEF PipeBase

\* The pipe that mkfifo makes is one that nobody uses.
LEMMA MkfifoStep ==
  ASSUME PipeBase, kind = "fifo",
         NEW p \in Procs, NEW n \in {FIFO1, FIFO2}, NEW from, NEW to,
         (from = "mkfifo1" /\ to = "mkfifo2") \/ (from = "mkfifo2" /\ to = "open1"),
         Mkfifo(p, n, from, to)
  PROVE  /\ PipeBase'
         /\ name'[n] # NoPipe
         /\ \A k \in {FIFO1, FIFO2} : name[k] # NoPipe => name'[k] = name[k]
         /\ name[n] = NoPipe => \A q \in Procs, m \in Modes : <<name'[n], m>> \notin ends[q]
<1> DEFINE used == {name[FIFO1], name[FIFO2]} \cup {e[1] : e \in UNION {ends[q] : q \in Procs}}
           x == Min(Pipes \ used)
<1>1. /\ at[p] = from /\ at' = [at EXCEPT ![p] = to]
      /\ UNCHANGED <<kind, runs, started, twice, faulty, ends, waits, data, asked, printed, todo>>
      /\ name' = [name EXCEPT ![n] = IF @ = NoPipe THEN x ELSE @]
  BY DEF Mkfifo, Goto
<1>2. ASSUME name[n] = NoPipe PROVE x \in Pipes \ used
  <2>1. PICK q \in Procs : q # p /\ Procs = {p, q} BY DEF Procs
  <2>2. ends[p] = {} BY <1>1 DEF PipeBase, EndsOK
  <2>3. at[q] # "close" BY <2>1 DEF PipeBase, PlacesOK, Procs, Ended, Places
  <2>4. PICK o \in {FIFO1, FIFO2} : o # n /\ {FIFO1, FIFO2} = {n, o} BY DEF FIFO1, FIFO2
  <2>5. \A i, j \in Pipes, m \in Modes : <<i, m>> \in ends[q] /\ <<j, m>> \in ends[q] => i = j
    BY <2>1, <2>3 DEF PipeBase, EndsOK
  <2>6. PICK r \in Pipes : \A i \in Pipes : <<i, "r">> \in ends[q] => i = r BY <2>5 DEF Modes, Pipes
  <2>7. PICK w \in Pipes : \A i \in Pipes : <<i, "w">> \in ends[q] => i = w BY <2>5 DEF Modes, Pipes
  <2>8. ASSUME NEW i \in Pipes, i \in used PROVE i \in {name[o], r, w}
    <3>1. CASE \E e \in UNION {ends[k] : k \in Procs} : e[1] = i
      <4>1. PICK e \in ends[q] : e[1] = i BY <3>1, <2>1, <2>2
      <4>2. e \in Pipes \X Modes BY <2>1, <4>1 DEF PipeBase, PipeShape, End
      <4>3. e = <<i, "r">> \/ e = <<i, "w">> BY <4>1, <4>2 DEF Modes
      <4> QED BY <2>6, <2>7, <2>8, <4>1, <4>3
    <3>2. CASE i \in {name[FIFO1], name[FIFO2]} BY <3>2, <2>4, <2>8, <1>2 DEF NoPipe, Pipes, FIFO1, FIFO2
    <3> QED BY <2>8, <3>1, <3>2
  <2>9. \E i \in Pipes : i \notin {name[o], r, w} BY DEF Pipes
  <2>10. Pipes \ used # {} BY <2>8, <2>9
  <2> HIDE DEF used
  <2> QED BY <2>10, MinMember
<1>3. ASSUME name[n] = NoPipe
      PROVE  /\ x \in Pipes /\ x # name[FIFO1] /\ x # name[FIFO2]
             /\ \A q \in Procs, m \in Modes : <<x, m>> \notin ends[q]
  <2>1. x \in Pipes /\ x \notin used BY <1>2, <1>3
  <2>2. ASSUME NEW q \in Procs, NEW m \in Modes, <<x, m>> \in ends[q] PROVE x \in used
    BY <2>2
  <2> QED BY <2>1, <2>2
<1> HIDE DEF x
<1>4. PipeShape' BY <1>1, <1>3 DEF PipeBase, PipeShape
<1>5. PlacesOK'
  BY <1>1 DEF PipeBase, PlacesOK, Procs, Ended, Places, Running
<1>6. WaitsOK' BY <1>1 DEF PipeBase, WaitsOK
<1>7. EndsOK'
  BY <1>1 DEF PipeBase, EndsOK, PlacesOK, Procs, Ended, Places
<1>8. NamesOK'
  <2>1. CASE name[n] # NoPipe
    <3>1. name' = name BY <1>1, <2>1 DEF PipeBase, PipeShape
    <3> QED BY <1>1, <3>1 DEF PipeBase, NamesOK
  <2>2. CASE name[n] = NoPipe
    <3>1. name' = [name EXCEPT ![n] = x] BY <1>1, <2>2 DEF PipeBase, PipeShape
    <3>2. CASE n = FIFO1
      <4>1. name'[FIFO1] = x /\ name'[FIFO2] = name[FIFO2] BY <3>1, <3>2 DEF PipeBase, PipeShape, FIFO1, FIFO2
      <4> QED BY <1>1, <1>3, <2>2, <4>1 DEF PipeBase, NamesOK, Procs, Modes
    <3>3. CASE n = FIFO2
      <4>1. name'[FIFO2] = x /\ name'[FIFO1] = name[FIFO1] BY <3>1, <3>3 DEF PipeBase, PipeShape, FIFO1, FIFO2
      <4> QED BY <1>1, <1>3, <2>2, <4>1 DEF PipeBase, NamesOK, Procs, Modes
    <3> QED BY <3>2, <3>3
  <2> QED BY <2>1, <2>2
<1>9. RoomOK' BY <1>1 DEF PipeBase, RoomOK
<1>10. /\ name'[n] # NoPipe
       /\ \A k \in {FIFO1, FIFO2} : name[k] # NoPipe => name'[k] = name[k]
       /\ name[n] = NoPipe => \A q \in Procs, m \in Modes : <<name'[n], m>> \notin ends[q]
  BY <1>1, <1>3 DEF PipeBase, PipeShape, NoPipe, Pipes
<1> QED BY <1>4, <1>5, <1>6, <1>7, <1>8, <1>9, <1>10 DEF PipeBase


\* open adds one end, of the pipe that the name refers to.
LEMMA OpenStep ==
  ASSUME PipeBase, kind = "fifo",
         NEW p \in Procs, NEW n \in {FIFO1, FIFO2}, NEW mode \in Modes, NEW from, NEW to,
         \/ n = FIFO1 /\ from = "open1" /\ to = "open2" /\ mode = (IF p = "server" THEN "r" ELSE "w")
         \/ p = "server" /\ n = FIFO2 /\ from = "open2" /\ to = "read" /\ mode = "w"
         \/ p = "client" /\ n = FIFO2 /\ from = "open2" /\ to = "ask" /\ mode = "r",
         Open(p, n, mode, from, to)
  PROVE  PipeBase'
<1> DEFINE i == name[n]
<1>1. /\ at[p] = from /\ at' = [at EXCEPT ![p] = to]
      /\ UNCHANGED <<kind, runs, started, twice, faulty, name, data, asked, printed, todo>>
      /\ ends' = [ends EXCEPT ![p] = IF i = NoPipe THEN @ ELSE @ \cup {<<i, mode>>}]
      /\ waits' = [q \in Procs |->
                       IF q # p THEN (IF waits[q] = <<i, Partner(mode)>> THEN <<>> ELSE waits[q])
                       ELSE IF i = NoPipe \/ HasEnd(i, Partner(mode)) THEN <<>> ELSE <<i, mode>>]
  BY DEF Open, Goto
<1>2. i \in Pipes \cup {NoPipe} /\ (i # NoPipe => <<i, mode>> \in End)
  BY DEF PipeBase, PipeShape, End
<1>3. ends \in [Procs -> SUBSET End] BY DEF PipeBase, PipeShape
<1>4. ends' \in [Procs -> SUBSET End] BY <1>1, <1>2, <1>3
<1>5. \A q \in Procs : q # p => ends'[q] = ends[q] BY <1>1, <1>3
<1>6. ends'[p] = IF i = NoPipe THEN ends[p] ELSE ends[p] \cup {<<i, mode>>} BY <1>1, <1>3
<1>7. PipeShape' BY <1>1, <1>4 DEF PipeBase, PipeShape
<1>8. PlacesOK' BY <1>1 DEF PipeBase, PlacesOK, Procs, Ended, Places, Running
<1>9. WaitsOK'
  <2>1. waits \in [Procs -> End \cup {<<>>}] /\ \A q \in Procs : waits[q] # <<>> => waits[q] \in ends[q]
    BY DEF PipeBase, WaitsOK
  <2>2. ASSUME NEW q \in Procs
        PROVE  waits'[q] \in End \cup {<<>>} /\ (waits'[q] # <<>> => waits'[q] \in ends'[q])
    <3>1. CASE q # p
      <4>1. waits'[q] = <<>> \/ waits'[q] = waits[q] BY <1>1, <3>1
      <4> QED BY <2>1, <4>1, <3>1, <1>5
    <3>2. CASE q = p
      <4>1. waits'[q] = <<>> \/ (i # NoPipe /\ waits'[q] = <<i, mode>>) BY <1>1, <3>2
      <4> QED BY <4>1, <3>2, <1>2, <1>6
    <3> QED BY <3>1, <3>2
  <2>3. waits' \in [Procs -> End \cup {<<>>}] BY <1>1, <2>2
  <2> QED BY <2>2, <2>3 DEF WaitsOK
<1>10. EndsOK' BY <1>1, <1>2, <1>3, <1>5, <1>6
       DEF PipeBase, EndsOK, PlacesOK, NamesOK, Procs, Ended, Places, Modes, NoPipe, Pipes
<1>11. NamesOK' BY <1>1, <1>2, <1>3, <1>5, <1>6 DEF PipeBase, NamesOK, Procs, Modes, NoPipe, Pipes
<1>12. RoomOK' BY <1>1, <1>5, <1>6 DEF PipeBase, RoomOK
<1> QED BY <1>7, <1>8, <1>9, <1>10, <1>11, <1>12 DEF PipeBase

\* Closing ends empties the pipes that nobody has open any more, and no others.
LEMMA CloseRoom ==
  ASSUME PipeBase, NEW p \in Procs, NEW S, CloseEnds(p, S)
  PROVE  /\ RoomOK' /\ data' \in [Pipes -> Seq(Things)] /\ ends' \in [Procs -> SUBSET End]
         /\ \A i \in Pipes : data[i] = <<>> => data'[i] = <<>>
         /\ \A i \in Pipes : (\E q \in Procs, m \in Modes : <<i, m>> \in ends'[q]) => data'[i] = data[i]
<1>1. ends' \in [Procs -> SUBSET End] BY DEF CloseEnds, PipeBase, PipeShape
<1>2. data' = [i \in Pipes |-> IF \E q \in Procs : \E e \in ends'[q] : e[1] = i THEN data[i] ELSE <<>>]
  BY DEF CloseEnds
<1>3. data \in [Pipes -> Seq(Things)] BY DEF PipeBase, PipeShape
<1>4. data' \in [Pipes -> Seq(Things)] BY <1>2, <1>3
<1>5. ASSUME NEW i \in Pipes PROVE Len(data'[i]) <= PipeSize
  <2>1. data'[i] = data[i] \/ data'[i] = <<>> BY <1>2
  <2>2. Len(data[i]) <= PipeSize BY DEF PipeBase, RoomOK
  <2>3. Len(<<>>) <= PipeSize BY SizesAssumption
  <2> QED BY <2>1, <2>2, <2>3
<1>6. ASSUME NEW i \in Pipes, \A q \in Procs, m \in Modes : <<i, m>> \notin ends'[q] PROVE data'[i] = <<>>
  <2>1. ASSUME NEW q \in Procs, NEW e \in ends'[q], e[1] = i PROVE FALSE
    <3>1. e \in Pipes \X Modes BY <1>1, <2>1 DEF End
    <3>2. e = <<i, e[2]>> /\ e[2] \in Modes BY <2>1, <3>1
    <3> QED BY <1>6, <2>1, <3>2
  <2> QED BY <1>2, <2>1
<1>7. ASSUME NEW i \in Pipes, NEW q \in Procs, NEW m \in Modes, <<i, m>> \in ends'[q] PROVE data'[i] = data[i]
  <2>1. <<i, m>>[1] = i OBVIOUS
  <2> QED BY <1>2, <1>7, <2>1
<1>8. \A i \in Pipes : data[i] = <<>> => data'[i] = <<>> BY <1>2
<1> QED BY <1>1, <1>4, <1>5, <1>6, <1>7, <1>8 DEF RoomOK

\* A program closes all its ends: it stops, or its unlinks are left.
LEMMA StopStep ==
  ASSUME PipeBase, NEW p \in Procs, NEW how,
         how \in Ended \/ (how = "unlink1" /\ p = "client" /\ kind = "fifo" /\ Running(p)),
         at' = [at EXCEPT ![p] = how], waits' = [waits EXCEPT ![p] = <<>>], CloseEnds(p, ends[p]),
         UNCHANGED <<kind, runs, started, twice, name, asked, printed, todo>>, faulty' \in BOOLEAN
  PROVE  PipeBase'
<1>1. RoomOK' /\ data' \in [Pipes -> Seq(Things)] /\ ends' \in [Procs -> SUBSET End] BY CloseRoom
<1>2. PipeShape' BY <1>1 DEF PipeBase, PipeShape
<1>3. ends' = [ends EXCEPT ![p] = {}] BY DEF CloseEnds, PipeBase, PipeShape
<1>4. /\ ends'[p] = {} /\ (\A q \in Procs : q # p => ends'[q] = ends[q])
  BY <1>3 DEF PipeBase, PipeShape
<1>5. waits'[p] = <<>> /\ (\A q \in Procs : q # p => waits'[q] = waits[q])
  BY DEF PipeBase, WaitsOK
<1>6. PlacesOK' BY <1>5 DEF PipeBase, PlacesOK, WaitsOK, Procs, Ended, Places, Running
<1>7. WaitsOK' BY <1>4, <1>5 DEF PipeBase, WaitsOK
<1>8. EndsOK' BY <1>4 DEF PipeBase, EndsOK, PlacesOK, Procs, Ended, Places
<1>9. NamesOK' BY <1>4 DEF PipeBase, NamesOK, Procs
<1> QED BY <1>1, <1>2, <1>6, <1>7, <1>8, <1>9 DEF PipeBase

\* A process ends.
LEMMA ExitStep ==
  ASSUME PipeBase, NEW p \in Procs, NEW from, NEW how \in Ended, Exit(p, from, how)
  PROVE  PipeBase'
<1>1. waits' = [waits EXCEPT ![p] = <<>>] BY DEF Exit, Goto, PipeBase, WaitsOK
<1>2. faulty' \in BOOLEAN BY DEF Exit, Goto, PipeBase, PipeShape
<1> QED BY <1>1, <1>2, StopStep DEF Exit, Goto

\* Pipe.c: after fork each process keeps an end of each pipe.
LEMMA ForkedClose == ASSUME PipeBase, ChildClose \/ ParentClose PROVE PipeBase' /\ kind = "pipe"
<1>0. kind \in {"fifo", "pipe"} BY KindsAssumption DEF PipeBase, PipeShape
<1>1. kind = "pipe" BY <1>0 DEF PipeBase, PlacesOK, ChildClose, ParentClose, Goto, Ended, Places
<1>2. PICK p \in Procs, to \in {"read", "ask"}, S \in SUBSET (Pipes \X Modes) :
        /\ at[p] = "close" /\ at' = [at EXCEPT ![p] = to] /\ CloseEnds(p, S)
        /\ UNCHANGED <<kind, runs, started, twice, faulty, waits, name, asked, printed, todo>>
        /\ \/ p = "server" /\ to = "read" /\ S = {<<FIFO1, "w">>, <<FIFO2, "r">>}
           \/ p = "client" /\ to = "ask" /\ S = {<<FIFO1, "r">>, <<FIFO2, "w">>}
  <2>1. /\ {<<FIFO1, "w">>, <<FIFO2, "r">>} \in SUBSET (Pipes \X Modes)
        /\ {<<FIFO1, "r">>, <<FIFO2, "w">>} \in SUBSET (Pipes \X Modes)
        /\ "server" \in Procs /\ "client" \in Procs
    BY DEF Pipes, Modes, FIFO1, FIFO2, Procs
  <2> QED BY <2>1 DEF ChildClose, ParentClose, Goto
<1>3. RoomOK' /\ data' \in [Pipes -> Seq(Things)] /\ ends' \in [Procs -> SUBSET End] BY <1>2, CloseRoom
<1>4. PipeShape' BY <1>2, <1>3 DEF PipeBase, PipeShape
<1>5. /\ ends'[p] = ends[p] \ S /\ (\A q \in Procs : q # p => ends'[q] = ends[q])
  BY <1>2 DEF PipeBase, PipeShape, CloseEnds
<1>6. ends[p] = AllEnds BY <1>2 DEF PipeBase, EndsOK
<1>7. p = "server" => ends'[p] = {<<FIFO1, "r">>, <<FIFO2, "w">>} BY <1>2, <1>5, <1>6
      DEF AllEnds, FIFO1, FIFO2
<1>8. p = "client" => ends'[p] = {<<FIFO1, "w">>, <<FIFO2, "r">>} BY <1>2, <1>5, <1>6
      DEF AllEnds, FIFO1, FIFO2
<1>9. PlacesOK' BY <1>2, <1>1 DEF PipeBase, PlacesOK, Procs, Ended, Places, Running
<1>10. WaitsOK' BY <1>1, <1>2 DEF PipeBase, PlacesOK, WaitsOK
<1>11. EndsOK'
  <2>1. \A i, j \in Pipes, m \in Modes : <<i, m>> \in ends'[p] /\ <<j, m>> \in ends'[p] => i = j
    BY <1>2, <1>7, <1>8 DEF Modes
  <2>2. at'[p] = to /\ \A q \in Procs : q # p => at'[q] = at[q] BY <1>2 DEF PipeBase, PlacesOK
  <2>3. ASSUME NEW q \in Procs
        PROVE  /\ at'[q] \in Ended \cup {"mkfifo1", "mkfifo2", "open1", "unlink1", "unlink2"} => ends'[q] = {}
               /\ at'[q] = "close" => ends'[q] = AllEnds
               /\ at'[q] # "close" => \A i, j \in Pipes, m \in Modes :
                                        <<i, m>> \in ends'[q] /\ <<j, m>> \in ends'[q] => i = j
    <3>1. CASE q = p BY <1>2, <2>1, <2>2, <3>1 DEF Ended
    <3>2. CASE q # p
      <4>1. at'[q] = at[q] /\ ends'[q] = ends[q] BY <1>5, <2>2, <3>2
      <4> QED BY <4>1 DEF PipeBase, EndsOK
    <3> QED BY <3>1, <3>2
  <2>4. /\ at'["server"] \in {"read", "send"} => ends'["server"] = {<<FIFO1, "r">>, <<FIFO2, "w">>}
        /\ at'["client"] \in {"ask", "show", "waitpid"} => ends'["client"] = {<<FIFO1, "w">>, <<FIFO2, "r">>}
    BY <1>1, <1>2, <1>5, <1>7, <1>8, <2>2 DEF PipeBase, EndsOK, Procs
  <2>5. kind' = "pipe" /\ at'["server"] # "open2" /\ at'["client"] # "open2"
    BY <1>1, <1>2, <2>2 DEF PipeBase, PlacesOK, Procs, Ended, Places
  <2> QED BY <2>3, <2>4, <2>5 DEF EndsOK
<1>12. NamesOK' BY <1>2, <1>5 DEF PipeBase, NamesOK, Procs
<1> QED BY <1>1, <1>3, <1>4, <1>9, <1>10, <1>11, <1>12 DEF PipeBase

\* Names are removed.
LEMMA UnlinkStep ==
  ASSUME PipeBase, kind = "fifo", NEW p \in Procs, NEW n \in {FIFO1, FIFO2}, NEW to,
         \/ p = "client" /\ at[p] = "unlink1" /\ to = "unlink2"
         \/ p = "client" /\ at[p] = "unlink2" /\ to = "exit0"
         \/ at[p] = "mkfifo2" /\ to = "exit-1",
         at' = [at EXCEPT ![p] = to], name' = [name EXCEPT ![n] = NoPipe],
         UNCHANGED <<kind, runs, started, twice, ends, waits, data, asked, printed, todo>>,
           faulty' \in BOOLEAN
  PROVE  PipeBase'
<1>1. PipeShape' BY DEF PipeBase, PipeShape
<1>2. PlacesOK' BY DEF PipeBase, PlacesOK, Procs, Ended, Places, Running
<1>3. WaitsOK' BY DEF PipeBase, WaitsOK
<1>4. EndsOK' BY DEF PipeBase, EndsOK, PlacesOK, Procs, Ended, Places
<1>5. name'[n] = NoPipe /\ \A k \in {FIFO1, FIFO2} : k # n => name'[k] = name[k] BY DEF PipeBase, PipeShape
<1>6. \A q \in Procs, m \in Modes : <<NoPipe, m>> \notin ends[q]
  <2>1. NoPipe \notin Pipes BY DEF NoPipe, Pipes
  <2> QED BY <2>1 DEF PipeBase, PipeShape, End
<1>7. NamesOK' BY <1>5, <1>6 DEF PipeBase, NamesOK, Procs, Modes, FIFO1, FIFO2
<1>8. RoomOK' BY DEF PipeBase, RoomOK
<1> QED BY <1>1, <1>2, <1>3, <1>4, <1>7, <1>8 DEF PipeBase

\* Steps that open and close nothing.
LEMMA DataStep ==
  ASSUME PipeBase, NEW p \in Procs, NEW to,
         \/ p = "server" /\ at[p] \in {"read", "send"} /\ to = "send"
         \/ p = "client" /\ at[p] \in {"ask", "show"} /\ to = "show"
         \/ p = "client" /\ at[p] = "show" /\ to = "waitpid" /\ kind = "pipe",
         at' = [at EXCEPT ![p] = to],
         UNCHANGED <<kind, runs, started, twice, ends, waits, name>>, faulty' \in BOOLEAN,
         asked' \in Paths, printed' \in Seq(Things), todo' \in Seq(Things), data' \in [Pipes -> Seq(Things)],
         RoomOK'
  PROVE  PipeBase'
<1>1. PipeShape' BY DEF PipeBase, PipeShape
<1>2. PlacesOK' BY DEF PipeBase, PlacesOK, Procs, Ended, Places, Running
<1>3. WaitsOK' BY DEF PipeBase, WaitsOK
<1>4. EndsOK' BY DEF PipeBase, EndsOK, PlacesOK, Procs, Ended, Places
<1>5. NamesOK' BY DEF PipeBase, NamesOK
<1> QED BY <1>1, <1>2, <1>3, <1>4, <1>5 DEF PipeBase

\* Programs are started.
LEMMA StartStep ==
  ASSUME PipeBase, NEW S \in SUBSET Procs, NEW first, Start(S, first), faulty' \in BOOLEAN,
         \/ kind = "fifo" /\ first = "mkfifo1" /\ ends' = ends
         \/ /\ kind = "pipe" /\ first = "close" /\ (\A q \in Procs : ~Running(q))
            /\ ends' = [q \in Procs |-> IF q \in S THEN AllEnds ELSE ends[q]]
  PROVE  PipeBase'
<1>1. /\ \A q \in S : ~Running(q) /\ runs[q] < MaxRuns
      /\ at' = [q \in Procs |-> IF q \in S THEN first ELSE at[q]]
      /\ runs' = [q \in Procs |-> IF q \in S THEN runs[q] + 1 ELSE runs[q]]
      /\ UNCHANGED <<kind, waits, name, data, todo>>
  BY DEF Start
<1>2. runs' \in [Procs -> 0 .. MaxRuns]
  <2>1. ASSUME NEW q \in S PROVE runs[q] + 1 \in 0 .. MaxRuns
    BY <1>1, SizesAssumption DEF PipeBase, PipeShape
  <2> QED BY <1>1, <2>1 DEF PipeBase, PipeShape
<1>3. asked' \in Paths /\ printed' \in Seq(Things)
  <2>1. <<>> \in Seq(Things) OBVIOUS
  <2> QED BY <2>1 DEF Start, PipeBase, PipeShape, Paths
<1>4. AllEnds \subseteq End BY DEF AllEnds, End, FIFO1, FIFO2, Pipes, Modes
<1>5. ends' \in [Procs -> SUBSET End] BY <1>4 DEF PipeBase, PipeShape
<1>6. started' \subseteq Procs /\ S \subseteq started' BY DEF Start, PipeBase, PipeShape
<1>7. twice' \in BOOLEAN
  <2>1. twice' = (~Quiet /\ (twice \/ S \cap started # {})) BY DEF Start
  <2> QED BY <2>1, Zenon
<1>8. PipeShape' BY <1>1, <1>2, <1>3, <1>5, <1>6, <1>7 DEF PipeBase, PipeShape
<1>9. \A q \in Procs : ~Running(q) => at[q] \in Ended BY DEF Running, Ended
<1>10. \A q \in Procs : ~Running(q) => ends[q] = {} /\ waits[q] = <<>>
  BY <1>9 DEF PipeBase, EndsOK, WaitsOK
<1>11. started \subseteq started' \/ \A q \in Procs : ~Running(q) BY DEF Start, Quiet
<1>12. \A q \in Procs : Running(q)' => q \in started'
  BY <1>1, <1>6, <1>11 DEF PipeBase, PlacesOK, Running
<1>13. PlacesOK' BY <1>1, <1>9, <1>12 DEF PipeBase, PlacesOK, Procs, Ended, Places
<1>14. WaitsOK' BY <1>1, <1>10 DEF PipeBase, WaitsOK
<1>15. EndsOK' BY <1>1, <1>9, <1>10 DEF PipeBase, EndsOK, PlacesOK, Procs, Ended, Places
<1>16. NamesOK'
  <2>1. CASE kind = "fifo" BY <2>1, <1>1 DEF PipeBase, NamesOK
  <2>2. CASE kind = "pipe"
    <3>1. name'[FIFO1] = NoPipe /\ name'[FIFO2] = NoPipe BY <1>1, <2>2 DEF PipeBase, PlacesOK
    <3> QED BY <1>5, <3>1 DEF NamesOK, Procs, End, Pipes, NoPipe
  <2> QED BY <2>1, <2>2
<1>17. RoomOK'
  <2>1. \A q \in Procs : ends[q] \subseteq ends'[q] BY <1>10, <1>1 DEF PipeBase, PipeShape
  <2> QED BY <1>1, <2>1 DEF PipeBase, RoomOK
<1> QED BY <1>8, <1>13, <1>14, <1>15, <1>16, <1>17 DEF PipeBase

\* A descriptor is an end the process has open, or -1 if it has none.
LEMMA FdEnd ==
  ASSUME PipeBase, NEW p \in Procs, NEW mode \in Modes
  PROVE  \/ Fd(p, mode) = NoPipe /\ \A i \in Pipes : <<i, mode>> \notin ends[p]
         \/ Fd(p, mode) \in Pipes /\ <<Fd(p, mode), mode>> \in ends[p]
<1>1. CASE \E i \in Pipes : <<i, mode>> \in ends[p] BY <1>1 DEF Fd
<1>2. CASE ~\E i \in Pipes : <<i, mode>> \in ends[p] BY <1>2 DEF Fd
<1> QED BY <1>1, <1>2

\* There is only one that it can be.
LEMMA FdIs ==
  ASSUME PipeBase, NEW p \in Procs, NEW mode \in Modes, NEW i \in Pipes, <<i, mode>> \in ends[p],
         at[p] # "close"
  PROVE  Fd(p, mode) = i
<1>1. Fd(p, mode) \in Pipes /\ <<Fd(p, mode), mode>> \in ends[p] BY FdEnd
<1> QED BY <1>1 DEF PipeBase, EndsOK

\* What is in one pipe changes.
LEMMA PutRoom ==
  ASSUME PipeBase, NEW i \in Pipes, NEW s \in Seq(Things), Len(s) <= PipeSize,
         s = <<>> \/ (\E q \in Procs, m \in Modes : <<i, m>> \in ends[q]),
         data' = [data EXCEPT ![i] = s], UNCHANGED ends
  PROVE  data' \in [Pipes -> Seq(Things)] /\ RoomOK'
<1>1. data' \in [Pipes -> Seq(Things)] BY DEF PipeBase, PipeShape
<1>2. data'[i] = s /\ \A j \in Pipes : j # i => data'[j] = data[j] BY DEF PipeBase, PipeShape
<1>3. \A j \in Pipes : Len(data'[j]) <= PipeSize BY <1>2 DEF PipeBase, RoomOK
<1>4. \A j \in Pipes : (\A q \in Procs, m \in Modes : <<j, m>> \notin ends'[q]) => data'[j] = <<>>
  BY <1>2 DEF PipeBase, RoomOK
<1> QED BY <1>1, <1>3, <1>4 DEF RoomOK

\* Nothing is written or read.
LEMMA SameRoom ==
  ASSUME PipeBase, UNCHANGED <<data, ends>> PROVE data' \in [Pipes -> Seq(Things)] /\ RoomOK'
  BY DEF PipeBase, PipeShape, RoomOK

\* The steps that read and write: what they put into a pipe fits.
LEMMA ReadPathBase == ASSUME PipeBase, ReadPath PROVE PipeBase'
<1> DEFINE i == Fd("server", "r")
<1>0. "server" \in Procs /\ "r" \in Modes BY DEF Procs, Modes
<1>1. i = NoPipe \/ i \in Pipes BY <1>0, FdEnd
<1>2. data' \in [Pipes -> Seq(Things)] /\ RoomOK'
  <2>1. CASE i = NoPipe
    <3>1. UNCHANGED <<data, ends>> BY <2>1 DEF ReadPath
    <3> QED BY <3>1, SameRoom
  <2>2. CASE i \in Pipes /\ i # NoPipe
    <3>1. data' = [data EXCEPT ![i] = <<>>] /\ UNCHANGED ends BY <2>2 DEF ReadPath
    <3>2. <<>> \in Seq(Things) /\ Len(<<>>) <= PipeSize BY SizesAssumption
    <3> QED BY <2>2, <3>1, <3>2, PutRoom
  <2> QED BY <1>1, <2>1, <2>2
<1>3. todo' \in Seq(Things) BY ReplyThings DEF ReadPath
<1>4. /\ at["server"] = "read" /\ at' = [at EXCEPT !["server"] = "send"]
      /\ UNCHANGED <<kind, runs, started, twice, faulty, ends, waits, name, asked, printed>>
  BY DEF ReadPath, Goto
<1>5. asked' \in Paths /\ printed' \in Seq(Things) /\ faulty' \in BOOLEAN BY <1>4 DEF PipeBase, PipeShape
<1> QED BY <1>0, <1>2, <1>3, <1>4, <1>5, DataStep

\* The server writes a part of the reply.
LEMMA SendBase == ASSUME PipeBase, Send PROVE PipeBase'
<1> DEFINE i == Fd("server", "w")
<1>0. "server" \in Procs /\ "w" \in Modes BY DEF Procs, Modes
<1>1. i = NoPipe \/ (i \in Pipes /\ <<i, "w">> \in ends["server"]) BY <1>0, FdEnd
<1>6. todo \in Seq(Things) /\ todo # <<>> BY DEF Send, PipeBase, PipeShape
<1>7. Head(todo) \in Things /\ Tail(todo) \in Seq(Things) BY <1>6, HeadTailProperties
<1>2. data' \in [Pipes -> Seq(Things)] /\ RoomOK'
  <2>1. CASE i = NoPipe
    <3>1. UNCHANGED <<data, ends>> BY <2>1 DEF Send
    <3> QED BY <3>1, SameRoom
  <2>2. CASE i \in Pipes /\ i # NoPipe
    <3>1. data' = [data EXCEPT ![i] = Append(data[i], Head(todo))] /\ UNCHANGED ends BY <2>2 DEF Send
    <3>2. data[i] \in Seq(Things) /\ Len(data[i]) < PipeSize BY <2>2 DEF PipeBase, PipeShape, Send
    <3>3. Append(data[i], Head(todo)) \in Seq(Things) /\ Len(Append(data[i], Head(todo))) = Len(data[i]) + 1
      BY <1>7, <3>2, AppendProperties
    <3>4. Len(Append(data[i], Head(todo))) <= PipeSize BY <3>2, <3>3, SizesAssumption, LenProperties
    <3>5. \E q \in Procs, m \in Modes : <<i, m>> \in ends[q] BY <1>0, <1>1, <2>2
    <3> HIDE DEF i
    <3> QED BY <2>2, <3>1, <3>3, <3>4, <3>5, PutRoom
  <2> QED BY <1>1, <2>1, <2>2
<1>3. todo' \in Seq(Things) BY <1>7 DEF Send
<1>4. /\ at["server"] = "send" /\ at' = [at EXCEPT !["server"] = "send"]
      /\ UNCHANGED <<kind, runs, started, twice, faulty, ends, waits, name, asked, printed>>
  BY DEF Send, Goto
<1>5. asked' \in Paths /\ printed' \in Seq(Things) /\ faulty' \in BOOLEAN BY <1>4 DEF PipeBase, PipeShape
<1> QED BY <1>0, <1>2, <1>3, <1>4, <1>5, DataStep

\* The client writes a path.
LEMMA AskBase == ASSUME PipeBase, Ask PROVE PipeBase'
<1> DEFINE i == Fd("client", "w")
<1>0. "client" \in Procs /\ "w" \in Modes BY DEF Procs, Modes
<1>1. i = NoPipe \/ (i \in Pipes /\ <<i, "w">> \in ends["client"]) BY <1>0, FdEnd
<1>2. PICK path \in Paths :
         /\ asked' = path
         /\ IF path = "" \/ i = NoPipe THEN UNCHANGED data
            ELSE HasEnd(i, "r") /\ Len(data[i]) < PipeSize /\ data' = [data EXCEPT ![i] = Append(@, path)]
  BY DEF Ask
<1>3. data' \in [Pipes -> Seq(Things)] /\ RoomOK'
  <2>1. CASE path = "" \/ i = NoPipe
    <3>1. UNCHANGED <<data, ends>> BY <1>2, <2>1 DEF Ask
    <3> QED BY <3>1, SameRoom
  <2>2. CASE path # "" /\ i \in Pipes /\ i # NoPipe
    <3>1. data' = [data EXCEPT ![i] = Append(data[i], path)] /\ UNCHANGED ends BY <1>2, <2>2 DEF Ask
    <3>2. data[i] \in Seq(Things) /\ Len(data[i]) < PipeSize BY <1>2, <2>2 DEF PipeBase, PipeShape
    <3>6. path \in Things BY DEF Things
    <3>3. Append(data[i], path) \in Seq(Things) /\ Len(Append(data[i], path)) = Len(data[i]) + 1
      BY <3>2, <3>6, AppendProperties
    <3>4. Len(Append(data[i], path)) <= PipeSize BY <3>2, <3>3, SizesAssumption, LenProperties
    <3>5. \E q \in Procs, m \in Modes : <<i, m>> \in ends[q] BY <1>0, <1>1, <2>2
    <3> HIDE DEF i
    <3> QED BY <2>2, <3>1, <3>3, <3>4, <3>5, PutRoom
  <2> QED BY <1>1, <2>1, <2>2
<1>4. /\ at["client"] = "ask" /\ at' = [at EXCEPT !["client"] = "show"]
      /\ UNCHANGED <<kind, runs, started, twice, faulty, ends, waits, name, printed, todo>>
  BY DEF Ask, Goto
<1>5. asked' \in Paths /\ printed' \in Seq(Things) /\ todo' \in Seq(Things) /\ faulty' \in BOOLEAN
  BY <1>2, <1>4 DEF PipeBase, PipeShape
<1> QED BY <1>0, <1>3, <1>4, <1>5, DataStep

\* The client reads a part of the reply.
LEMMA ShowBase == ASSUME PipeBase, Show PROVE PipeBase'
<1> DEFINE i == Fd("client", "r")
<1>0. "client" \in Procs /\ "r" \in Modes BY DEF Procs, Modes
<1>1. i \in Pipes /\ <<i, "r">> \in ends["client"] BY <1>0, FdEnd DEF Show
<1>6. data[i] \in Seq(Things) /\ data[i] # <<>> /\ Len(data[i]) <= PipeSize /\ printed \in Seq(Things)
  BY <1>1 DEF Show, PipeBase, PipeShape, RoomOK
<1>7. Head(data[i]) \in Things /\ Tail(data[i]) \in Seq(Things) /\ Len(Tail(data[i])) = Len(data[i]) - 1
  BY <1>6, HeadTailProperties
<1>2. data' \in [Pipes -> Seq(Things)] /\ RoomOK'
  <2>1. data' = [data EXCEPT ![i] = Tail(data[i])] /\ UNCHANGED ends BY DEF Show
  <2>2. Len(Tail(data[i])) <= PipeSize BY <1>6, <1>7, SizesAssumption, LenProperties
  <2>3. \E q \in Procs, m \in Modes : <<i, m>> \in ends[q] BY <1>0, <1>1
  <2> HIDE DEF i
  <2> QED BY <1>1, <1>7, <2>1, <2>2, <2>3, PutRoom
<1>3. printed' \in Seq(Things) BY <1>6, <1>7, AppendProperties DEF Show
<1>4. /\ at["client"] = "show" /\ at' = [at EXCEPT !["client"] = "show"]
      /\ UNCHANGED <<kind, runs, started, twice, faulty, ends, waits, name, asked, todo>>
  BY DEF Show, Goto
<1>5. asked' \in Paths /\ todo' \in Seq(Things) /\ faulty' \in BOOLEAN BY <1>4 DEF PipeBase, PipeShape
<1> QED BY <1>0, <1>2, <1>3, <1>4, <1>5, DataStep

\* The end of the output, for either kind.
LEMMA ShowEndsBase == ASSUME PipeBase, ShowEnds PROVE PipeBase'
<1>0. "client" \in Procs /\ kind \in {"fifo", "pipe"} BY KindsAssumption DEF Procs, PipeBase, PipeShape
<1>1. faulty' \in BOOLEAN /\ asked' \in Paths /\ todo' \in Seq(Things) /\ printed' \in Seq(Things)
  BY DEF ShowEnds, Goto, PipeBase, PipeShape
<1>2. CASE kind = "fifo"
  <2>1. waits' = [waits EXCEPT !["client"] = <<>>] BY DEF ShowEnds, Goto, PipeBase, WaitsOK
  <2>2. /\ at["client"] = "show" /\ at' = [at EXCEPT !["client"] = "unlink1"]
        /\ CloseEnds("client", ends["client"])
        /\ UNCHANGED <<kind, runs, started, twice, name, asked, printed, todo>>
    BY <1>2 DEF ShowEnds, Goto
  <2>3. Running("client") BY <2>2 DEF Running
  <2> QED BY <1>0, <1>1, <1>2, <2>1, <2>2, <2>3, StopStep
<1>3. CASE kind = "pipe"
  <2>1. /\ at["client"] = "show" /\ at' = [at EXCEPT !["client"] = "waitpid"]
        /\ UNCHANGED <<kind, runs, started, twice, ends, waits, name, data>>
    BY <1>3 DEF ShowEnds, Goto
  <2>2. data' \in [Pipes -> Seq(Things)] /\ RoomOK' BY <2>1, SameRoom
  <2> QED BY <1>0, <1>1, <1>3, <2>1, <2>2, DataStep
<1> QED BY <1>0, <1>2, <1>3

\* What goes wrong keeps the base.
LEMMA FaultBase ==
  ASSUME PipeBase, FileReadFails \/ \E p \in Procs : Kill(p) \/ MkfifoFails(p) PROVE PipeBase'
<1>0. faulty' \in BOOLEAN BY DEF FileReadFails, Kill, MkfifoFails, Fault
<1>1. CASE FileReadFails
  <2>0. at \in [Procs -> Places]
    BY DEF PipeBase, PlacesOK
  <2>1. /\ at["server"] = "send" /\ at' = [at EXCEPT !["server"] = "send"]
        /\ UNCHANGED <<kind, runs, started, twice, ends, waits, name, data, asked, printed>>
    BY <1>1, <2>0 DEF FileReadFails
  <2>2. data' \in [Pipes -> Seq(Things)] /\ RoomOK' BY <2>1, SameRoom
  <2>3. <<>> \in Seq(Things) OBVIOUS
  <2>4. todo' \in Seq(Things) BY <1>1, <2>3 DEF FileReadFails
  <2>5. asked' \in Paths /\ printed' \in Seq(Things) BY <2>1 DEF PipeBase, PipeShape
  <2>6. "server" \in Procs BY DEF Procs
  <2> QED BY <1>0, <2>1, <2>2, <2>4, <2>5, <2>6, DataStep
<1>2. ASSUME NEW p \in Procs, Kill(p) PROVE PipeBase'
  <2>1. "killed" \in Ended BY DEF Ended
  <2> QED BY <1>0, <1>2, <2>1, StopStep DEF Kill
<1>3. ASSUME NEW p \in Procs, MkfifoFails(p) PROVE PipeBase'
  <2>1. kind = "fifo" BY <1>3, KindsAssumption
        DEF MkfifoFails, PipeBase, PipeShape, PlacesOK, Procs, Ended, Places
  <2> QED BY <1>0, <1>3, <2>1, UnlinkStep DEF MkfifoFails
<1> QED BY <1>1, <1>2, <1>3

\* Starting programs keeps the base.
LEMMA StartBase ==
  ASSUME PipeBase, StartPipe \/ ForkFails \/ \E p \in Procs : StartFifo(p) PROVE PipeBase'
<1>1. CASE StartPipe
  <2>1. ends' = [q \in Procs |-> IF q \in Procs THEN AllEnds ELSE ends[q]] BY <1>1 DEF StartPipe
  <2>2. \A q \in Procs : ~Running(q) BY <1>1 DEF StartPipe, Start
  <2>3. faulty' \in BOOLEAN BY <1>1 DEF StartPipe
  <2> QED BY <1>1, <2>1, <2>2, <2>3, StartStep DEF StartPipe
<1>2. CASE ForkFails
  <2>1. ends' = [q \in Procs |-> IF q \in {"client"} THEN AllEnds ELSE ends[q]]
    BY <1>2 DEF ForkFails, PipeBase, PipeShape
  <2>2. \A q \in Procs : ~Running(q) BY <1>2 DEF ForkFails, Quiet
  <2>3. faulty' \in BOOLEAN BY <1>2 DEF ForkFails, Fault
  <2>4. {"client"} \in SUBSET Procs BY DEF Procs
  <2> QED BY <1>2, <2>1, <2>2, <2>3, <2>4, StartStep DEF ForkFails
<1>3. ASSUME NEW p \in Procs, StartFifo(p) PROVE PipeBase'
  <2>1. faulty' = (faulty /\ ~Quiet) BY <1>3 DEF StartFifo
  <2>2. faulty' \in BOOLEAN BY <2>1, Zenon
  <2> QED BY <1>3, <2>2, StartStep DEF StartFifo
<1> QED BY <1>1, <1>2, <1>3

\* Every step of the server keeps the base ...
LEMMA ServerBase == ASSUME PipeBase, server PROVE PipeBase'
<1>0. "server" \in Procs /\ FIFO1 \in {FIFO1, FIFO2} /\ FIFO2 \in {FIFO1, FIFO2}
      /\ Ended = {"off", "exit0", "exit-1", "killed"}
      /\ kind \in {"fifo", "pipe"} /\ "r" \in Modes /\ "w" \in Modes
  BY KindsAssumption DEF Procs, Ended, PipeBase, PipeShape, Modes
<1>1. CASE ServerMkfifo
  <2>1. kind = "fifo" BY <1>0, <1>1 DEF ServerMkfifo, Mkfifo, Goto, PipeBase, PlacesOK
  <2>2. CASE Mkfifo("server", FIFO1, "mkfifo1", "mkfifo2") BY <1>0, <2>1, <2>2, MkfifoStep
  <2>3. CASE Mkfifo("server", FIFO2, "mkfifo2", "open1") BY <1>0, <2>1, <2>3, MkfifoStep
  <2> QED BY <1>1, <2>2, <2>3 DEF ServerMkfifo
<1>2. CASE ServerOpen
  <2>1. kind = "fifo" BY <1>0, <1>2 DEF ServerOpen, Open, Goto, PipeBase, PlacesOK
  <2>2. CASE Open("server", FIFO1, "r", "open1", "open2") BY <1>0, <2>1, <2>2, OpenStep
  <2>3. CASE Open("server", FIFO2, "w", "open2", "read") BY <1>0, <2>1, <2>3, OpenStep
  <2> QED BY <1>2, <2>2, <2>3 DEF ServerOpen
<1>3. CASE ChildClose BY <1>3, ForkedClose
<1>4. CASE ReadPath BY <1>4, ReadPathBase
<1>5. CASE Send BY <1>5, SendBase
<1>6. CASE NoFilePath BY <1>0, <1>6, ExitStep DEF NoFilePath
<1>7. CASE ServerSigpipe BY <1>0, <1>7, ExitStep DEF ServerSigpipe
<1>8. CASE ServerExit BY <1>0, <1>8, ExitStep DEF ServerExit
<1> QED BY <1>1, <1>2, <1>3, <1>4, <1>5, <1>6, <1>7, <1>8 DEF server

\* ... and every step of the client ...
LEMMA ClientBase == ASSUME PipeBase, fileClient PROVE PipeBase'
<1>0. "client" \in Procs /\ FIFO1 \in {FIFO1, FIFO2} /\ FIFO2 \in {FIFO1, FIFO2}
      /\ Ended = {"off", "exit0", "exit-1", "killed"}
      /\ kind \in {"fifo", "pipe"} /\ "r" \in Modes /\ "w" \in Modes
  BY KindsAssumption DEF Procs, Ended, PipeBase, PipeShape, Modes
<1>1. CASE ClientMkfifo
  <2>1. kind = "fifo" BY <1>0, <1>1 DEF ClientMkfifo, Mkfifo, Goto, PipeBase, PlacesOK
  <2>2. CASE Mkfifo("client", FIFO1, "mkfifo1", "mkfifo2") BY <1>0, <2>1, <2>2, MkfifoStep
  <2>3. CASE Mkfifo("client", FIFO2, "mkfifo2", "open1") BY <1>0, <2>1, <2>3, MkfifoStep
  <2> QED BY <1>1, <2>2, <2>3 DEF ClientMkfifo
<1>2. CASE ClientOpen
  <2>1. kind = "fifo" BY <1>0, <1>2 DEF ClientOpen, Open, Goto, PipeBase, PlacesOK
  <2>2. CASE Open("client", FIFO1, "w", "open1", "open2") BY <1>0, <2>1, <2>2, OpenStep
  <2>3. CASE Open("client", FIFO2, "r", "open2", "ask") BY <1>0, <2>1, <2>3, OpenStep
  <2> QED BY <1>2, <2>2, <2>3 DEF ClientOpen
<1>3. CASE ParentClose BY <1>3, ForkedClose
<1>4. CASE Ask BY <1>4, AskBase
<1>5. CASE Show BY <1>5, ShowBase
<1>6. CASE ShowEnds BY <1>6, ShowEndsBase
<1>7. CASE ClientSigpipe BY <1>0, <1>7, ExitStep DEF ClientSigpipe
<1>8. CASE ParentWait BY <1>0, <1>8, ExitStep DEF ParentWait
<1>9. CASE ClientUnlink
  <2>1. kind = "fifo" BY <1>0, <1>9 DEF ClientUnlink, Unlink, Goto, PipeBase, PlacesOK
  <2>2. faulty' \in BOOLEAN BY <1>9 DEF ClientUnlink, Unlink, Goto, PipeBase, PipeShape
  <2> QED BY <1>0, <1>9, <2>1, <2>2, UnlinkStep DEF ClientUnlink, Unlink, Goto
<1> QED BY <1>1, <1>2, <1>3, <1>4, <1>5, <1>6, <1>7, <1>8, <1>9 DEF fileClient

\* ... and so does every step.
LEMMA BaseNext == ASSUME PipeBase, [PipeNext]_pipeVars PROVE PipeBase'
<1>1. CASE UNCHANGED pipeVars
  BY <1>1 DEF pipeVars, PipeBase, PipeShape, PlacesOK, WaitsOK, EndsOK, NamesOK, RoomOK, Running
<1> QED BY <1>1, ServerBase, ClientBase, StartBase, FaultBase DEF PipeNext

\* Every variable of the file server over pipes and of its client keeps its
\* type, whatever is killed or fails: once Pipe.c has closed the ends it does not
\* need, a process has at most one end of each kind open, a name never refers to
\* a pipe that is in use under the other name, and a pipe holds at most PipeSize
\* writes. For any file and any sizes.
THEOREM PipeTypeCorrect == PipeSpec => []PipeTypeOK
<1>1. PipeBase /\ [PipeNext]_pipeVars => PipeBase' BY BaseNext
<1> QED BY BaseInit, BaseTyped, <1>1, PTL DEF PipeSpec
-----------------------------------------------------------------------------
(* Without a fault *)

\* p, then q, then r are the whole of R.
Carries(p, q, r, R) ==
    /\ Len(p) + Len(q) + Len(r) = Len(R)
    /\ \A k \in 1 .. Len(p) : p[k] = R[k]
    /\ \A k \in 1 .. Len(q) : q[k] = R[Len(p) + k]
    /\ \A k \in 1 .. Len(r) : r[k] = R[Len(p) + Len(q) + k]

\* The client has asked over pipe x and waits for the reply on pipe y: the path
\* is under way, or the reply is, or a server has sent all of it.
Talk(x, y) ==
    \/ /\ at["server"] \in {"close", "read"} /\ printed = <<>>
       /\ data[x] = (IF asked = "" THEN <<>> ELSE <<asked>>) /\ data[y] = <<>>
    \/ /\ at["server"] = "send" /\ data[x] = <<>>
       /\ Carries(printed, data[y], todo, Reply(asked))
    \/ /\ ~Running("server") \/ (twice /\ at["server"] # "send")
       /\ data[x] = <<>> /\ Carries(printed, data[y], <<>>, Reply(asked))

Shown == printed = Reply(asked)
Empty == \A i \in Pipes : data[i] = <<>>

\* A client that has not asked has printed nothing.
FreshOK == at["client"] \in {"mkfifo1", "mkfifo2", "open1", "open2", "close", "ask"} => printed = <<>>

\* FIFOs: the names are there from mkfifo on, and the client opens both.
NamedOK ==
    /\ at["client"] \in {"mkfifo2", "open1", "open2", "ask", "show"} => name[FIFO1] # NoPipe
    /\ at["client"] \in {"open1", "open2", "ask", "show"} => name[FIFO2] # NoPipe
    /\ at["client"] = "open2" => ends["client"] = {<<name[FIFO1], "w">>}
    /\ at["client"] \in {"ask", "show"} => ends["client"] = {<<name[FIFO1], "w">>, <<name[FIFO2], "r">>}

One == {<<name[FIFO1], "r">>}
Both == {<<name[FIFO1], "r">>, <<name[FIFO2], "w">>}

\* The server and the client open the FIFOs together, one after the other.
MeetOK ==
    /\ <<name[FIFO1], "r">> \in ends["server"] /\ at["client"] \notin {"open2", "ask", "show", "unlink1"} =>
         at["server"] = "open2" /\ waits["server"] = <<name[FIFO1], "r">>
    /\ at["client"] = "open2" /\ waits["client"] # <<>> => <<name[FIFO1], "r">> \notin ends["server"]
    /\ at["client"] = "open2" /\ waits["client"] = <<>> =>
         \/ at["server"] = "open2" /\ ends["server"] = One /\ waits["server"] = <<>>
         \/ at["server"] = "read" /\ ends["server"] = Both /\ waits["server"] = <<name[FIFO2], "w">>
    /\ at["client"] = "ask" =>
         /\ waits["server"] = <<>>
         /\ \/ waits["client"] = <<name[FIFO2], "r">> /\ at["server"] = "open2" /\ ends["server"] = One
            \/ waits["client"] = <<>> /\ at["server"] = "read" /\ ends["server"] = Both

\* What is in the FIFOs is part of the exchange, and nothing stays behind.
AnswerOK ==
    /\ at["client"] = "show" =>
         /\ waits["server"] = <<>> /\ waits["client"] = <<>>
         /\ at["server"] = "open2" => ends["server"] = One
         /\ at["server"] \in {"read", "send"} => ends["server"] = Both
         /\ Talk(name[FIFO1], name[FIFO2])
         /\ \A i \in Pipes : i # name[FIFO1] /\ i # name[FIFO2] => data[i] = <<>>
    /\ at["client"] # "show" => Empty

\* A client that has ended, or is about to.
Leaving == at["client"] \in {"unlink1", "unlink2"} \/ (at["client"] = "exit0" /\ "client" \in started)
AfterOK ==
    /\ at["client"] \in {"ask", "show"} \/ Leaving => "server" \in started
    /\ Leaving => Shown /\ (twice \/ ~Running("server"))
    /\ at["client"] = "unlink2" => twice \/ name[FIFO1] = NoPipe
    /\ at["client"] = "exit0" /\ "client" \in started => twice
       \/ (name[FIFO1] = NoPipe /\ name[FIFO2] = NoPipe)

FifoOK == NamedOK /\ MeetOK /\ AnswerOK /\ AfterOK

\* Pipe.c: the two processes have the pipes to themselves.
TwoPipesOK ==
    /\ ~twice
    /\ at["client"] \in {"close", "ask"} => at["server"] \in {"close", "read"} /\ Empty
    /\ at["client"] = "show" => Talk(FIFO1, FIFO2)
    /\ at["client"] = "waitpid" \/ (at["client"] = "exit0" /\ "client" \in started) => Shown
       /\ ~Running("server")

FaultlessOK == ~faulty => (kind = "fifo" => FifoOK) /\ (kind = "pipe" => TwoPipesOK)
PipeInv == PipeBase /\ FreshOK /\ FaultlessOK
\* The reply moves from the server through the pipe to the terminal.
LEMMA CarriesStart == ASSUME NEW R \in Seq(Things) PROVE Carries(<<>>, <<>>, R, R)
  BY LenProperties DEF Carries

\* The server sends the next part.
LEMMA CarriesSend ==
  ASSUME NEW p \in Seq(Things), NEW q \in Seq(Things), NEW r \in Seq(Things), NEW R \in Seq(Things),
         Carries(p, q, r, R), r # <<>>
  PROVE  Carries(p, Append(q, Head(r)), Tail(r), R)
<1>1. /\ Len(p) \in Nat /\ Len(q) \in Nat /\ Len(r) \in Nat /\ Len(R) \in Nat BY LenProperties
<1>2. /\ Head(r) = r[1] /\ Len(r) # 0 /\ Len(Tail(r)) = Len(r) - 1
      /\ \A k \in 1 .. Len(Tail(r)) : Tail(r)[k] = r[k + 1]
  BY HeadTailProperties, EmptySeq
<1>3. /\ Len(Append(q, Head(r))) = Len(q) + 1
      /\ \A k \in 1 .. Len(q) : Append(q, Head(r))[k] = q[k]
      /\ Append(q, Head(r))[Len(q) + 1] = Head(r)
  BY AppendProperties
<1>4. Len(p) + Len(Append(q, Head(r))) + Len(Tail(r)) = Len(R) BY <1>1, <1>2, <1>3 DEF Carries
<1>5. ASSUME NEW k \in 1 .. Len(Append(q, Head(r))) PROVE Append(q, Head(r))[k] = R[Len(p) + k]
  <2>1. CASE k \in 1 .. Len(q) BY <1>1, <1>3, <2>1 DEF Carries
  <2>2. CASE k = Len(q) + 1
    <3>1. r[1] = R[Len(p) + Len(q) + 1] BY <1>1, <1>2 DEF Carries
    <3>2. Len(p) + Len(q) + 1 = Len(p) + k BY <1>1, <2>2
    <3> QED BY <1>2, <1>3, <2>2, <3>1, <3>2
  <2> QED BY <1>1, <1>3, <2>1, <2>2
<1>6. ASSUME NEW k \in 1 .. Len(Tail(r)) PROVE Tail(r)[k] = R[Len(p) + Len(Append(q, Head(r))) + k]
  <2>1. k + 1 \in 1 .. Len(r) BY <1>1, <1>2
  <2>2. r[k + 1] = R[Len(p) + Len(q) + (k + 1)] BY <2>1 DEF Carries
  <2>3. Len(p) + Len(q) + (k + 1) = Len(p) + Len(Append(q, Head(r))) + k BY <1>1, <1>3
  <2> QED BY <1>2, <2>2, <2>3
<1> QED BY <1>4, <1>5, <1>6 DEF Carries

\* The client prints the next part.
LEMMA CarriesShow ==
  ASSUME NEW p \in Seq(Things), NEW q \in Seq(Things), NEW r \in Seq(Things), NEW R \in Seq(Things),
         Carries(p, q, r, R), q # <<>>
  PROVE  Carries(Append(p, Head(q)), Tail(q), r, R)
<1>1. /\ Len(p) \in Nat /\ Len(q) \in Nat /\ Len(r) \in Nat /\ Len(R) \in Nat BY LenProperties
<1>2. /\ Head(q) = q[1] /\ Len(q) # 0 /\ Len(Tail(q)) = Len(q) - 1
      /\ \A k \in 1 .. Len(Tail(q)) : Tail(q)[k] = q[k + 1]
  BY HeadTailProperties, EmptySeq
<1>3. /\ Len(Append(p, Head(q))) = Len(p) + 1
      /\ \A k \in 1 .. Len(p) : Append(p, Head(q))[k] = p[k]
      /\ Append(p, Head(q))[Len(p) + 1] = Head(q)
  BY AppendProperties
<1>4. Len(Append(p, Head(q))) + Len(Tail(q)) + Len(r) = Len(R) BY <1>1, <1>2, <1>3 DEF Carries
<1>5. ASSUME NEW k \in 1 .. Len(Append(p, Head(q))) PROVE Append(p, Head(q))[k] = R[k]
  <2>1. CASE k \in 1 .. Len(p) BY <1>1, <1>3, <2>1 DEF Carries
  <2>2. CASE k = Len(p) + 1
    <3>1. q[1] = R[Len(p) + 1] BY <1>1, <1>2 DEF Carries
    <3> QED BY <1>2, <1>3, <2>2, <3>1
  <2> QED BY <1>1, <1>3, <2>1, <2>2
<1>6. ASSUME NEW k \in 1 .. Len(Tail(q)) PROVE Tail(q)[k] = R[Len(Append(p, Head(q))) + k]
  <2>1. k + 1 \in 1 .. Len(q) BY <1>1, <1>2
  <2>2. q[k + 1] = R[Len(p) + (k + 1)] BY <2>1 DEF Carries
  <2>3. Len(p) + (k + 1) = Len(Append(p, Head(q))) + k BY <1>1, <1>3
  <2> QED BY <1>2, <2>2, <2>3
<1>7. ASSUME NEW k \in 1 .. Len(r) PROVE r[k] = R[Len(Append(p, Head(q))) + Len(Tail(q)) + k]
  <2>1. r[k] = R[Len(p) + Len(q) + k] BY DEF Carries
  <2>2. Len(p) + Len(q) + k = Len(Append(p, Head(q))) + Len(Tail(q)) + k BY <1>1, <1>2, <1>3
  <2> QED BY <2>1, <2>2
<1> QED BY <1>4, <1>5, <1>6, <1>7 DEF Carries

\* Nothing is under way: all of it has been printed.
LEMMA CarriesEnd ==
  ASSUME NEW p \in Seq(Things), NEW R \in Seq(Things), Carries(p, <<>>, <<>>, R) PROVE p = R
<1>1. Len(p) \in Nat /\ Len(R) \in Nat BY LenProperties
<1>2. Len(<<>>) = 0 OBVIOUS
<1>3. Len(p) = Len(R) /\ \A k \in 1 .. Len(p) : p[k] = R[k] BY <1>1, <1>2 DEF Carries
<1> QED BY <1>3, SeqEqual

\* The exchange over two pipes goes on.
LEMMA TalkRead ==
  ASSUME PipeBase, NEW x \in Pipes, NEW y \in Pipes, x # y, Talk(x, y), Fd("server", "r") = x, ReadPath
  PROVE  Talk(x, y)' /\ \A i \in Pipes : i # x => data'[i] = data[i]
<1>1. x # NoPipe BY DEF NoPipe, Pipes
<1>2. /\ at["server"] = "read" /\ at' = [at EXCEPT !["server"] = "send"] /\ data[x] # <<>>
      /\ todo' = (IF Len(data[x]) = 1 THEN Reply(Head(data[x])) ELSE Reply("missing"))
      /\ data' = [data EXCEPT ![x] = <<>>] /\ UNCHANGED <<asked, printed>>
  BY <1>1 DEF ReadPath, Goto
<1>3. data'[x] = <<>> /\ \A i \in Pipes : i # x => data'[i] = data[i] BY <1>2 DEF PipeBase, PipeShape
<1>4. printed = <<>> /\ data[y] = <<>> /\ data[x] = (IF asked = "" THEN <<>> ELSE <<asked>>)
  BY <1>2 DEF Talk, Running
<1>5. data[x] = <<asked>> BY <1>2, <1>4
<1>6. Len(data[x]) = 1 /\ Head(data[x]) = asked BY <1>5
<1>7. todo' = Reply(asked) BY <1>2, <1>6
<1>8. at'["server"] = "send" BY <1>2 DEF PipeBase, PlacesOK, Procs
<1>9. Carries(<<>>, <<>>, Reply(asked), Reply(asked)) BY CarriesStart, ReplyThings
<1>10. printed' = <<>> /\ data'[y] = <<>> /\ asked' = asked BY <1>2, <1>3, <1>4
<1>11. Carries(printed', data'[y], todo', Reply(asked')) BY <1>7, <1>9, <1>10
<1>12. Talk(x, y)' BY <1>3, <1>8, <1>11 DEF Talk, Reply
<1> QED BY <1>3, <1>12

\* The server sends.
LEMMA TalkSend ==
  ASSUME PipeBase, NEW x \in Pipes, NEW y \in Pipes, x # y, Talk(x, y), Fd("server", "w") = y, Send
  PROVE  Talk(x, y)' /\ \A i \in Pipes : i # y => data'[i] = data[i]
<1>1. y # NoPipe BY DEF NoPipe, Pipes
<1>2. /\ at["server"] = "send" /\ at' = [at EXCEPT !["server"] = "send"] /\ todo # <<>>
      /\ todo' = Tail(todo)
      /\ data' = [data EXCEPT ![y] = Append(data[y], Head(todo))] /\ UNCHANGED <<asked, printed>>
  BY <1>1 DEF Send, Goto
<1>3. data'[y] = Append(data[y], Head(todo)) /\ \A i \in Pipes : i # y => data'[i] = data[i]
  BY <1>2 DEF PipeBase, PipeShape
<1>4. data[x] = <<>> /\ Carries(printed, data[y], todo, Reply(asked)) BY <1>2 DEF Talk, Running
<1>5. printed \in Seq(Things) /\ data[y] \in Seq(Things) /\ todo \in Seq(Things)
      /\ Reply(asked) \in Seq(Things)
  BY ReplyThings DEF PipeBase, PipeShape
<1>6. Carries(printed, Append(data[y], Head(todo)), Tail(todo), Reply(asked)) BY <1>2, <1>4, <1>5, CarriesSend
<1>7. Carries(printed', data'[y], todo', Reply(asked')) BY <1>2, <1>3, <1>6
<1>8. at'["server"] = "send" /\ data'[x] = <<>> BY <1>2, <1>3, <1>4 DEF PipeBase, PlacesOK, Procs
<1>9. Talk(x, y)' BY <1>7, <1>8 DEF Talk, Reply
<1> QED BY <1>3, <1>9

\* The client prints.
LEMMA TalkShow ==
  ASSUME PipeBase, NEW x \in Pipes, NEW y \in Pipes, x # y, Talk(x, y), Fd("client", "r") = y, Show
  PROVE  Talk(x, y)' /\ \A i \in Pipes : i # y => data'[i] = data[i]
<1>2. /\ at' = [at EXCEPT !["client"] = "show"] /\ data[y] # <<>>
      /\ printed' = Append(printed, Head(data[y]))
      /\ data' = [data EXCEPT ![y] = Tail(data[y])] /\ UNCHANGED <<asked, todo, twice>>
  BY DEF Show, Goto
<1>3. data'[y] = Tail(data[y]) /\ \A i \in Pipes : i # y => data'[i] = data[i]
  BY <1>2 DEF PipeBase, PipeShape
<1>5. printed \in Seq(Things) /\ data[y] \in Seq(Things) /\ todo \in Seq(Things)
      /\ Reply(asked) \in Seq(Things)
      /\ <<>> \in Seq(Things)
  BY ReplyThings DEF PipeBase, PipeShape
<1>6. at'["server"] = at["server"] BY <1>2 DEF PipeBase, PlacesOK, Procs
<1>7. ASSUME NEW r \in Seq(Things), Carries(printed, data[y], r, Reply(asked))
      PROVE  Carries(printed', data'[y], r, Reply(asked'))
  <2>1. Carries(Append(printed, Head(data[y])), Tail(data[y]), r, Reply(asked)) BY <1>2, <1>5, <1>7,
        CarriesShow
  <2> QED BY <1>2, <1>3, <2>1
<1>8. data'[x] = data[x] BY <1>3
<1>9. CASE at["server"] = "send" /\ data[x] = <<>> /\ Carries(printed, data[y], todo, Reply(asked))
  <2>1. Carries(printed', data'[y], todo', Reply(asked')) BY <1>2, <1>5, <1>7, <1>9
  <2> QED BY <1>3, <1>6, <1>8, <1>9, <2>1 DEF Talk, Reply
<1>10. CASE /\ ~Running("server") \/ (twice /\ at["server"] # "send")
            /\ data[x] = <<>> /\ Carries(printed, data[y], <<>>, Reply(asked))
  <2>1. Carries(printed', data'[y], <<>>, Reply(asked')) BY <1>5, <1>7, <1>10
  <2>2. (~Running("server") \/ (twice /\ at["server"] # "send"))' BY <1>2, <1>6, <1>10 DEF Running
  <2> QED BY <1>3, <1>8, <1>10, <2>1, <2>2 DEF Talk, Reply
<1> QED BY <1>2, <1>9, <1>10 DEF Talk

\* The server ends when it has sent everything.
LEMMA TalkDone ==
  ASSUME PipeBase, NEW x \in Pipes, NEW y \in Pipes, Talk(x, y), at["server"] = "send", todo = <<>>,
         at' = [at EXCEPT !["server"] = "exit0"], UNCHANGED <<asked, printed>>,
         data'[x] = data[x], data'[y] = data[y]
  PROVE  Talk(x, y)'
<1>1. data[x] = <<>> /\ Carries(printed, data[y], <<>>, Reply(asked)) BY DEF Talk, Running
<1>2. Carries(printed', data'[y], <<>>, Reply(asked')) /\ data'[x] = <<>> BY <1>1
<1>3. at'["server"] = "exit0" BY DEF PipeBase, PlacesOK, Procs
<1> QED BY <1>2, <1>3 DEF Talk, Running, Reply

\* The exchange begins.
LEMMA TalkAsk ==
  ASSUME PipeBase, NEW x \in Pipes, NEW y \in Pipes, x # y, at["server"] \in {"close", "read"},
         printed = <<>>, data[x] = <<>>, data[y] = <<>>, Fd("client", "w") = x, Ask
  PROVE  Talk(x, y)' /\ \A i \in Pipes : i # x => data'[i] = data[i]
<1>1. x # NoPipe BY DEF NoPipe, Pipes
<1>2. PICK path \in Paths :
         /\ asked' = path
         /\ IF path = "" THEN UNCHANGED data ELSE data' = [data EXCEPT ![x] = Append(data[x], path)]
  BY <1>1 DEF Ask
<1>3. Append(<<>>, path) = <<path>> OBVIOUS
<1>4. /\ data'[x] = (IF asked' = "" THEN <<>> ELSE <<asked'>>)
      /\ \A i \in Pipes : i # x => data'[i] = data[i]
  BY <1>2, <1>3 DEF PipeBase, PipeShape
<1>5. at'["server"] = at["server"] /\ printed' = <<>> BY DEF Ask, Goto, PipeBase, PlacesOK, Procs
<1> QED BY <1>4, <1>5 DEF Talk

\* The exchange is over when the pipe is empty and the server has left it.
LEMMA TalkOver ==
  ASSUME PipeBase, NEW x \in Pipes, NEW y \in Pipes, Talk(x, y), data[y] = <<>>,
         at["server"] \notin {"close", "read", "send"}
  PROVE  Shown /\ data[x] = <<>> /\ (twice \/ ~Running("server"))
<1>1. /\ twice \/ ~Running("server")
      /\ data[x] = <<>> /\ Carries(printed, <<>>, <<>>, Reply(asked))
  BY DEF Talk
<1>2. printed = Reply(asked) BY <1>1, CarriesEnd, ReplyThings DEF PipeBase, PipeShape
<1> QED BY <1>1, <1>2 DEF Shown

\* A client prints after it has asked.
LEMMA FreshNext == ASSUME PipeBase, FreshOK, [PipeNext]_pipeVars PROVE FreshOK'
<1>0. at \in [Procs -> Places] /\ Procs = {"server", "client"}
  BY DEF PipeBase, PlacesOK, Procs
<1>1. CASE server
  <2>1. printed' = printed /\ \E to : at' = [at EXCEPT !["server"] = to]
    BY <1>1 DEF server, ServerMkfifo, ServerOpen, ChildClose, ReadPath, NoFilePath, Send, ServerSigpipe,
       ServerExit,
       Mkfifo, Open, Exit, Goto
  <2> QED BY <1>0, <2>1 DEF FreshOK
<1>2. CASE ClientMkfifo \/ ClientOpen \/ ParentClose
  <2>1. printed' = printed /\ at["client"] \in {"mkfifo1", "mkfifo2", "open1", "open2", "close"}
    BY <1>2 DEF ClientMkfifo, ClientOpen, ParentClose, Mkfifo, Open, Goto
  <2> QED BY <2>1 DEF FreshOK
<1>3. CASE Ask \/ ClientSigpipe \/ Show \/ ShowEnds \/ ClientUnlink \/ ParentWait
  <2>1. at'["client"] \in {"show", "killed", "unlink1", "unlink2", "waitpid", "exit0"}
    BY <1>0, <1>3 DEF Ask, ClientSigpipe, Show, ShowEnds, ClientUnlink, ParentWait, Unlink, Exit, Goto
  <2> QED BY <2>1 DEF FreshOK
<1>4. CASE StartPipe \/ ForkFails \/ \E p \in Procs : StartFifo(p)
  <2>1. (at'["client"] = at["client"] /\ printed' = printed) \/ printed' = <<>>
    BY <1>0, <1>4 DEF StartPipe, ForkFails, StartFifo, Start
  <2> QED BY <2>1 DEF FreshOK
<1>5. CASE FileReadFails \/ \E p \in Procs : Kill(p) \/ MkfifoFails(p)
  <2>1. printed' = printed /\ (at'["client"] = at["client"] \/ at'["client"] \in {"killed", "exit-1"})
    BY <1>0, <1>5 DEF FileReadFails, Kill, MkfifoFails
  <2> QED BY <2>1 DEF FreshOK
<1>6. CASE UNCHANGED pipeVars BY <1>6 DEF pipeVars, FreshOK
<1> QED BY <1>1, <1>2, <1>3, <1>4, <1>5, <1>6 DEF PipeNext, fileClient

\* Where nobody runs, nothing is open and the pipes are empty.
LEMMA QuietEmpty ==
  ASSUME PipeBase, \A p \in Procs : ~Running(p)
  PROVE  Empty /\ \A p \in Procs : ends[p] = {} /\ waits[p] = <<>>
<1>1. \A p \in Procs : at[p] \in Ended BY DEF Running, Ended
<1>2. \A p \in Procs : ends[p] = {} BY <1>1 DEF PipeBase, EndsOK
<1>3. \A p \in Procs : waits[p] = <<>> BY <1>2 DEF PipeBase, WaitsOK
<1>4. Empty BY <1>2 DEF PipeBase, RoomOK, Empty
<1> QED BY <1>2, <1>3, <1>4

-----------------------------------------------------------------------------
(* Pipe.c *)

\* Pipe.c starts with empty pipes.
LEMMA TwoPipesStart == ASSUME PipeBase, StartPipe PROVE TwoPipesOK'
<1>1. \A p \in Procs : ~Running(p) BY DEF StartPipe, Start
<1>2. Empty BY <1>1, QuietEmpty
<1>3. data' = data /\ at'["client"] = "close" /\ at'["server"] = "close"
  BY DEF StartPipe, Start, Procs
<1>4. ~twice'
  <2>1. Quiet BY <1>1 DEF Quiet
  <2>2. twice' = (~Quiet /\ (twice \/ Procs \cap started # {})) BY DEF StartPipe, Start
  <2> QED BY <2>1, <2>2
<1> QED BY <1>2, <1>3, <1>4 DEF TwoPipesOK, Empty

\* The ends of each process while it is at work.
LEMMA TwoPipesEnds ==
  ASSUME PipeBase, kind = "pipe"
  PROVE  /\ at["server"] \in {"read", "send"} => Fd("server", "r") = FIFO1 /\ Fd("server", "w") = FIFO2
         /\ at["client"] \in {"ask", "show"} => Fd("client", "w") = FIFO1 /\ Fd("client", "r") = FIFO2
         /\ at["server"] \in {"close", "read", "send"} => HasEnd(FIFO1, "r") /\ HasEnd(FIFO2, "w")
         /\ at["client"] \in {"close", "ask", "show"} => HasEnd(FIFO1, "w") /\ HasEnd(FIFO2, "r")
         /\ ~Running("server") \/ at["server"] \in {"close", "read", "send"}
<1>0. /\ "server" \in Procs /\ "client" \in Procs /\ "r" \in Modes /\ "w" \in Modes
      /\ FIFO1 \in Pipes /\ FIFO2 \in Pipes
  BY DEF Procs, Modes, Pipes, FIFO1, FIFO2
<1>1. /\ at["server"] \in {"read", "send"} => ends["server"] = {<<FIFO1, "r">>, <<FIFO2, "w">>}
      /\ at["client"] \in {"ask", "show"} => ends["client"] = {<<FIFO1, "w">>, <<FIFO2, "r">>}
      /\ at["server"] = "close" => ends["server"] = AllEnds
      /\ at["client"] = "close" => ends["client"] = AllEnds
  BY <1>0 DEF PipeBase, EndsOK
<1>2. at["server"] \in {"read", "send"} => Fd("server", "r") = FIFO1 /\ Fd("server", "w") = FIFO2
  BY <1>0, <1>1, FdIs
<1>3. at["client"] \in {"ask", "show"} => Fd("client", "w") = FIFO1 /\ Fd("client", "r") = FIFO2
  BY <1>0, <1>1, FdIs
<1>4. /\ at["server"] \in {"close", "read", "send"} => HasEnd(FIFO1, "r") /\ HasEnd(FIFO2, "w")
      /\ at["client"] \in {"close", "ask", "show"} => HasEnd(FIFO1, "w") /\ HasEnd(FIFO2, "r")
  BY <1>0, <1>1 DEF HasEnd, AllEnds
<1>5. ~Running("server") \/ at["server"] \in {"close", "read", "send"}
  BY DEF PipeBase, PlacesOK, Running, Ended
<1> QED BY <1>2, <1>3, <1>4, <1>5

\* The child's steps: it reads the path that the parent wrote, and is not
\* stopped by SIGPIPE or an end of file.
LEMMA TwoPipesServer == ASSUME PipeBase, kind = "pipe", TwoPipesOK, server PROVE TwoPipesOK'
<1>0. /\ "server" \in Procs /\ "client" \in Procs /\ "r" \in Modes /\ "w" \in Modes
      /\ Procs = {"server", "client"}
      /\ FIFO1 \in Pipes /\ FIFO2 \in Pipes /\ FIFO1 # FIFO2
  BY DEF Procs, Modes, Pipes, FIFO1, FIFO2
<1>1. /\ at["server"] \notin {"mkfifo1", "mkfifo2", "open1", "open2"} /\ at \in [Procs -> Places]
  BY DEF PipeBase, PlacesOK, Ended
<1>2. ~ServerMkfifo /\ ~ServerOpen BY <1>1 DEF ServerMkfifo, ServerOpen, Mkfifo, Open, Goto
<1>3. /\ at'["client"] = at["client"] /\ UNCHANGED <<twice, started, asked, printed>> /\ Running("server")
  BY <1>0, <1>1, <1>2 DEF server, ChildClose, ReadPath, NoFilePath, Send, ServerSigpipe, ServerExit, Exit,
     Goto, Running
<1>4. at["client"] # "waitpid" /\ ~(at["client"] = "exit0" /\ "client" \in started) BY <1>3 DEF TwoPipesOK
<1>5. CASE at["client"] \in {"close", "ask"}
  <2>1. at["server"] \in {"close", "read"} /\ Empty BY <1>5 DEF TwoPipesOK
  <2>2. ~ReadPath /\ ~NoFilePath /\ ~Send /\ ~ServerSigpipe /\ ~ServerExit
    <3>1. ~ReadPath
      <4>1. FIFO1 # NoPipe BY DEF FIFO1, NoPipe
      <4> QED BY <1>0, <2>1, <4>1, TwoPipesEnds DEF ReadPath, Goto, Empty
    <3>2. ~NoFilePath BY <1>5, TwoPipesEnds DEF NoFilePath, Exit, Goto
    <3> QED BY <2>1, <3>1, <3>2 DEF Send, ServerSigpipe, ServerExit, Exit, Goto
  <2>3. ChildClose BY <1>2, <2>2 DEF server
  <2>4. \A i \in Pipes : data'[i] = <<>> BY <1>0, <2>1, <2>3, CloseRoom DEF ChildClose, Empty
  <2>5. at'["server"] = "read" BY <1>0, <1>1, <2>3 DEF ChildClose, Goto
  <2> QED BY <1>3, <1>5, <2>4, <2>5 DEF TwoPipesOK, Empty
<1>6. CASE at["client"] = "show"
  <2>0. Talk(FIFO1, FIFO2) BY <1>6 DEF TwoPipesOK
  <2>1. Talk(FIFO1, FIFO2)'
    <3>0. CASE ChildClose
      <4>1. at["server"] = "close" /\ at'["server"] = "read" BY <1>0, <1>1, <3>0 DEF ChildClose, Goto
      <4>2. /\ printed = <<>> /\ data[FIFO1] = (IF asked = "" THEN <<>> ELSE <<asked>>) /\ data[FIFO2] = <<>>
        BY <2>0, <1>3, <4>1 DEF Talk, TwoPipesOK
      <4>3. ends'["client"] = ends["client"] /\ ends["client"] = {<<FIFO1, "w">>, <<FIFO2, "r">>}
        BY <1>0, <1>6, <3>0 DEF ChildClose, CloseEnds, PipeBase, PipeShape, EndsOK
      <4>4. <<FIFO1, "w">> \in ends'["client"] /\ <<FIFO2, "r">> \in ends'["client"] BY <4>3
      <4>5. \A i \in Pipes : (\E q \in Procs, m \in Modes : <<i, m>> \in ends'[q]) => data'[i] = data[i]
        BY <1>0, <3>0, CloseRoom DEF ChildClose
      <4>6. data'[FIFO1] = data[FIFO1] /\ data'[FIFO2] = data[FIFO2] BY <1>0, <4>4, <4>5
      <4> QED BY <1>3, <4>1, <4>2, <4>6 DEF Talk
    <3>1. CASE ReadPath
      <4>1. Fd("server", "r") = FIFO1 BY <3>1, TwoPipesEnds DEF ReadPath, Goto
      <4> QED BY <1>0, <2>0, <3>1, <4>1, TalkRead
    <3>2. CASE Send
      <4>1. Fd("server", "w") = FIFO2 BY <3>2, TwoPipesEnds DEF Send, Goto
      <4> QED BY <1>0, <2>0, <3>2, <4>1, TalkSend
    <3>3. ~NoFilePath BY <1>6, TwoPipesEnds DEF NoFilePath, Exit, Goto
    <3>4. ~ServerSigpipe BY <1>6, TwoPipesEnds DEF ServerSigpipe, Exit, Goto
    <3>5. CASE ServerExit
      <4>3. ends'["client"] = ends["client"] /\ ends["client"] = {<<FIFO1, "w">>, <<FIFO2, "r">>}
        BY <1>0, <1>6, <3>5 DEF ServerExit, Exit, CloseEnds, PipeBase, PipeShape, EndsOK
      <4>4. <<FIFO1, "w">> \in ends'["client"] /\ <<FIFO2, "r">> \in ends'["client"] BY <4>3
      <4>5. \A i \in Pipes : (\E q \in Procs, m \in Modes : <<i, m>> \in ends'[q]) => data'[i] = data[i]
        BY <1>0, <3>5, CloseRoom DEF ServerExit, Exit
      <4>6. data'[FIFO1] = data[FIFO1] /\ data'[FIFO2] = data[FIFO2] BY <1>0, <4>4, <4>5
      <4>7. /\ at["server"] = "send" /\ todo = <<>> /\ at' = [at EXCEPT !["server"] = "exit0"]
            /\ UNCHANGED <<asked, printed>>
        BY <3>5 DEF ServerExit, Exit, Goto
      <4> QED BY <1>0, <2>0, <4>6, <4>7, TalkDone
    <3> QED BY <1>2, <3>0, <3>1, <3>2, <3>3, <3>4, <3>5 DEF server
  <2> QED BY <1>3, <1>6, <2>1 DEF TwoPipesOK
<1>7. CASE at["client"] \notin {"close", "ask", "show"} BY <1>3, <1>4, <1>7 DEF TwoPipesOK
<1> QED BY <1>5, <1>6, <1>7

\* The parent's steps: an end of file means that the child has sent it all.
LEMMA TwoPipesClient == ASSUME PipeBase, FreshOK, kind = "pipe", TwoPipesOK, fileClient PROVE TwoPipesOK'
<1>0. /\ "server" \in Procs /\ "client" \in Procs /\ "r" \in Modes /\ "w" \in Modes
      /\ Procs = {"server", "client"}
      /\ FIFO1 \in Pipes /\ FIFO2 \in Pipes /\ FIFO1 # FIFO2 /\ FIFO2 # NoPipe
  BY DEF Procs, Modes, Pipes, FIFO1, FIFO2, NoPipe
<1>1. /\ at["client"] \notin {"mkfifo1", "mkfifo2", "open1", "open2", "unlink1", "unlink2"}
      /\ at \in [Procs -> Places]
  BY DEF PipeBase, PlacesOK, Ended
<1>2. ~ClientMkfifo /\ ~ClientOpen /\ ~ClientUnlink
  BY <1>1 DEF ClientMkfifo, ClientOpen, ClientUnlink, Mkfifo, Open, Unlink, Goto
<1>3. /\ at'["server"] = at["server"] /\ UNCHANGED <<twice, started>>
  BY <1>0, <1>1, <1>2 DEF fileClient, ParentClose, Ask, ClientSigpipe, Show, ShowEnds, ParentWait, Exit, Goto
<1>4. CASE ParentClose
  <2>1. at["server"] \in {"close", "read"} /\ Empty BY <1>4 DEF TwoPipesOK, ParentClose, Goto
  <2>2. \A i \in Pipes : data'[i] = <<>> BY <1>0, <1>4, <2>1, CloseRoom DEF ParentClose, Empty
  <2>3. at'["client"] = "ask" BY <1>0, <1>1, <1>4 DEF ParentClose, Goto
  <2> QED BY <1>3, <2>1, <2>2, <2>3 DEF TwoPipesOK, Empty
<1>5. CASE Ask
  <2>1. at["server"] \in {"close", "read"} /\ Empty /\ printed = <<>> /\ at["client"] = "ask"
    BY <1>5 DEF TwoPipesOK, Ask, Goto, FreshOK
  <2>2. Fd("client", "w") = FIFO1 /\ data[FIFO1] = <<>> /\ data[FIFO2] = <<>>
    BY <1>0, <2>1, TwoPipesEnds DEF Empty
  <2>3. Talk(FIFO1, FIFO2)' BY <1>0, <1>5, <2>1, <2>2, TalkAsk
  <2>4. at'["client"] = "show" BY <1>0, <1>1, <1>5 DEF Ask, Goto
  <2> QED BY <1>3, <2>3, <2>4 DEF TwoPipesOK
<1>6. ~ClientSigpipe
  <2>1. SUFFICES ASSUME ClientSigpipe PROVE FALSE OBVIOUS
  <2>2. at["client"] = "ask" BY <2>1 DEF ClientSigpipe, Exit, Goto
  <2>3. at["server"] \in {"close", "read"} BY <2>2 DEF TwoPipesOK
  <2> QED BY <2>1, <2>2, <2>3, TwoPipesEnds DEF ClientSigpipe
<1>7. CASE Show
  <2>1. at["client"] = "show" /\ Talk(FIFO1, FIFO2) BY <1>7 DEF TwoPipesOK, Show, Goto
  <2>2. Fd("client", "r") = FIFO2 BY <2>1, TwoPipesEnds
  <2>3. Talk(FIFO1, FIFO2)' BY <1>0, <1>7, <2>1, <2>2, TalkShow
  <2>4. at'["client"] = "show" BY <1>0, <1>1, <1>7 DEF Show, Goto
  <2> QED BY <1>3, <2>3, <2>4 DEF TwoPipesOK
<1>8. CASE ShowEnds
  <2>1. at["client"] = "show" /\ Talk(FIFO1, FIFO2) BY <1>8 DEF TwoPipesOK, ShowEnds, Goto
  <2>2. Fd("client", "r") = FIFO2 BY <2>1, TwoPipesEnds
  <2>3. data[FIFO2] = <<>> /\ ~HasEnd(FIFO2, "w") BY <1>0, <1>8, <2>2 DEF ShowEnds
  <2>4. at["server"] \notin {"close", "read", "send"} BY <2>3, TwoPipesEnds
  <2>5. Shown BY <1>0, <2>1, <2>3, <2>4, TalkOver
  <2>6. ~Running("server") BY <2>4, TwoPipesEnds
  <2>7. UNCHANGED <<asked, printed>> BY <1>8 DEF ShowEnds
  <2>8. at'["client"] = "waitpid" BY <1>0, <1>1, <1>8 DEF ShowEnds, Goto
  <2>9. Shown' BY <2>5, <2>7 DEF Shown, Reply
  <2>10. ~Running("server")' BY <1>3, <2>6 DEF Running
  <2> QED BY <1>3, <2>8, <2>9, <2>10 DEF TwoPipesOK
<1>9. CASE ParentWait
  <2>1. Shown /\ ~Running("server") BY <1>9 DEF TwoPipesOK, ParentWait, Exit, Goto
  <2>2. Shown' BY <1>9, <2>1 DEF ParentWait, Exit, Goto, Shown, Reply
  <2>3. ~Running("server")' BY <1>3, <2>1 DEF Running
  <2>4. at'["client"] = "exit0" BY <1>0, <1>1, <1>9 DEF ParentWait, Exit, Goto
  <2> QED BY <1>3, <2>2, <2>3, <2>4 DEF TwoPipesOK
<1> QED BY <1>2, <1>4, <1>5, <1>6, <1>7, <1>8, <1>9 DEF fileClient

-----------------------------------------------------------------------------
(* FifoServer.c and FifoClient.c *)

\* Where the programs of the FIFOs can be, and when they have nothing open.
LEMMA FifoPlaces ==
  ASSUME PipeBase, kind = "fifo"
  PROVE  /\ at["server"] \in Ended \cup {"mkfifo1", "mkfifo2", "open1", "open2", "read", "send"}
         /\ at["client"] \in Ended \cup {"mkfifo1", "mkfifo2", "open1", "open2", "ask", "show", "unlink1",
            "unlink2"}
         /\ at \in [Procs -> Places] /\ Procs = {"server", "client"}
         /\ at["server"] \in Ended \cup {"mkfifo1", "mkfifo2", "open1"} => ends["server"] = {}
            /\ waits["server"] = <<>>
         /\ at["client"] \in Ended \cup {"mkfifo1", "mkfifo2", "open1", "unlink1", "unlink2"} =>
              ends["client"] = {} /\ waits["client"] = <<>>
<1>1. /\ at["server"] \in Ended \cup {"mkfifo1", "mkfifo2", "open1", "open2", "read", "send"}
      /\ at["client"] \in Ended \cup {"mkfifo1", "mkfifo2", "open1", "open2", "ask", "show", "unlink1",
         "unlink2"}
      /\ at \in [Procs -> Places] /\ Procs = {"server", "client"}
  BY DEF PipeBase, PlacesOK, Procs
<1>2. /\ at["server"] \in Ended \cup {"mkfifo1", "mkfifo2", "open1"} => ends["server"] = {}
      /\ at["client"] \in Ended \cup {"mkfifo1", "mkfifo2", "open1", "unlink1", "unlink2"}
         => ends["client"] = {}
  BY <1>1 DEF PipeBase, EndsOK
<1>3. \A p \in Procs : ends[p] = {} => waits[p] = <<>> BY DEF PipeBase, WaitsOK
<1> QED BY <1>1, <1>2, <1>3

\* The pipes of a client that has opened them, and those of its server.
LEMMA FifoFds ==
  ASSUME PipeBase, kind = "fifo", NamedOK
  PROVE  /\ at["client"] \in {"open1", "open2", "ask", "show"} =>
              name[FIFO1] \in Pipes /\ name[FIFO2] \in Pipes /\ name[FIFO1] # name[FIFO2]
              /\ name[FIFO1] # NoPipe /\ name[FIFO2] # NoPipe
         /\ at["client"] \in {"ask", "show"} => /\ Fd("client", "w") = name[FIFO1]
                                                   /\ Fd("client", "r") = name[FIFO2]
                                                /\ HasEnd(name[FIFO1], "w") /\ HasEnd(name[FIFO2], "r")
         /\ at["client"] \in {"ask", "show"} /\ ends["server"] = Both =>
              /\ Fd("server", "r") = name[FIFO1] /\ Fd("server", "w") = name[FIFO2]
              /\ HasEnd(name[FIFO1], "r") /\ HasEnd(name[FIFO2], "w")
<1>0. "server" \in Procs /\ "client" \in Procs /\ "r" \in Modes /\ "w" \in Modes BY DEF Procs, Modes
<1>1. at["client"] \in {"open1", "open2", "ask", "show"} =>
              name[FIFO1] \in Pipes /\ name[FIFO2] \in Pipes /\ name[FIFO1] # name[FIFO2]
              /\ name[FIFO1] # NoPipe /\ name[FIFO2] # NoPipe
  BY DEF NamedOK, PipeBase, PipeShape, NamesOK
<1>2. at["server"] # "close" /\ at["client"] # "close" BY FifoPlaces DEF Ended
<1>3. ASSUME at["client"] \in {"ask", "show"}
      PROVE  /\ Fd("client", "w") = name[FIFO1] /\ Fd("client", "r") = name[FIFO2]
             /\ HasEnd(name[FIFO1], "w") /\ HasEnd(name[FIFO2], "r")
  <2>1. <<name[FIFO1], "w">> \in ends["client"] /\ <<name[FIFO2], "r">> \in ends["client"] BY <1>3 DEF NamedOK
  <2> QED BY <1>0, <1>1, <1>2, <1>3, <2>1, FdIs DEF HasEnd
<1>4. ASSUME at["client"] \in {"ask", "show"}, ends["server"] = Both
      PROVE  /\ Fd("server", "r") = name[FIFO1] /\ Fd("server", "w") = name[FIFO2]
             /\ HasEnd(name[FIFO1], "r") /\ HasEnd(name[FIFO2], "w")
  <2>1. <<name[FIFO1], "r">> \in ends["server"] /\ <<name[FIFO2], "w">> \in ends["server"] BY <1>4 DEF Both
  <2> QED BY <1>0, <1>1, <1>2, <1>4, <2>1, FdIs DEF HasEnd
<1> QED BY <1>1, <1>3, <1>4

\* The first program to start finds no more than names.
LEMMA FifoStartQuiet ==
  ASSUME PipeBase, NEW p \in Procs, StartFifo(p), Quiet PROVE FifoOK'
<1>0. kind = "fifo" /\ Procs = {"server", "client"} BY DEF StartFifo, Procs
<1>1. Empty /\ \A q \in Procs : ends[q] = {} /\ waits[q] = <<>> BY QuietEmpty DEF Quiet
<1>2. /\ at'[p] = "mkfifo1" /\ (\A q \in Procs : q # p => at'[q] = at[q]) /\ started' = {p}
      /\ UNCHANGED <<ends, waits, data, name>>
  BY DEF StartFifo, Start
<1>3. \A q \in Procs : at[q] \in Ended BY DEF Quiet, Running, Ended
<1>4. /\ at'["client"] \in Ended \cup {"mkfifo1"} /\ (at'["client"] # "mkfifo1" => "client" \notin started')
      /\ <<name'[FIFO1], "r">> \notin ends'["server"]
  BY <1>0, <1>1, <1>2, <1>3
<1>5. NamedOK' /\ MeetOK' BY <1>4 DEF NamedOK, MeetOK, Ended
<1>6. AnswerOK' BY <1>1, <1>2, <1>4 DEF AnswerOK, Empty, Ended
<1>7. AfterOK' BY <1>4 DEF AfterOK, Leaving, Ended
<1> QED BY <1>5, <1>6, <1>7 DEF FifoOK

\* A program starts while the other is at work.
LEMMA FifoStart ==
  ASSUME PipeBase, FifoOK, NEW p \in Procs, StartFifo(p), ~Quiet PROVE FifoOK'
<1>0. kind = "fifo" /\ Procs = {"server", "client"} BY DEF StartFifo, Procs
<1>1. /\ at'[p] = "mkfifo1" /\ (\A q \in Procs : q # p => at'[q] = at[q]) /\ started' = started \cup {p}
      /\ UNCHANGED <<ends, waits, data, name, todo>>
      /\ p = "server" => UNCHANGED <<asked, printed>>
  BY <1>0 DEF StartFifo, Start
<1>2. at[p] \in Ended /\ ~Running(p) /\ \E q \in Procs : q # p /\ Running(q)
  BY <1>0 DEF StartFifo, Start, Quiet, Running, Ended
<1>3. twice' = (twice \/ p \in started)
  <2>1. twice' = (~Quiet /\ (twice \/ {p} \cap started # {})) BY DEF StartFifo, Start
  <2>2. {p} \cap started # {} <=> p \in started OBVIOUS
  <2> QED BY <2>1, <2>2
<1>4. CASE p = "server"
  <2>1. /\ at'["client"] = at["client"] /\ Running("client") /\ at["server"] \in Ended
        /\ at'["server"] = "mkfifo1"
        /\ UNCHANGED <<asked, printed>>
    BY <1>0, <1>1, <1>2, <1>4
  <2>2. ends["server"] = {} /\ waits["server"] = <<>> BY <1>0, <2>1, FifoPlaces
  <2>3. NamedOK' BY <1>1, <2>1 DEF FifoOK, NamedOK
  <2>4. MeetOK' BY <1>1, <2>1, <2>2 DEF FifoOK, MeetOK, One, Both, Ended
  <2>5. AnswerOK'
    <3>1. CASE at["client"] = "show"
      <4>1. Talk(name[FIFO1], name[FIFO2]) /\ "server" \in started BY <3>1 DEF FifoOK, AnswerOK, AfterOK
      <4>2. twice' BY <1>3, <1>4, <4>1
      <4>3. data[name[FIFO1]] = <<>> /\ Carries(printed, data[name[FIFO2]], <<>>, Reply(asked))
        BY <2>1, <4>1 DEF Talk, Ended
      <4>4. Talk(name[FIFO1], name[FIFO2])' BY <1>1, <2>1, <4>2, <4>3 DEF Talk, Reply
      <4> QED BY <1>1, <2>1, <2>2, <3>1, <4>4 DEF FifoOK, AnswerOK
    <3>2. CASE at["client"] # "show" BY <1>1, <2>1, <3>2 DEF FifoOK, AnswerOK, Empty
    <3> QED BY <3>1, <3>2
  <2>6. AfterOK'
    <3>1. at["client"] # "exit0" BY <2>1 DEF Running
    <3>2. Shown' <=> Shown BY <2>1 DEF Shown, Reply
    <3> QED BY <1>1, <1>3, <1>4, <2>1, <3>1, <3>2 DEF FifoOK, AfterOK, Leaving
  <2> QED BY <2>3, <2>4, <2>5, <2>6 DEF FifoOK
<1>5. CASE p = "client"
  <2>1. /\ at'["server"] = at["server"] /\ at["client"] \in Ended /\ at'["client"] = "mkfifo1"
    BY <1>0, <1>1, <1>2, <1>5
  <2>2. MeetOK' BY <1>1, <2>1 DEF FifoOK, MeetOK, Ended
  <2>3. AnswerOK' BY <1>1, <2>1 DEF FifoOK, AnswerOK, Empty, Ended
  <2> QED BY <2>1, <2>2, <2>3 DEF FifoOK, NamedOK, AfterOK, Leaving
<1> QED BY <1>0, <1>4, <1>5

\* mkfifo of a server: the names that a client uses stay.
LEMMA FifoServerMkfifo == ASSUME PipeBase, kind = "fifo", FifoOK, ServerMkfifo PROVE FifoOK'
<1>0. PICK n \in {FIFO1, FIFO2}, from \in {"mkfifo1", "mkfifo2"}, to \in {"mkfifo2", "open1"} :
         /\ (from = "mkfifo1" /\ to = "mkfifo2") \/ (from = "mkfifo2" /\ to = "open1")
         /\ Mkfifo("server", n, from, to)
  BY DEF ServerMkfifo
<1>1. "server" \in Procs /\ FIFO1 \in {FIFO1, FIFO2} /\ FIFO2 \in {FIFO1, FIFO2} BY DEF Procs
<1>2. \A k \in {FIFO1, FIFO2} : name[k] # NoPipe => name'[k] = name[k] BY <1>0, <1>1, MkfifoStep
<1>3. /\ name[FIFO1] # NoPipe => name'[FIFO1] = name[FIFO1]
      /\ name[FIFO2] # NoPipe => name'[FIFO2] = name[FIFO2]
  BY <1>1, <1>2
<1>4. /\ at["server"] \in {"mkfifo1", "mkfifo2"} /\ at'["server"] \in {"mkfifo2", "open1"}
      /\ at'["client"] = at["client"]
      /\ UNCHANGED <<ends, waits, data, asked, printed, todo, started, twice>>
  BY <1>0, FifoPlaces DEF Mkfifo, Goto
<1>5. ends["server"] = {} /\ waits["server"] = <<>> /\ Running("server") BY <1>4, FifoPlaces DEF Running
<1>6. NamedOK' BY <1>3, <1>4 DEF FifoOK, NamedOK
<1>7. MeetOK' BY <1>4, <1>5 DEF FifoOK, MeetOK
<1>8. AnswerOK'
  <2>1. CASE at["client"] = "show"
    <3>1. name'[FIFO1] = name[FIFO1] /\ name'[FIFO2] = name[FIFO2] BY <1>3, <2>1 DEF FifoOK, NamedOK
    <3>2. /\ Talk(name[FIFO1], name[FIFO2])
          /\ \A i \in Pipes : i # name[FIFO1] /\ i # name[FIFO2] => data[i] = <<>>
      BY <2>1 DEF FifoOK, AnswerOK
    <3>3. twice /\ data[name[FIFO1]] = <<>> /\ Carries(printed, data[name[FIFO2]], <<>>, Reply(asked))
      BY <1>4, <1>5, <3>2 DEF Talk
    <3>4. Talk(name[FIFO1], name[FIFO2])' BY <1>4, <3>1, <3>3 DEF Talk, Reply
    <3>5. waits["client"] = <<>> BY <2>1 DEF FifoOK, AnswerOK
    <3> QED BY <1>4, <1>5, <2>1, <3>1, <3>2, <3>4, <3>5 DEF AnswerOK
  <2>2. CASE at["client"] # "show" BY <1>4, <2>2 DEF FifoOK, AnswerOK, Empty
  <2> QED BY <2>1, <2>2
<1>9. AfterOK'
  <2>1. Shown' <=> Shown BY <1>4 DEF Shown, Reply
  <2> QED BY <1>4, <1>5, <2>1 DEF FifoOK, AfterOK, Leaving
<1> QED BY <1>6, <1>7, <1>8, <1>9 DEF FifoOK

\* mkfifo of a client: a server in open keeps the FIFO it waits on.
LEMMA FifoClientMkfifo == ASSUME PipeBase, kind = "fifo", FifoOK, ClientMkfifo PROVE FifoOK'
<1>0. "client" \in Procs /\ "server" \in Procs /\ "r" \in Modes /\ FIFO1 \in {FIFO1, FIFO2}
      /\ FIFO2 \in {FIFO1, FIFO2}
  BY DEF Procs, Modes
<1>1. /\ UNCHANGED <<ends, waits, data>> /\ at'["server"] = at["server"]
      /\ at["client"] \in {"mkfifo1", "mkfifo2"} /\ at'["client"] \in {"mkfifo2", "open1"}
  BY FifoPlaces DEF ClientMkfifo, Mkfifo, Goto
<1>2. CASE Mkfifo("client", FIFO1, "mkfifo1", "mkfifo2")
  <2>1. /\ name'[FIFO1] # NoPipe
        /\ name[FIFO1] # NoPipe => name'[FIFO1] = name[FIFO1]
        /\ name[FIFO1] = NoPipe => <<name'[FIFO1], "r">> \notin ends["server"]
    BY <1>0, <1>2, MkfifoStep
  <2>2. at'["client"] = "mkfifo2" BY <1>2, FifoPlaces DEF Mkfifo, Goto
  <2>3. NamedOK' BY <2>1, <2>2 DEF NamedOK
  <2>4. MeetOK' BY <1>1, <2>1, <2>2 DEF FifoOK, MeetOK
  <2> QED BY <1>1, <2>2, <2>3, <2>4 DEF FifoOK, AnswerOK, AfterOK, Leaving, Empty
<1>3. CASE Mkfifo("client", FIFO2, "mkfifo2", "open1")
  <2>0. at["client"] = "mkfifo2" /\ at'["client"] = "open1" BY <1>3, FifoPlaces DEF Mkfifo, Goto
  <2>1. name[FIFO1] # NoPipe BY <2>0 DEF FifoOK, NamedOK
  <2>2. name'[FIFO2] # NoPipe /\ name'[FIFO1] = name[FIFO1] BY <1>0, <1>3, <2>1, MkfifoStep
  <2>3. NamedOK' BY <2>0, <2>1, <2>2 DEF NamedOK
  <2>4. MeetOK' BY <1>1, <2>0, <2>2 DEF FifoOK, MeetOK
  <2> QED BY <1>1, <2>0, <2>3, <2>4 DEF FifoOK, AnswerOK, AfterOK, Leaving, Empty
<1> QED BY <1>2, <1>3 DEF ClientMkfifo

\* What open does, for the process and for the one that waits for it.
LEMMA FifoOpened ==
  ASSUME PipeBase, kind = "fifo", NEW p \in Procs, NEW q \in Procs, p # q,
         NEW n \in {FIFO1, FIFO2}, NEW mode, NEW from, NEW to, Open(p, n, mode, from, to)
  PROVE  /\ at[p] = from /\ at'[p] = to /\ at'[q] = at[q] /\ waits[p] = <<>> /\ ends'[q] = ends[q]
         /\ name[n] # NoPipe => ends'[p] = ends[p] \cup {<<name[n], mode>>}
         /\ name[n] = NoPipe => ends'[p] = ends[p] /\ waits'[p] = <<>>
         /\ waits'[q] = IF waits[q] = <<name[n], Partner(mode)>> THEN <<>> ELSE waits[q]
         /\ waits'[p] = <<>> \/ (name[n] # NoPipe /\ waits'[p] = <<name[n], mode>>)
         /\ name[n] # NoPipe => (waits'[p] = <<>> <=> HasEnd(name[n], Partner(mode)))
         /\ UNCHANGED <<name, data, asked, printed, todo, started, twice>>
<1>1. /\ at[p] = from /\ at' = [at EXCEPT ![p] = to] /\ waits[p] = <<>>
      /\ UNCHANGED <<started, twice, name, data, asked, printed, todo>>
      /\ ends' = [ends EXCEPT ![p] = IF name[n] = NoPipe THEN @ ELSE @ \cup {<<name[n], mode>>}]
      /\ waits' = [r \in Procs |->
                    IF r # p THEN (IF waits[r] = <<name[n], Partner(mode)>> THEN <<>> ELSE waits[r])
                    ELSE IF name[n] = NoPipe \/ HasEnd(name[n], Partner(mode)) THEN <<>> ELSE <<name[n],
                      mode>>]
  BY DEF Open, Goto
<1>2. at'[p] = to /\ at'[q] = at[q] BY <1>1, FifoPlaces
<1>3. /\ ends'[q] = ends[q] /\ (name[n] # NoPipe => ends'[p] = ends[p] \cup {<<name[n], mode>>})
      /\ (name[n] = NoPipe => ends'[p] = ends[p])
  BY <1>1 DEF PipeBase, PipeShape
<1>4. <<name[n], mode>> # <<>> OBVIOUS
<1>5. /\ waits'[q] = IF waits[q] = <<name[n], Partner(mode)>> THEN <<>> ELSE waits[q]
      /\ waits'[p] = IF name[n] = NoPipe \/ HasEnd(name[n], Partner(mode)) THEN <<>> ELSE <<name[n], mode>>
  BY <1>1
<1> QED BY <1>1, <1>2, <1>3, <1>4, <1>5

\* The server opens the first FIFO: it meets a client that waits there, or waits.
LEMMA FifoServerOpen1 ==
  ASSUME PipeBase, kind = "fifo", FifoOK, Open("server", FIFO1, "r", "open1", "open2") PROVE FifoOK'
<1>0. "client" \in Procs /\ "server" \in Procs /\ FIFO1 \in {FIFO1, FIFO2} /\ Partner("r") = "w" BY
      DEF Procs, Partner
<1> DEFINE n1 == name[FIFO1]
<1>1. /\ at["server"] = "open1" /\ at'["server"] = "open2" /\ at'["client"] = at["client"]
      /\ ends'["client"] = ends["client"]
      /\ n1 # NoPipe => ends'["server"] = ends["server"] \cup {<<n1, "r">>}
      /\ n1 = NoPipe => ends'["server"] = ends["server"] /\ waits'["server"] = <<>>
      /\ waits'["client"] = IF waits["client"] = <<n1, "w">> THEN <<>> ELSE waits["client"]
      /\ waits'["server"] = <<>> \/ (n1 # NoPipe /\ waits'["server"] = <<n1, "r">>)
      /\ n1 # NoPipe => (waits'["server"] = <<>> <=> HasEnd(n1, "w"))
      /\ UNCHANGED <<name, data, asked, printed, todo, started, twice>>
  BY <1>0, FifoOpened
<1>2. ends["server"] = {} /\ Running("server") BY <1>1, FifoPlaces DEF Running
<1>3. HasEnd(n1, "w") <=> <<n1, "w">> \in ends["client"] BY <1>0, <1>2 DEF HasEnd, Procs
<1>4. at["client"] = "open2" => waits["client"] = <<n1, "w">>
  <2>1. waits["client"] # <<>> => waits["client"] \in ends["client"] BY <1>0 DEF PipeBase, WaitsOK
  <2> QED BY <1>1, <2>1 DEF FifoOK, NamedOK, MeetOK
<1>5. at["client"] # "ask" BY <1>1 DEF FifoOK, MeetOK
<1>6. NamedOK' BY <1>1 DEF FifoOK, NamedOK
<1>7. MeetOK'
  <2>1. CASE at["client"] = "open2"
    <3>1. n1 # NoPipe /\ <<n1, "w">> \in ends["client"] BY <2>1 DEF FifoOK, NamedOK
    <3>2. waits'["server"] = <<>> /\ waits'["client"] = <<>> /\ ends'["server"] = {<<n1, "r">>}
      BY <1>1, <1>2, <1>3, <1>4, <2>1, <3>1
    <3> QED BY <1>1, <2>1, <3>2 DEF MeetOK, One
  <2>2. CASE at["client"] \notin {"open2", "ask", "show", "unlink1"}
    <3>1. ends["client"] = {} BY <2>2, FifoPlaces
    <3>2. n1 = NoPipe => <<n1, "r">> \notin ends'["server"] BY <1>1, <1>2
    <3>3. n1 # NoPipe => waits'["server"] = <<n1, "r">> BY <1>1, <1>3, <3>1
    <3> QED BY <1>1, <2>2, <3>2, <3>3 DEF MeetOK
  <2>3. CASE at["client"] \in {"show", "unlink1"} BY <1>1, <2>3 DEF MeetOK
  <2> QED BY <1>5, <2>1, <2>2, <2>3
<1>8. AnswerOK'
  <2>1. CASE at["client"] = "show"
    <3>1. /\ Talk(name[FIFO1], name[FIFO2]) /\ waits["client"] = <<>>
          /\ \A i \in Pipes : i # name[FIFO1] /\ i # name[FIFO2] => data[i] = <<>>
      BY <2>1 DEF FifoOK, AnswerOK
    <3>2. n1 # NoPipe /\ <<n1, "w">> \in ends["client"] BY <2>1 DEF FifoOK, NamedOK
    <3>3. waits'["server"] = <<>> /\ waits'["client"] = <<>> /\ ends'["server"] = {<<n1, "r">>}
      BY <1>1, <1>2, <1>3, <3>1, <3>2
    <3>4. twice /\ data[name[FIFO1]] = <<>> /\ Carries(printed, data[name[FIFO2]], <<>>, Reply(asked))
      BY <1>1, <1>2, <3>1 DEF Talk
    <3>5. Talk(name[FIFO1], name[FIFO2])' BY <1>1, <3>4 DEF Talk, Reply
    <3> QED BY <1>1, <2>1, <3>1, <3>3, <3>5 DEF AnswerOK, One
  <2>2. CASE at["client"] # "show" BY <1>1, <2>2 DEF FifoOK, AnswerOK, Empty
  <2> QED BY <2>1, <2>2
<1>9. AfterOK'
  <2>1. Shown' <=> Shown BY <1>1 DEF Shown, Reply
  <2> QED BY <1>1, <1>2, <2>1 DEF FifoOK, AfterOK, Leaving
<1> QED BY <1>6, <1>7, <1>8, <1>9 DEF FifoOK

\* The server opens the second FIFO. Its client is there, or comes.
LEMMA FifoServerOpen2 ==
  ASSUME PipeBase, kind = "fifo", FifoOK, Open("server", FIFO2, "w", "open2", "read") PROVE FifoOK'
<1>0. "client" \in Procs /\ "server" \in Procs /\ FIFO2 \in {FIFO1, FIFO2} /\ Partner("w") = "r" BY
      DEF Procs, Partner
<1> DEFINE n1 == name[FIFO1]
           n2 == name[FIFO2]
<1>1. /\ at["server"] = "open2" /\ at'["server"] = "read" /\ at'["client"] = at["client"]
      /\ ends'["client"] = ends["client"] /\ waits["server"] = <<>>
      /\ n2 # NoPipe => ends'["server"] = ends["server"] \cup {<<n2, "w">>}
      /\ n2 = NoPipe => ends'["server"] = ends["server"] /\ waits'["server"] = <<>>
      /\ waits'["client"] = IF waits["client"] = <<n2, "r">> THEN <<>> ELSE waits["client"]
      /\ waits'["server"] = <<>> \/ (n2 # NoPipe /\ waits'["server"] = <<n2, "w">>)
      /\ n2 # NoPipe => (waits'["server"] = <<>> <=> HasEnd(n2, "r"))
      /\ UNCHANGED <<name, data, asked, printed, todo, started, twice>>
  BY <1>0, FifoOpened
<1>2. Running("server") BY <1>1 DEF Running
<1>3. HasEnd(n2, "r") <=> <<n2, "r">> \in ends["client"]
  BY <1>0 DEF HasEnd, Procs, PipeBase, NamesOK
<1>4. <<n1, "r">> \in ends'["server"] => <<n1, "r">> \in ends["server"]
  <2>1. <<n1, "r">> # <<n2, "w">> OBVIOUS
  <2> QED BY <1>1, <2>1
<1>5. at["client"] \in {"open2", "ask", "show"} => n1 # n2 /\ n1 # NoPipe /\ n2 # NoPipe
  BY FifoFds DEF FifoOK
<1>6. NamedOK' BY <1>1 DEF FifoOK, NamedOK
<1>7. MeetOK'
  <2>1. CASE at["client"] = "open2"
    <3>1. ends["client"] = {<<n1, "w">>} /\ (waits["client"] # <<>> => waits["client"] \in ends["client"])
      BY <1>0, <2>1 DEF FifoOK, NamedOK, PipeBase, WaitsOK
    <3>2. <<n2, "r">> \notin ends["client"] BY <3>1
    <3>3. waits["client"] # <<n2, "r">> BY <3>1, <3>2
    <3>4. waits'["client"] = waits["client"] BY <1>1, <3>3
    <3>5. CASE waits["client"] # <<>> BY <1>1, <1>4, <2>1, <3>4, <3>5 DEF FifoOK, MeetOK
    <3>6. CASE waits["client"] = <<>>
      <4>1. ends["server"] = {<<n1, "r">>} BY <1>1, <2>1, <3>6 DEF FifoOK, MeetOK, One
      <4>2. ends'["server"] = {<<n1, "r">>, <<n2, "w">>} BY <1>1, <1>5, <2>1, <4>1
      <4>3. waits'["server"] = <<n2, "w">> BY <1>1, <1>3, <1>5, <2>1, <3>2
      <4> QED BY <1>1, <2>1, <3>4, <3>6, <4>2, <4>3 DEF MeetOK, Both
    <3> QED BY <3>5, <3>6
  <2>2. CASE at["client"] = "ask"
    <3>1. ends["client"] = {<<n1, "w">>, <<n2, "r">>} BY <2>2 DEF FifoOK, NamedOK
    <3>2. waits["client"] = <<n2, "r">> /\ ends["server"] = {<<n1, "r">>} BY <1>1, <2>2
          DEF FifoOK, MeetOK, One
    <3>3. waits'["client"] = <<>> /\ waits'["server"] = <<>> BY <1>1, <1>3, <1>5, <2>2, <3>1, <3>2
    <3>4. ends'["server"] = {<<n1, "r">>, <<n2, "w">>} BY <1>1, <1>5, <2>2, <3>2
    <3> QED BY <1>1, <2>2, <3>3, <3>4 DEF MeetOK, Both
  <2>3. CASE at["client"] \in {"show", "unlink1"} BY <1>1, <2>3 DEF MeetOK
  <2>4. CASE at["client"] \notin {"open2", "ask", "show", "unlink1"}
    <3>1. waits["server"] # <<n1, "r">> BY <1>1
    <3> QED BY <1>1, <1>4, <2>4, <3>1 DEF FifoOK, MeetOK
  <2> QED BY <2>1, <2>2, <2>3, <2>4
<1>8. AnswerOK'
  <2>1. CASE at["client"] = "show"
    <3>1. /\ Talk(name[FIFO1], name[FIFO2]) /\ waits["client"] = <<>> /\ ends["server"] = {<<n1, "r">>}
          /\ \A i \in Pipes : i # name[FIFO1] /\ i # name[FIFO2] => data[i] = <<>>
      BY <1>1, <2>1 DEF FifoOK, AnswerOK, One
    <3>2. <<n2, "r">> \in ends["client"] BY <2>1 DEF FifoOK, NamedOK
    <3>3. waits'["server"] = <<>> /\ waits'["client"] = <<>> /\ ends'["server"] = {<<n1, "r">>, <<n2, "w">>}
      BY <1>1, <1>3, <1>5, <2>1, <3>1, <3>2
    <3>4. twice /\ data[name[FIFO1]] = <<>> /\ Carries(printed, data[name[FIFO2]], <<>>, Reply(asked))
      BY <1>1, <1>2, <3>1 DEF Talk
    <3>5. Talk(name[FIFO1], name[FIFO2])' BY <1>1, <3>4 DEF Talk, Reply
    <3> QED BY <1>1, <2>1, <3>1, <3>3, <3>5 DEF AnswerOK, Both
  <2>2. CASE at["client"] # "show" BY <1>1, <2>2 DEF FifoOK, AnswerOK, Empty
  <2> QED BY <2>1, <2>2
<1>9. AfterOK'
  <2>1. Shown' <=> Shown BY <1>1 DEF Shown, Reply
  <2> QED BY <1>1, <1>2, <2>1 DEF FifoOK, AfterOK, Leaving
<1> QED BY <1>6, <1>7, <1>8, <1>9 DEF FifoOK

\* The client opens the first FIFO.
LEMMA FifoClientOpen1 ==
  ASSUME PipeBase, kind = "fifo", FifoOK, Open("client", FIFO1, "w", "open1", "open2") PROVE FifoOK'
<1>0. "client" \in Procs /\ "server" \in Procs /\ FIFO1 \in {FIFO1, FIFO2} /\ Partner("w") = "r" BY
      DEF Procs, Partner
<1> DEFINE n1 == name[FIFO1]
<1>1. /\ at["client"] = "open1" /\ at'["client"] = "open2" /\ at'["server"] = at["server"]
      /\ ends'["server"] = ends["server"]
      /\ n1 # NoPipe => ends'["client"] = ends["client"] \cup {<<n1, "w">>}
      /\ waits'["server"] = IF waits["server"] = <<n1, "r">> THEN <<>> ELSE waits["server"]
      /\ waits'["client"] = <<>> \/ (n1 # NoPipe /\ waits'["client"] = <<n1, "w">>)
      /\ n1 # NoPipe => (waits'["client"] = <<>> <=> HasEnd(n1, "r"))
      /\ UNCHANGED <<name, data, asked, printed, todo, started, twice>>
  BY <1>0, FifoOpened
<1>2. ends["client"] = {} BY <1>1, FifoPlaces
<1>3. n1 # NoPipe /\ n1 \in Pipes /\ name[FIFO2] # NoPipe BY <1>1, FifoFds DEF FifoOK
<1>4. HasEnd(n1, "r") <=> <<n1, "r">> \in ends["server"] BY <1>0, <1>2 DEF HasEnd, Procs
<1>5. ends'["client"] = {<<n1, "w">>} BY <1>1, <1>2, <1>3
<1>6. NamedOK' BY <1>1, <1>3, <1>5 DEF NamedOK
<1>7. MeetOK'
  <2>1. CASE <<n1, "r">> \notin ends["server"] BY <1>1, <1>3, <1>4, <2>1 DEF MeetOK
  <2>2. CASE <<n1, "r">> \in ends["server"]
    <3>1. at["server"] = "open2" /\ waits["server"] = <<n1, "r">> BY <1>1, <2>2 DEF FifoOK, MeetOK
    <3>2. waits'["server"] = <<>> /\ waits'["client"] = <<>> BY <1>1, <1>3, <1>4, <2>2, <3>1
    <3>3. ends["server"] = {<<n1, "r">>}
      <4>1. ASSUME NEW e \in ends["server"] PROVE e = <<n1, "r">>
        <5>1. PICK i \in Pipes, m \in Modes : e = <<i, m>> BY <1>0, <4>1 DEF PipeBase, PipeShape, End
        <5>2. m = "r" BY <3>1, <5>1 DEF PipeBase, EndsOK, Modes
        <5>3. i = n1 BY <1>0, <1>3, <2>2, <3>1, <5>1, <5>2 DEF PipeBase, EndsOK
        <5> QED BY <5>1, <5>2, <5>3
      <4> QED BY <2>2, <4>1
    <3> QED BY <1>1, <3>1, <3>2, <3>3 DEF MeetOK, One
  <2> QED BY <2>1, <2>2
<1>8. AnswerOK' BY <1>1 DEF FifoOK, AnswerOK, Empty
<1>9. AfterOK' BY <1>1 DEF AfterOK, Leaving
<1> QED BY <1>6, <1>7, <1>8, <1>9 DEF FifoOK

\* The client opens the second FIFO.
LEMMA FifoClientOpen2 ==
  ASSUME PipeBase, kind = "fifo", FifoOK, Open("client", FIFO2, "r", "open2", "ask") PROVE FifoOK'
<1>0. "client" \in Procs /\ "server" \in Procs /\ FIFO2 \in {FIFO1, FIFO2} /\ Partner("r") = "w" BY
      DEF Procs, Partner
<1> DEFINE n1 == name[FIFO1]
           n2 == name[FIFO2]
<1>1. /\ at["client"] = "open2" /\ at'["client"] = "ask" /\ at'["server"] = at["server"]
      /\ ends'["server"] = ends["server"] /\ waits["client"] = <<>>
      /\ n2 # NoPipe => ends'["client"] = ends["client"] \cup {<<n2, "r">>}
      /\ waits'["server"] = IF waits["server"] = <<n2, "w">> THEN <<>> ELSE waits["server"]
      /\ waits'["client"] = <<>> \/ (n2 # NoPipe /\ waits'["client"] = <<n2, "r">>)
      /\ n2 # NoPipe => (waits'["client"] = <<>> <=> HasEnd(n2, "w"))
      /\ UNCHANGED <<name, data, asked, printed, todo, started, twice>>
  BY <1>0, FifoOpened
<1>2. ends["client"] = {<<n1, "w">>} BY <1>1 DEF FifoOK, NamedOK
<1>3. n1 # NoPipe /\ n2 # NoPipe /\ n1 # n2 BY <1>1, FifoFds DEF FifoOK
<1>4. HasEnd(n2, "w") <=> <<n2, "w">> \in ends["server"] BY <1>0, <1>2, <1>3 DEF HasEnd, Procs
<1>5. ends'["client"] = {<<n1, "w">>, <<n2, "r">>} BY <1>1, <1>2, <1>3
<1>6. NamedOK' BY <1>1, <1>3, <1>5 DEF NamedOK
<1>7. /\ MeetOK' /\ Running("server")
  <2>1. CASE at["server"] = "open2" /\ ends["server"] = One /\ waits["server"] = <<>>
    <3>1. <<n2, "w">> \notin ends["server"] BY <2>1 DEF One
    <3>2. waits'["client"] = <<n2, "r">> /\ waits'["server"] = <<>> BY <1>1, <1>3, <1>4, <2>1, <3>1
    <3> QED BY <1>1, <2>1, <3>2 DEF MeetOK, One, Running
  <2>2. CASE at["server"] = "read" /\ ends["server"] = Both /\ waits["server"] = <<n2, "w">>
    <3>1. <<n2, "w">> \in ends["server"] BY <2>2 DEF Both
    <3>2. waits'["client"] = <<>> /\ waits'["server"] = <<>> BY <1>1, <1>3, <1>4, <2>2, <3>1
    <3> QED BY <1>1, <2>2, <3>2 DEF MeetOK, Both, Running
  <2> QED BY <1>1, <2>1, <2>2 DEF FifoOK, MeetOK
<1>8. AnswerOK' BY <1>1 DEF FifoOK, AnswerOK, Empty
<1>9. AfterOK' BY <1>0, <1>1, <1>7 DEF AfterOK, Leaving, PipeBase, PlacesOK
<1> QED BY <1>6, <1>7, <1>8, <1>9 DEF FifoOK

\* The server reads: there is something to read only when a client has asked.
LEMMA FifoReadPath == ASSUME PipeBase, kind = "fifo", FifoOK, ReadPath PROVE FifoOK'
<1>0. "server" \in Procs /\ "r" \in Modes BY DEF Procs, Modes
<1>1. /\ at["server"] = "read" /\ at'["server"] = "send" /\ at'["client"] = at["client"]
      /\ waits["server"] = <<>>
      /\ UNCHANGED <<ends, waits, name, asked, printed, started, twice>>
  BY FifoPlaces DEF ReadPath, Goto
<1>2. at["client"] # "ask"
  <2>1. SUFFICES ASSUME at["client"] = "ask" PROVE FALSE OBVIOUS
  <2>2. ends["server"] = Both /\ Empty BY <1>1, <2>1 DEF FifoOK, MeetOK, AnswerOK
  <2>3. Fd("server", "r") = name[FIFO1] /\ name[FIFO1] \in Pipes /\ name[FIFO1] # NoPipe
    BY <2>1, <2>2, FifoFds DEF FifoOK
  <2>4. data[name[FIFO1]] # <<>> BY <2>3 DEF ReadPath
  <2> QED BY <2>2, <2>3, <2>4 DEF Empty
<1>3. NamedOK' BY <1>1 DEF FifoOK, NamedOK
<1>4. MeetOK'
  <2>1. <<name[FIFO2], "w">> # <<>> OBVIOUS
  <2> QED BY <1>1, <1>2, <2>1 DEF FifoOK, MeetOK
<1>5. AnswerOK'
  <2>1. CASE at["client"] = "show"
    <3>1. PICK x, y : x = name[FIFO1] /\ y = name[FIFO2] OBVIOUS
    <3>2. /\ Talk(x, y) /\ ends["server"] = Both /\ waits["client"] = <<>>
          /\ \A i \in Pipes : i # x /\ i # y => data[i] = <<>>
      BY <1>1, <2>1, <3>1 DEF FifoOK, AnswerOK
    <3>3. x \in Pipes /\ y \in Pipes /\ x # y /\ Fd("server", "r") = x BY <2>1, <3>1, <3>2, FifoFds DEF FifoOK
    <3>4. Talk(x, y)' /\ \A i \in Pipes : i # x => data'[i] = data[i] BY <3>2, <3>3, TalkRead
    <3>5. x = name'[FIFO1] /\ y = name'[FIFO2] BY <1>1, <3>1
    <3>6. Both' = Both BY <1>1 DEF Both
    <3>7. Talk(name[FIFO1], name[FIFO2])' BY <3>4, <3>5 DEF Talk
    <3> QED BY <1>1, <2>1, <3>2, <3>4, <3>5, <3>6, <3>7 DEF AnswerOK
  <2>2. CASE at["client"] # "show"
    <3>1. Empty BY <2>2 DEF FifoOK, AnswerOK
    <3>2. Fd("server", "r") = NoPipe BY <1>0, <3>1, FdEnd DEF ReadPath, Empty
    <3>3. data' = data BY <3>2 DEF ReadPath
    <3> QED BY <1>1, <2>2, <3>1, <3>3 DEF AnswerOK, Empty
  <2> QED BY <2>1, <2>2
<1>6. AfterOK'
  <2>1. Shown' <=> Shown BY <1>1 DEF Shown, Reply
  <2>2. Running("server") BY <1>1 DEF Running
  <2> QED BY <1>1, <2>1, <2>2 DEF FifoOK, AfterOK, Leaving
<1> QED BY <1>3, <1>4, <1>5, <1>6 DEF FifoOK

\* The server sends, to its client or, with a descriptor of -1, to nobody.
LEMMA FifoSend == ASSUME PipeBase, kind = "fifo", FifoOK, Send PROVE FifoOK'
<1>0. "server" \in Procs /\ "client" \in Procs /\ "w" \in Modes /\ "r" \in Modes
      /\ Procs = {"server", "client"}
  BY DEF Procs, Modes
<1>1. /\ at["server"] = "send" /\ at'["server"] = "send" /\ at'["client"] = at["client"]
      /\ waits["server"] = <<>>
      /\ UNCHANGED <<ends, waits, name, asked, printed, started, twice>>
  BY FifoPlaces DEF Send, Goto
<1>2. at["client"] # "ask" BY <1>1 DEF FifoOK, MeetOK
<1>3. NamedOK' BY <1>1 DEF FifoOK, NamedOK
<1>4. MeetOK' BY <1>1, <1>2 DEF FifoOK, MeetOK
<1>5. AnswerOK'
  <2>1. CASE at["client"] = "show"
    <3>1. PICK x, y : x = name[FIFO1] /\ y = name[FIFO2] OBVIOUS
    <3>2. /\ Talk(x, y) /\ ends["server"] = Both /\ waits["client"] = <<>>
          /\ \A i \in Pipes : i # x /\ i # y => data[i] = <<>>
      BY <1>1, <2>1, <3>1 DEF FifoOK, AnswerOK
    <3>3. x \in Pipes /\ y \in Pipes /\ x # y /\ Fd("server", "w") = y BY <2>1, <3>1, <3>2, FifoFds DEF FifoOK
    <3>4. Talk(x, y)' /\ \A i \in Pipes : i # y => data'[i] = data[i] BY <3>2, <3>3, TalkSend
    <3>5. x = name'[FIFO1] /\ y = name'[FIFO2] BY <1>1, <3>1
    <3>6. Both' = Both BY <1>1 DEF Both
    <3>7. Talk(name[FIFO1], name[FIFO2])' BY <3>4, <3>5 DEF Talk
    <3> QED BY <1>1, <2>1, <3>2, <3>4, <3>5, <3>6, <3>7 DEF AnswerOK
  <2>2. CASE at["client"] # "show"
    \* a server whose client does not read has nobody to write to
    <3>1. Fd("server", "w") = NoPipe
      <4>1. SUFFICES ASSUME Fd("server", "w") # NoPipe PROVE FALSE OBVIOUS
      <4>2. PICK i : i = Fd("server", "w") OBVIOUS
      <4>3. i \in Pipes /\ <<i, "w">> \in ends["server"] BY <1>0, <4>1, <4>2, FdEnd
      <4>4. HasEnd(i, "r") BY <4>1, <4>2 DEF Send
      <4>5. <<i, "r">> \notin ends["server"] BY <1>0, <4>3 DEF PipeBase, EndsOK
      <4>6. <<i, "r">> \in ends["client"] BY <1>0, <4>4, <4>5 DEF HasEnd
      <4>7. at["client"] = "open2" BY <1>2, <2>2, <4>6, FifoPlaces
      <4> QED BY <4>3, <4>6, <4>7 DEF PipeBase, EndsOK
    <3>2. data' = data BY <3>1 DEF Send
    <3> QED BY <1>1, <2>2, <3>2 DEF FifoOK, AnswerOK, Empty
  <2> QED BY <2>1, <2>2
<1>6. AfterOK'
  <2>1. Shown' <=> Shown BY <1>1 DEF Shown, Reply
  <2>2. Running("server") BY <1>1 DEF Running
  <2> QED BY <1>1, <2>1, <2>2 DEF FifoOK, AfterOK, Leaving
<1> QED BY <1>3, <1>4, <1>5, <1>6 DEF FifoOK

\* The server stops: no client is using it, or the client has the whole reply.
LEMMA FifoServerStops ==
  ASSUME PipeBase, kind = "fifo", FifoOK, NEW from \in {"read", "send"}, NEW how \in Ended,
         Exit("server", from, how),
         at["client"] \in {"ask", "show"} => at["client"] = "show" /\ from = "send" /\ how = "exit0"
           /\ todo = <<>>
  PROVE  FifoOK'
<1>0. "server" \in Procs /\ "client" \in Procs /\ "w" \in Modes /\ "r" \in Modes
      /\ Procs = {"server", "client"}
  BY DEF Procs, Modes
<1>1. /\ at["server"] = from /\ at' = [at EXCEPT !["server"] = how] /\ at'["server"] = how
      /\ at'["client"] = at["client"] /\ waits["server"] = <<>>
      /\ UNCHANGED <<waits, name, asked, printed, todo, started, twice>>
  BY FifoPlaces DEF Exit, Goto
<1>2. ends'["server"] = {} /\ ends'["client"] = ends["client"]
  BY <1>0 DEF Exit, CloseEnds, PipeBase, PipeShape
<1>3. /\ \A i \in Pipes : data[i] = <<>> => data'[i] = <<>>
      /\ \A i \in Pipes : (\E q \in Procs, m \in Modes : <<i, m>> \in ends'[q]) => data'[i] = data[i]
  BY <1>0, CloseRoom DEF Exit
<1>4. NamedOK' BY <1>1, <1>2 DEF FifoOK, NamedOK
<1>5. MeetOK'
  <2>1. <<name[FIFO2], "w">> # <<>> OBVIOUS
  <2>2. at["client"] = "open2" => waits["client"] # <<>> BY <1>1, <2>1 DEF FifoOK, MeetOK
  <2> QED BY <1>1, <1>2, <2>2 DEF MeetOK
<1>6. AnswerOK'
  <2>1. CASE at["client"] = "show"
    <3>1. PICK x, y : x = name[FIFO1] /\ y = name[FIFO2] OBVIOUS
    <3>2. /\ Talk(x, y) /\ waits["client"] = <<>> /\ \A i \in Pipes : i # x /\ i # y => data[i] = <<>>
      BY <1>1, <2>1, <3>1 DEF FifoOK, AnswerOK
    <3>3. x \in Pipes /\ y \in Pipes /\ x # y BY <2>1, <3>1, FifoFds DEF FifoOK
    <3>4. <<x, "w">> \in ends'["client"] /\ <<y, "r">> \in ends'["client"]
      BY <1>2, <2>1, <3>1 DEF FifoOK, NamedOK
    <3>5. data'[x] = data[x] /\ data'[y] = data[y] BY <1>0, <1>3, <3>3, <3>4
    <3>6. Talk(x, y)' BY <1>1, <2>1, <3>2, <3>3, <3>5, TalkDone
    <3>7. x = name'[FIFO1] /\ y = name'[FIFO2] BY <1>1, <3>1
    <3>8. Talk(name[FIFO1], name[FIFO2])' BY <3>6, <3>7 DEF Talk
    <3> QED BY <1>1, <1>3, <2>1, <3>2, <3>7, <3>8 DEF AnswerOK, Ended
  <2>2. CASE at["client"] # "show" BY <1>1, <1>3, <2>2 DEF FifoOK, AnswerOK, Empty
  <2> QED BY <2>1, <2>2
<1>7. AfterOK'
  <2>1. Shown' <=> Shown BY <1>1 DEF Shown, Reply
  <2>2. ~Running("server")' BY <1>1 DEF Running, Ended
  <2> QED BY <1>1, <2>1, <2>2 DEF FifoOK, AfterOK, Leaving
<1> QED BY <1>4, <1>5, <1>6, <1>7 DEF FifoOK

\* The steps of a server while nothing fails. Neither SIGPIPE nor an end of
\* file reaches it while its client is there.
LEMMA FifoServer == ASSUME PipeBase, kind = "fifo", FifoOK, server PROVE FifoOK'
<1>0. Ended = {"off", "exit0", "exit-1", "killed"} BY DEF Ended
<1>1. CASE ServerMkfifo BY <1>1, FifoServerMkfifo
<1>2. CASE ServerOpen BY <1>2, FifoServerOpen1, FifoServerOpen2 DEF ServerOpen
<1>3. ~ChildClose BY FifoPlaces DEF ChildClose, Goto, Ended
<1>4. CASE ReadPath BY <1>4, FifoReadPath
<1>5. CASE Send BY <1>5, FifoSend
<1>6. CASE NoFilePath
  <2>1. at["server"] = "read" /\ Exit("server", "read", "exit-1") BY <1>6 DEF NoFilePath, Exit, Goto
  <2>2. ASSUME at["client"] \in {"ask", "show"} PROVE FALSE
    <3>1. ends["server"] = Both BY <2>1, <2>2 DEF FifoOK, MeetOK, AnswerOK
    <3>2. Fd("server", "r") = name[FIFO1] /\ HasEnd(name[FIFO1], "w") BY <2>2, <3>1, FifoFds DEF FifoOK
    <3> QED BY <1>6, <3>2 DEF NoFilePath
  <2> QED BY <1>0, <2>1, <2>2, FifoServerStops
<1>7. CASE ServerSigpipe
  <2>1. at["server"] = "send" /\ Exit("server", "send", "killed") BY <1>7 DEF ServerSigpipe, Exit, Goto
  <2>2. ASSUME at["client"] \in {"ask", "show"} PROVE FALSE
    <3>1. ends["server"] = Both BY <2>1, <2>2 DEF FifoOK, MeetOK, AnswerOK
    <3>2. Fd("server", "w") = name[FIFO2] /\ HasEnd(name[FIFO2], "r") BY <2>2, <3>1, FifoFds DEF FifoOK
    <3> QED BY <1>7, <3>2 DEF ServerSigpipe
  <2> QED BY <1>0, <2>1, <2>2, FifoServerStops
<1>8. CASE ServerExit
  <2>1. at["server"] = "send" /\ todo = <<>> /\ Exit("server", "send", "exit0") BY <1>8
        DEF ServerExit, Exit, Goto
  <2>2. at["client"] # "ask" BY <2>1 DEF FifoOK, MeetOK
  <2> QED BY <1>0, <2>1, <2>2, FifoServerStops
<1> QED BY <1>1, <1>2, <1>3, <1>4, <1>5, <1>6, <1>7, <1>8 DEF server

\* The client asks the server that it met.
LEMMA FifoAsk == ASSUME PipeBase, FreshOK, kind = "fifo", FifoOK, Ask PROVE FifoOK'
<1>1. /\ at["client"] = "ask" /\ at'["client"] = "show" /\ at'["server"] = at["server"]
      /\ waits["client"] = <<>>
      /\ UNCHANGED <<ends, waits, name, printed, started, twice>>
  BY FifoPlaces DEF Ask, Goto
<1>2. at["server"] = "read" /\ ends["server"] = Both /\ waits["server"] = <<>>
  <2>1. <<name[FIFO2], "r">> # <<>> OBVIOUS
  <2> QED BY <1>1, <2>1 DEF FifoOK, MeetOK
<1>3. PICK x, y : x = name[FIFO1] /\ y = name[FIFO2] OBVIOUS
<1>4. x \in Pipes /\ y \in Pipes /\ x # y /\ Fd("client", "w") = x BY <1>1, <1>3, FifoFds DEF FifoOK
<1>5. printed = <<>> /\ Empty BY <1>1 DEF FreshOK, FifoOK, AnswerOK
<1>6. data[x] = <<>> /\ data[y] = <<>> BY <1>4, <1>5 DEF Empty
<1>7. Talk(x, y)' /\ \A i \in Pipes : i # x => data'[i] = data[i] BY <1>2, <1>4, <1>5, <1>6, TalkAsk
<1>8. x = name'[FIFO1] /\ y = name'[FIFO2] BY <1>1, <1>3
<1>9. Talk(name[FIFO1], name[FIFO2])' BY <1>7, <1>8 DEF Talk
<1>10. \A i \in Pipes : i # x => data'[i] = <<>> BY <1>5, <1>7 DEF Empty
<1>11. Both' = Both BY <1>1 DEF Both
<1>12. AnswerOK' BY <1>1, <1>2, <1>8, <1>9, <1>10, <1>11 DEF AnswerOK
<1>13. NamedOK' BY <1>1 DEF FifoOK, NamedOK
<1>14. MeetOK' BY <1>1 DEF MeetOK
<1>15. AfterOK' BY <1>1 DEF FifoOK, AfterOK, Leaving
<1> QED BY <1>12, <1>13, <1>14, <1>15 DEF FifoOK

\* It prints what comes.
LEMMA FifoShow == ASSUME PipeBase, kind = "fifo", FifoOK, Show PROVE FifoOK'
<1>1. /\ at["client"] = "show" /\ at'["client"] = "show" /\ at'["server"] = at["server"]
      /\ UNCHANGED <<ends, waits, name, started, twice>>
  BY FifoPlaces DEF Show, Goto
<1>3. PICK x, y : x = name[FIFO1] /\ y = name[FIFO2] OBVIOUS
<1>4. x \in Pipes /\ y \in Pipes /\ x # y /\ Fd("client", "r") = y BY <1>1, <1>3, FifoFds DEF FifoOK
<1>5. Talk(x, y) /\ \A i \in Pipes : i # x /\ i # y => data[i] = <<>> BY <1>1, <1>3 DEF FifoOK, AnswerOK
<1>7. Talk(x, y)' /\ \A i \in Pipes : i # y => data'[i] = data[i] BY <1>4, <1>5, TalkShow
<1>8. x = name'[FIFO1] /\ y = name'[FIFO2] BY <1>1, <1>3
<1>9. Talk(name[FIFO1], name[FIFO2])' BY <1>7, <1>8 DEF Talk
<1>10. \A i \in Pipes : i # x /\ i # y => data'[i] = <<>> BY <1>5, <1>7
<1>11. Both' = Both /\ One' = One BY <1>1 DEF Both, One
<1>12. AnswerOK' BY <1>1, <1>8, <1>9, <1>10, <1>11 DEF FifoOK, AnswerOK
<1>13. NamedOK' BY <1>1 DEF FifoOK, NamedOK
<1>14. MeetOK' BY <1>1 DEF MeetOK
<1>15. AfterOK' BY <1>1 DEF FifoOK, AfterOK, Leaving
<1> QED BY <1>12, <1>13, <1>14, <1>15 DEF FifoOK

\* It finds the end of the reply, which only a server that is done leaves.
LEMMA FifoShowEnds == ASSUME PipeBase, kind = "fifo", FifoOK, ShowEnds PROVE FifoOK'
<1>0. "client" \in Procs BY DEF Procs
<1>1. /\ at["client"] = "show" /\ at'["client"] = "unlink1" /\ at'["server"] = at["server"]
      /\ CloseEnds("client", ends["client"])
      /\ UNCHANGED <<waits, name, asked, printed, started, twice>>
  BY FifoPlaces DEF ShowEnds, Goto
<1>3. PICK x, y : x = name[FIFO1] /\ y = name[FIFO2] OBVIOUS
<1>4. x \in Pipes /\ y \in Pipes /\ y # NoPipe /\ Fd("client", "r") = y BY <1>1, <1>3, FifoFds DEF FifoOK
<1>5. Talk(x, y) /\ \A i \in Pipes : i # x /\ i # y => data[i] = <<>> BY <1>1, <1>3 DEF FifoOK, AnswerOK
<1>6. data[y] = <<>> /\ ~HasEnd(y, "w") BY <1>4 DEF ShowEnds
<1>7. at["server"] \notin {"close", "read", "send"}
  <2>1. at["server"] \in {"read", "send"} => HasEnd(y, "w") BY <1>1, <1>3, FifoFds DEF FifoOK, AnswerOK
  <2> QED BY <1>6, <2>1, FifoPlaces DEF Ended
<1>8. Shown /\ data[x] = <<>> /\ (twice \/ ~Running("server")) BY <1>4, <1>5, <1>6, <1>7, TalkOver
<1>9. \A i \in Pipes : data[i] = <<>> BY <1>5, <1>6, <1>8
<1>10. Empty' BY <1>0, <1>1, <1>9, CloseRoom DEF Empty
<1>11. Shown' /\ (twice \/ ~Running("server"))' BY <1>1, <1>8 DEF Shown, Reply, Running
<1>12. AnswerOK' BY <1>1, <1>10 DEF AnswerOK
<1>13. NamedOK' /\ MeetOK' BY <1>1 DEF NamedOK, MeetOK
<1>14. "server" \in started' BY <1>1 DEF FifoOK, AfterOK
<1>15. AfterOK' BY <1>1, <1>11, <1>14 DEF AfterOK, Leaving
<1> QED BY <1>12, <1>13, <1>15 DEF FifoOK

\* It removes the names.
LEMMA FifoUnlink == ASSUME PipeBase, kind = "fifo", FifoOK, ClientUnlink PROVE FifoOK'
<1>0. <<NoPipe, "r">> \notin ends["server"]
  <2>1. NoPipe \notin Pipes /\ "server" \in Procs BY DEF NoPipe, Pipes, Procs
  <2> QED BY <2>1 DEF PipeBase, PipeShape, End
<1>1. /\ at'["server"] = at["server"] /\ UNCHANGED <<ends, waits, data, asked, printed, todo, started, twice>>
  BY FifoPlaces DEF ClientUnlink, Unlink, Goto
<1>2. Shown' <=> Shown BY <1>1 DEF Shown, Reply
<1>3. Running("server")' <=> Running("server") BY <1>1 DEF Running
<1>4. CASE Unlink("client", FIFO1, "unlink1", "unlink2")
  <2>1. at["client"] = "unlink1" /\ at'["client"] = "unlink2" /\ name'[FIFO1] = NoPipe
    BY <1>4, FifoPlaces DEF Unlink, Goto, PipeBase, PipeShape
  <2> QED BY <1>0, <1>1, <1>2, <1>3, <2>1 DEF FifoOK, NamedOK, MeetOK, AnswerOK, AfterOK, Leaving, Empty
<1>5. CASE Unlink("client", FIFO2, "unlink2", "exit0")
  <2>1. /\ at["client"] = "unlink2" /\ at'["client"] = "exit0" /\ name'[FIFO2] = NoPipe
        /\ name'[FIFO1] = name[FIFO1]
    BY <1>5, FifoPlaces DEF Unlink, Goto, PipeBase, PipeShape, FIFO1, FIFO2
  <2> QED BY <1>0, <1>1, <1>2, <1>3, <2>1 DEF FifoOK, NamedOK, MeetOK, AnswerOK, AfterOK, Leaving, Empty
<1> QED BY <1>4, <1>5 DEF ClientUnlink

\* The steps of a client while nothing fails.
LEMMA FifoClient == ASSUME PipeBase, FreshOK, kind = "fifo", FifoOK, fileClient PROVE FifoOK'
<1>1. ~ParentClose /\ ~ParentWait BY FifoPlaces DEF ParentClose, ParentWait, Exit, Goto, Ended
<1>2. ~ClientSigpipe
  <2>1. SUFFICES ASSUME ClientSigpipe PROVE FALSE OBVIOUS
  <2>2. at["client"] = "ask" /\ waits["client"] = <<>> BY <2>1 DEF ClientSigpipe, Exit, Goto
  <2>3. <<name[FIFO2], "r">> # <<>> OBVIOUS
  <2>4. ends["server"] = Both BY <2>2, <2>3 DEF FifoOK, MeetOK
  <2>5. Fd("client", "w") = name[FIFO1] /\ HasEnd(name[FIFO1], "r") BY <2>2, <2>4, FifoFds DEF FifoOK
  <2> QED BY <2>1, <2>5 DEF ClientSigpipe
<1>3. CASE ClientOpen BY <1>3, FifoClientOpen1, FifoClientOpen2 DEF ClientOpen
<1> QED BY <1>1, <1>2, <1>3, FifoClientMkfifo, FifoAsk, FifoShow, FifoShowEnds, FifoUnlink DEF fileClient

-----------------------------------------------------------------------------

\* The inductive invariant, at the start and over every step.
LEMMA PipeInvInit == PipeInit => PipeInv
<1> SUFFICES ASSUME PipeInit PROVE PipeInv OBVIOUS
<1>1. /\ at["client"] = "off" /\ started = {} /\ ends["server"] = {} /\ printed = <<>> /\ twice = FALSE
      /\ \A i \in Pipes : data[i] = <<>>
  BY DEF PipeInit, Procs
<1>2. FifoOK BY <1>1 DEF FifoOK, NamedOK, MeetOK, AnswerOK, AfterOK, Leaving, Empty
<1>3. TwoPipesOK BY <1>1 DEF TwoPipesOK
<1>4. FreshOK BY <1>1 DEF FreshOK
<1> QED BY <1>2, <1>3, <1>4, BaseInit DEF PipeInv, FaultlessOK

\* A fault is over when nobody runs and a program is started.
LEMMA PipeInvNext == ASSUME PipeInv, [PipeNext]_pipeVars PROVE PipeInv'
<1>1. PipeBase /\ FreshOK /\ PipeBase' /\ FreshOK' BY BaseNext, FreshNext DEF PipeInv
<1>2. kind \in {"fifo", "pipe"} /\ faulty \in BOOLEAN BY <1>1, KindsAssumption DEF PipeBase, PipeShape
<1>3. CASE faulty' BY <1>1, <1>3 DEF PipeInv, FaultlessOK
<1>4. CASE ~faulty' /\ (server \/ fileClient)
  <2>1. kind' = kind /\ faulty' = faulty
    BY <1>4 DEF server, ServerMkfifo, ServerOpen, ChildClose, ReadPath, NoFilePath, Send, ServerSigpipe,
       ServerExit,
       fileClient, ClientMkfifo, ClientOpen, ParentClose, Ask, ClientSigpipe, Show, ShowEnds, ClientUnlink,
         ParentWait,
       Mkfifo, Open, Unlink, Exit, Goto
  <2>2. CASE kind = "fifo"
    <3>1. FifoOK BY <1>4, <2>1, <2>2 DEF PipeInv, FaultlessOK
    <3>2. FifoOK' BY <1>1, <1>4, <2>2, <3>1, FifoServer, FifoClient
    <3> QED BY <1>1, <2>1, <2>2, <3>2 DEF PipeInv, FaultlessOK
  <2>3. CASE kind = "pipe"
    <3>1. TwoPipesOK BY <1>4, <2>1, <2>3 DEF PipeInv, FaultlessOK
    <3>2. TwoPipesOK' BY <1>1, <1>4, <2>3, <3>1, TwoPipesServer, TwoPipesClient
    <3> QED BY <1>1, <2>1, <2>3, <3>2 DEF PipeInv, FaultlessOK
  <2> QED BY <1>2, <2>2, <2>3
<1>5. CASE StartPipe
  <2>1. kind' = "pipe" BY <1>5 DEF StartPipe, Start
  <2> QED BY <1>1, <1>5, <2>1, TwoPipesStart DEF PipeInv, FaultlessOK
<1>6. ASSUME NEW p \in Procs, StartFifo(p), ~faulty' PROVE PipeInv'
  <2>1. kind = "fifo" /\ kind' = "fifo" /\ faulty' = (faulty /\ ~Quiet) BY <1>6 DEF StartFifo, Start
  <2>2. CASE Quiet
    <3>1. FifoOK' BY <1>1, <1>6, <2>2, FifoStartQuiet
    <3> QED BY <1>1, <2>1, <3>1 DEF PipeInv, FaultlessOK
  <2>3. CASE ~Quiet
    <3>1. ~faulty BY <1>6, <2>1, <2>3
    <3>2. FifoOK BY <2>1, <3>1 DEF PipeInv, FaultlessOK
    <3>3. FifoOK' BY <1>1, <1>6, <2>3, <3>2, FifoStart
    <3> QED BY <1>1, <2>1, <3>3 DEF PipeInv, FaultlessOK
  <2> QED BY <2>2, <2>3
<1>7. ForkFails \/ FileReadFails \/ (\E p \in Procs : Kill(p) \/ MkfifoFails(p)) => faulty'
  BY DEF ForkFails, FileReadFails, Kill, MkfifoFails, Fault
<1>8. CASE UNCHANGED pipeVars
  <2>1. /\ UNCHANGED <<kind, at, ends, waits, name, data, asked, printed, todo, started, twice, faulty>>
    BY <1>8 DEF pipeVars
  <2>2. NamedOK => NamedOK' BY <2>1 DEF NamedOK
  <2>3. MeetOK => MeetOK' BY <2>1 DEF MeetOK, One, Both
  <2>4. AnswerOK => AnswerOK' BY <2>1 DEF AnswerOK, One, Both, Talk, Running, Reply, Empty
  <2>5. AfterOK => AfterOK' BY <2>1 DEF AfterOK, Leaving, Shown, Reply, Running
  <2>6. TwoPipesOK => TwoPipesOK' BY <2>1 DEF TwoPipesOK, Talk, Running, Shown, Reply, Empty
  <2> QED BY <1>1, <2>1, <2>2, <2>3, <2>4, <2>5, <2>6 DEF PipeInv, FaultlessOK, FifoOK
<1> QED BY <1>3, <1>4, <1>5, <1>6, <1>7, <1>8 DEF PipeNext

\* Without a fault a client that has ended has printed the reply to its path,
\* all of it and in order, over FIFOs and over the pipes of Pipe.c, whatever
\* earlier runs left behind and even if another server was started meanwhile; and
\* if none was, the names are gone. For a file of any length and pipes of any size.
THEOREM WholeFileShown == PipeSpec => []ReplyComplete
<1>1. PipeInv /\ [PipeNext]_pipeVars => PipeInv' BY PipeInvNext
<1>2. PipeInv => ReplyComplete
  <2> SUFFICES ASSUME PipeInv, ~faulty, "client" \in started, at["client"] = "exit0"
               PROVE  printed = Reply(asked) /\ (twice \/ name = [n \in {FIFO1, FIFO2} |-> NoPipe])
    BY DEF ReplyComplete
  <2>1. kind \in {"fifo", "pipe"} /\ name \in [{FIFO1, FIFO2} -> Pipes \cup {NoPipe}]
    BY KindsAssumption DEF PipeInv, PipeBase, PipeShape
  <2>2. CASE kind = "fifo"
    <3>1. /\ printed = Reply(asked) /\ (twice \/ (name[FIFO1] = NoPipe /\ name[FIFO2] = NoPipe))
      BY <2>2 DEF PipeInv, FaultlessOK, FifoOK, AfterOK, Leaving, Shown
    <3> QED BY <2>1, <3>1
  <2>3. CASE kind = "pipe"
    BY <2>3 DEF PipeInv, PipeBase, PlacesOK, FaultlessOK, TwoPipesOK, Shown
  <2> QED BY <2>1, <2>2, <2>3
<1> QED BY PipeInvInit, <1>1, <1>2, PTL DEF PipeSpec
=============================================================================
