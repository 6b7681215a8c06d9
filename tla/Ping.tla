-------------------------------- MODULE Ping --------------------------------
(***************************************************************************)
(* UNPLearning/notes/ping/myping.c, run by several users of one machine.   *)
(*                                                                         *)
(* main resolves its argument, opens a raw socket and enters recvFrame,    *)
(* which prints a line for every echo reply that carries the identifier of *)
(* this process. sendFrame, the handler of SIGALRM, interrupts it anywhere *)
(* and sends the next request. Both use pingInfo.addr: sendFrame as the    *)
(* destination, and recvFrame as the place where recvmsg stores the sender *)
(* of whatever ICMP message arrives. A raw socket receives a copy of every *)
(* ICMP message for the machine, those for other processes too.            *)
(*                                                                         *)
(* main frees the addrinfo that pingInfo.addr points into (line 91): the   *)
(* address is still there, or something else is (Garbage), which sendmsg   *)
(* refuses.                                                                *)
(***************************************************************************)
EXTENDS Integers, Sequences, FiniteSets

CONSTANTS Pings,     \* processes that run myping
          Hosts,     \* hosts, all of which answer
          Pids,      \* process identifiers
          Base,      \* number of values of an unsigned short
          Data,      \* what the words of icmp_data (time and filler) add up to
          Busy,      \* those of Pings that send up to MaxSends requests; others send one
          MaxSends,  \* bound on the requests of a process
          MaxFaults, \* bound on lost messages, foreign messages and failing calls
          Garbage    \* the contents of freed memory

ICMP_ECHO == 8

ASSUME BaseAssumption == Base \in Nat /\ Base > ICMP_ECHO
ASSUME DataAssumption ==
    /\ Data \subseteq Nat
    /\ \A d \in Data : ICMP_ECHO + 2 * (Base - 1) + d < Base * Base
ASSUME PidsAssumption == Pids \subseteq Nat
ASSUME HostsAssumption == Garbage \notin Hosts
ASSUME BoundsAssumption == MaxSends \in Nat \ {0} /\ MaxFaults \in Nat

Bound(p) == IF p \in Busy THEN MaxSends ELSE 1

VARIABLES pid, target,  \* per process: getpid() and the host it was started with
          pc,           \* per process: where it is, outside the handler
          addr,         \* per process: *pingInfo.addr
          seqNum,       \* per process: pingInfo.seqNum
          frame,        \* per process: recvBuffer
          queue,        \* per process: what its socket has received
          printed,      \* per process: lines, <<address, icmp_seq>>
          net,          \* requests on their way
          sent,         \* per process: requests, <<destination, icmp_seq>>
          foreign,      \* hosts that sent something else than an echo reply
          faults

procVars == <<pc, addr, seqNum, frame, printed, sent>>
vars == <<pid, target, procVars, queue, net, foreign, faults>>

-----------------------------------------------------------------------------
(* Numbers: unsigned and signed short *)

Short(n) == LET u == n % Base IN IF u < Base \div 2 THEN u ELSE u - Base

\* pingInfo.pid, a signed short, and the unsigned icmp_id made from it
PidField(p) == Short(pid[p])

\* Mutant: the field of the header is signed, too.
icmp_idSigned(p) == PidField(p)

icmp_id(p) == PidField(p) % Base

\* Mutant: what the readme's second bug was, + binds tighter than >>.
checksumUnparenthesised(sum) == LET r == ((sum % Base) + sum) \div Base
                                IN Base - 1 - ((r + (r \div Base)) % Base)

\* checksum() of words that add up to sum: the carries are added in twice
checksum(sum) == LET r == (sum % Base) + (sum \div Base)
                 IN Base - 1 - ((r + (r \div Base)) % Base)

\* The words of a frame, without the checksum
WordSum(id, seq, data) == ICMP_ECHO + id + seq + data

\* The one's complement sum over all words is all ones (a host's check)
Verifies(sum, cksum) == \E k \in 1 .. sum + cksum : sum + cksum = k * (Base - 1)

-----------------------------------------------------------------------------
Nothing == [kind |-> "other", host |-> Garbage, id |-> 0, seq |-> 0, data |-> 0, cksum |-> 0]

Init == /\ pid \in {f \in [Pings -> Pids] : \A p, q \in Pings : f[p] = f[q] => p = q}
        /\ target \in [Pings -> Hosts]
        /\ pc = [p \in Pings |-> "main"]
        /\ addr = [p \in Pings |-> Garbage]
        /\ seqNum = [p \in Pings |-> 1]
        /\ frame = [p \in Pings |-> Nothing]
        /\ queue = [p \in Pings |-> <<>>]
        /\ printed = [p \in Pings |-> {}]
        /\ sent = [p \in Pings |-> {}]
        /\ net = {} /\ foreign = {} /\ faults = 0

Fault == faults < MaxFaults /\ faults' = faults + 1

\* The raw socket is open
Running(p) == pc[p] \in {"recvmsg", "check"}

-----------------------------------------------------------------------------
(* main *)

\* pingInfo is filled in, ai is freed, the alarm is set
main(p) == /\ pc[p] = "main"
           /\ pc' = [pc EXCEPT ![p] = "recvmsg"]
           /\ \E a \in {target[p], Garbage} : addr' = [addr EXCEPT ![p] = a]
           /\ UNCHANGED <<pid, target, seqNum, frame, printed, sent, queue, net, foreign, faults>>

\* No such host, not an IPv4 address, or no right to a raw socket: err_quit
MainFails(p) == /\ pc[p] = "main" /\ Fault
                /\ pc' = [pc EXCEPT ![p] = "exit"]
                /\ UNCHANGED <<pid, target, addr, seqNum, frame, printed, sent, queue, net, foreign>>

-----------------------------------------------------------------------------
(* recvFrame *)

\* recvmsg fills recvBuffer and, through msg_name, *pingInfo.addr
recvmsg(p) == /\ pc[p] = "recvmsg" /\ queue[p] # <<>>
              /\ pc' = [pc EXCEPT ![p] = "check"]
              /\ frame' = [frame EXCEPT ![p] = Head(queue[p])]
              /\ addr' = [addr EXCEPT ![p] = Head(queue[p]).host]
              /\ queue' = [queue EXCEPT ![p] = Tail(@)]
              /\ UNCHANGED <<pid, target, seqNum, printed, sent, net, foreign, faults>>

\* recvmsg fails: err_quit
recvmsgFails(p) == /\ pc[p] = "recvmsg" /\ Fault
                   /\ pc' = [pc EXCEPT ![p] = "exit"]
                   /\ UNCHANGED <<pid, target, addr, seqNum, frame, printed, sent, queue, net, foreign>>

\* Mutant: every echo reply is printed, whosever it is.
ForMeByType(p) == frame[p].kind = "reply"

\* The test of line 135: an unsigned short against a signed one
ForMe(p) == frame[p].kind = "reply" /\ frame[p].id = PidField(p)

\* (recvBuffer is not read again before recvmsg fills it.)
Skip(p) == /\ pc[p] = "check" /\ ~ForMe(p)
           /\ pc' = [pc EXCEPT ![p] = "recvmsg"]
           /\ frame' = [frame EXCEPT ![p] = Nothing]
           /\ UNCHANGED <<pid, target, addr, seqNum, printed, sent, queue, net, foreign, faults>>

PrintLine(p) == /\ pc[p] = "check" /\ ForMe(p)
                /\ pc' = [pc EXCEPT ![p] = "recvmsg"]
                /\ printed' = [printed EXCEPT ![p] = @ \cup {<<addr[p], frame[p].seq>>}]
                /\ frame' = [frame EXCEPT ![p] = Nothing]
                /\ UNCHANGED <<pid, target, addr, seqNum, sent, queue, net, foreign, faults>>

recvFrame(p) == recvmsg(p) \/ Skip(p) \/ PrintLine(p)

-----------------------------------------------------------------------------
(* sendFrame, in the SIGALRM handler *)

Request(p, d) == LET seq == seqNum[p] % Base IN
    [kind |-> "request", host |-> addr[p], id |-> icmp_id(p), seq |-> seq, data |-> d,
     cksum |-> checksum(WordSum(icmp_id(p), seq, d))]

\* The next request, to whatever address pingInfo.addr holds now
sendFrame(p) == /\ Running(p) /\ seqNum[p] <= Bound(p)
                /\ addr[p] # Garbage
                /\ \E d \in Data : net' = net \cup {Request(p, d)}
                /\ sent' = [sent EXCEPT ![p] = @ \cup {<<addr[p], seqNum[p] % Base>>}]
                /\ seqNum' = [seqNum EXCEPT ![p] = @ + 1]
                /\ UNCHANGED <<pid, target, pc, addr, frame, printed, queue, foreign, faults>>

\* sendmsg fails: err_quit
sendmsgFails(p) == /\ Running(p) /\ seqNum[p] <= Bound(p)
                   /\ IF addr[p] = Garbage THEN UNCHANGED faults ELSE Fault
                   /\ pc' = [pc EXCEPT ![p] = "exit"]
                   /\ seqNum' = [seqNum EXCEPT ![p] = @ + 1]
                   /\ UNCHANGED <<pid, target, addr, frame, printed, sent, queue, net, foreign>>

-----------------------------------------------------------------------------
(* The network and the hosts *)

\* A message reaches the machine: every raw socket gets a copy
Arrive(m) == queue' = [p \in Pings |-> IF Running(p) THEN Append(queue[p], m) ELSE queue[p]]

\* A host answers a request that verifies, and drops any other. (The time the
\* reply is under way is counted as the request's.)
Answer(m) ==
    /\ net' = net \ {m}
    /\ IF Verifies(WordSum(m.id, m.seq, m.data), m.cksum)
         THEN Arrive([m EXCEPT !.kind = "reply"]) ELSE UNCHANGED queue
    /\ UNCHANGED <<pid, target, procVars, foreign, faults>>

\* The request or the reply is lost
Lose(m) == /\ Fault /\ net' = net \ {m}
           /\ UNCHANGED <<pid, target, procVars, queue, foreign>>

\* A host sends an ICMP message of another kind: a request, an error
Foreign(h) == /\ Fault
              /\ Arrive([Nothing EXCEPT !.host = h])
              /\ foreign' = foreign \cup {h}
              /\ UNCHANGED <<pid, target, procVars, net>>

network == \E m \in net : Answer(m)

Next == \/ \E p \in Pings : \/ main(p) \/ MainFails(p) \/ recvFrame(p) \/ recvmsgFails(p)
                            \/ sendFrame(p) \/ sendmsgFails(p)
        \/ network
        \/ \E m \in net : Lose(m)
        \/ \E h \in Hosts : Foreign(h)

\* Processes are scheduled, the alarm, which sendFrame sets again before it does
\* anything else, goes off, and what is not lost arrives.
Spec == /\ Init /\ [][Next]_vars /\ WF_vars(network)
        /\ \A p \in Pings : /\ WF_vars(main(p)) /\ WF_vars(recvFrame(p))
                            /\ WF_vars(sendFrame(p) \/ sendmsgFails(p))

-----------------------------------------------------------------------------
(* Properties *)

Messages == [kind : {"request", "reply", "other"}, host : Hosts, id : 0 .. Base - 1,
             seq : 0 .. Base - 1, data : Data \cup {0}, cksum : 0 .. Base - 1]

\* Every variable keeps its type: fields fit an unsigned short, and only
\* messages from hosts are received.
TypeOK == /\ pid \in [Pings -> Pids] /\ target \in [Pings -> Hosts]
          /\ pc \in [Pings -> {"main", "recvmsg", "check", "exit"}]
          /\ addr \in [Pings -> Hosts \cup {Garbage}]
          /\ seqNum \in [Pings -> Nat] /\ \A p \in Pings : seqNum[p] \in 1 .. Bound(p) + 1
          /\ frame \in [Pings -> Messages \cup {Nothing}]
          /\ queue \in [Pings -> Seq(Messages)]
          /\ printed \in [Pings -> SUBSET (Hosts \X (0 .. Base - 1))]
          /\ sent \in [Pings -> SUBSET (Hosts \X (0 .. Base - 1))]
          /\ net \subseteq Messages
          /\ foreign \subseteq Hosts /\ faults \in 0 .. MaxFaults

\* Every line tells the truth, wherever other people's messages have redirected
\* the process to and wherever SIGALRM interrupted it: the host that it names
\* was sent that request, by this process or by one whose identifier is equal
\* modulo Base; and the only hosts named are those that some ping was started
\* with or that sent a foreign message.
LinesAreAnswers ==
    \A p \in Pings : \A line \in printed[p] :
        /\ \E q \in Pings : icmp_id(q) = icmp_id(p) /\ line \in sent[q]
        /\ line[1] \in {target[q] : q \in Pings} \cup foreign

\* A process that is not ended by a failing call (or by the loss of the freed
\* address) prints a line for each of its requests but for at most one per fault,
\* unless its identifier is one that the signed comparison never matches. (A line
\* for the request of a process with an equal identifier counts too: nothing
\* tells them apart.) Checksums that do not verify, requests sent to a redirected
\* address and replies that arrive while the handler runs cost no line.
LostOnlyByFaults ==
    \A p \in Pings : <>(\/ pc[p] = "exit"
                        \/ PidField(p) < 0
                        \/ Cardinality(printed[p]) + faults >= Bound(p))
=============================================================================
