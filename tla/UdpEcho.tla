------------------------------- MODULE UdpEcho -------------------------------
(***************************************************************************)
(* UNPLearning/notes/UDP/advancedUDPprogram: an echo client that adds      *)
(* reliability to UDP. Every datagram carries a sequence number; a reply   *)
(* is awaited under alarm(rtt), whose handler jumps back to a resend; a    *)
(* reply with another number is dropped; after MAX_RESEND_TIMES resends    *)
(* the client gives up. The network loses, duplicates, delays and reorders *)
(* datagrams: they stay in its sets for ever and are delivered any number  *)
(* of times or never.                                                      *)
(***************************************************************************)
EXTENDS Naturals, Sequences

CONSTANTS Lines,            \* reads from stdin until end of file
          Lengths,          \* lengths read() returns
          MAX_RESEND_TIMES,
          RTT_MIN, RTT_MAX, \* seconds
          MAXLEN,           \* size of the buffers of client and server
          HeadLen           \* sizeof(struct relHead)

ASSUME CountsAssumption == Lines \in Nat /\ MAX_RESEND_TIMES \in Nat
ASSUME RttAssumption == RTT_MIN \in Nat \ {0} /\ RTT_MAX \in Nat /\ RTT_MIN <= RTT_MAX
ASSUME LengthAssumption == /\ HeadLen \in Nat /\ MAXLEN \in Nat /\ HeadLen < MAXLEN
                           /\ Lengths \subseteq 1 .. MAXLEN

VARIABLES
    pc,             \* where the client is
    inStr,          \* the line read: its number and its length
    SeqNum, resendCount,
    alarm,          \* the timer is armed
    rtt,            \* rttData.rtt, in whole seconds
    recv,           \* what recvmsg stored last: recvRelHead.seq and wStr
    output,         \* what was written to stdout
    requests, replies, \* datagrams in the network, for ever
    up,             \* the server is running
    refused         \* the socket has a pending ECONNREFUSED

clientVars == <<pc, inStr, SeqNum, resendCount, alarm, rtt, recv, output>>
vars == <<clientVars, requests, replies, up, refused>>

NoLine == [line |-> 0, len |-> 0]

Init == /\ pc = "read" /\ inStr = NoLine
        /\ SeqNum = 0 /\ resendCount = 0
        /\ alarm = FALSE /\ rtt = RTT_MIN
        /\ recv = [seq |-> 0, data |-> NoLine] /\ output = <<>>
        /\ requests = {} /\ replies = {}
        /\ up \in BOOLEAN /\ refused = FALSE

\* What comes back of a line: the server's buffer also has to hold the header
Cut(d) == [d EXCEPT !.len = IF @ + HeadLen <= MAXLEN THEN @ ELSE MAXLEN - HeadLen]

-----------------------------------------------------------------------------
(* str_cli *)

ReadLine == /\ pc = "read" /\ inStr.line < Lines
            /\ \E n \in Lengths : inStr' = [line |-> inStr.line + 1, len |-> n]
            /\ resendCount' = 0
            /\ pc' = "send"
            /\ UNCHANGED <<SeqNum, alarm, rtt, recv, output, requests, replies, up, refused>>

ReadEOF == /\ pc = "read" /\ inStr.line = Lines
           /\ pc' = "exit0"
           /\ UNCHANGED <<inStr, SeqNum, resendCount, alarm, rtt, recv, output,
                          requests, replies, up, refused>>

-----------------------------------------------------------------------------
(* dgSendRecv *)

\* sendmsg with a new sequence number, then alarm(rtt). The datagram may find
\* no server, and an ICMP error may come back.
Transmit == /\ SeqNum' = SeqNum + 1
            /\ requests' = requests \cup {[seq |-> SeqNum + 1, data |-> inStr]}
            /\ refused' \in {FALSE, ~up}
            /\ alarm' = (rtt # 0)

\* Mutant: the numbers of resends are used again.
FirstSendForgetful == /\ pc = "send" /\ ~refused
                      /\ SeqNum' = inStr.line
                      /\ requests' = requests \cup {[seq |-> inStr.line, data |-> inStr]}
                      /\ refused' \in {FALSE, ~up}
                      /\ alarm' = (rtt # 0)
                      /\ pc' = "sent"
                      /\ UNCHANGED <<inStr, resendCount, rtt, recv, output, replies, up>>

FirstSend == /\ pc = "send" /\ ~refused
             /\ Transmit
             /\ pc' = "sent"
             /\ UNCHANGED <<inStr, resendCount, rtt, recv, output, replies, up>>

\* sigsetjmp returns 0
SetJump == /\ pc \in {"sent", "armed"} /\ pc' = "recvmsg"
           /\ UNCHANGED <<inStr, SeqNum, resendCount, alarm, rtt, recv, output,
                          requests, replies, up, refused>>

\* recvmsg returns any reply the network holds, into wStr
Receive == /\ pc = "recvmsg" /\ ~refused
           /\ \E r \in replies : recv' = r
           /\ pc' = "check"
           /\ UNCHANGED <<inStr, SeqNum, resendCount, alarm, rtt, output,
                          requests, replies, up, refused>>

\* Another sequence number: discarded
Discard == /\ pc = "check" /\ recv.seq # SeqNum
           /\ pc' = "armed"
           /\ UNCHANGED <<inStr, SeqNum, resendCount, alarm, rtt, recv, output,
                          requests, replies, up, refused>>

\* Mutant: the new estimate is not kept above RTT_MIN.
updateRttUnclamped == rtt' \in {0, RTT_MIN, RTT_MAX}

\* The new estimate, of which only the clamping matters
updateRtt == rtt' \in {RTT_MIN, RTT_MAX}

\* alarm(0), updateRtt, and str_cli's write
Accept == /\ pc = "check" /\ recv.seq = SeqNum
          /\ alarm' = FALSE /\ updateRtt
          /\ output' = Append(output, recv.data)
          /\ pc' = "read"
          /\ UNCHANGED <<inStr, SeqNum, resendCount, recv, requests, replies, up, refused>>

\* sendmsg or recvmsg reports the pending error: exit(-1)
Refused == /\ pc \in {"send", "recvmsg"} /\ refused
           /\ pc' = "exit-1"
           /\ refused' = FALSE
           /\ UNCHANGED <<inStr, SeqNum, resendCount, alarm, rtt, recv, output,
                          requests, replies, up>>

-----------------------------------------------------------------------------
(* SIGALRM: sigAlarmHandler jumps to sigsetjmp's second return *)

Waiting == pc \in {"sent", "armed", "recvmsg", "check"}

\* One more datagram for the same line
SendAgain == /\ Waiting /\ alarm /\ ~refused
             /\ resendCount' = resendCount + 1
             /\ Transmit
             /\ pc' = "armed"
             /\ UNCHANGED <<inStr, rtt, recv, output, replies, up>>

\* Mutant: >= instead of > in the test against MAX_RESEND_TIMES.
ResendOnceMore == resendCount <= MAX_RESEND_TIMES /\ SendAgain

\* Mutant: the timer is not armed again after a resend.
ResendUnarmed == /\ Waiting /\ alarm /\ ~refused
                 /\ resendCount < MAX_RESEND_TIMES
                 /\ alarm' = FALSE /\ pc' = "armed"
                 /\ resendCount' = resendCount + 1
                 /\ UNCHANGED <<inStr, SeqNum, rtt, recv, output, requests, replies, up, refused>>

Resend == resendCount < MAX_RESEND_TIMES /\ SendAgain

\* Too many resends, or sendmsg fails: exit(-1)
GiveUp == /\ Waiting /\ alarm
          /\ resendCount = MAX_RESEND_TIMES \/ refused
          /\ resendCount' = resendCount + 1
          /\ pc' = "exit-1" /\ alarm' = FALSE
          /\ UNCHANGED <<inStr, SeqNum, rtt, recv, output, requests, replies, up, refused>>

\* The alarm goes off before this call's first sigsetjmp: jmpbuf belongs to a
\* frame that is gone, or was never set. (If that frame's address is used
\* again the jump is a Resend.)
StaleJump == /\ pc = "sent" /\ alarm
             /\ pc' = "crash" /\ alarm' = FALSE
             /\ UNCHANGED <<inStr, SeqNum, resendCount, rtt, recv, output,
                            requests, replies, up, refused>>

-----------------------------------------------------------------------------
(* echoServ.c *)

\* recvfrom into MAXLEN bytes cuts the datagram, sendto returns what is left
str_serv == /\ up
            /\ \E r \in requests : replies' = replies \cup {[seq |-> r.seq, data |-> Cut(r.data)]}
            /\ UNCHANGED <<clientVars, requests, up, refused>>

\* The server is started after the client
StartServer == ~up /\ up' = TRUE /\ UNCHANGED <<clientVars, requests, replies, refused>>

client == \/ ReadLine \/ ReadEOF \/ FirstSend \/ SetJump \/ Receive \/ Discard \/ Accept
          \/ Refused

sigAlarmHandler == Resend \/ GiveUp \/ StaleJump

Terminated == pc \in {"exit0", "exit-1", "crash"} /\ UNCHANGED vars

Next == client \/ sigAlarmHandler \/ str_serv \/ StartServer \/ Terminated

\* The client is scheduled and an armed timer expires. The network and the
\* server owe nothing.
Spec == Init /\ [][Next]_vars /\ WF_vars(client) /\ WF_vars(sigAlarmHandler)

-----------------------------------------------------------------------------
(* Properties *)

\* Every variable keeps its type: the resends of a line, and with them the
\* sequence numbers, are bounded, and rtt stays within its clamps.
TypeOK == /\ pc \in {"read", "send", "sent", "armed", "recvmsg", "check", "exit0", "exit-1", "crash"}
          /\ inStr \in [line : 0 .. Lines, len : Lengths \cup {0}]
          /\ SeqNum \in 0 .. Lines * (MAX_RESEND_TIMES + 1)
          /\ resendCount \in 0 .. MAX_RESEND_TIMES + 1
          /\ alarm \in BOOLEAN /\ rtt \in RTT_MIN .. RTT_MAX
          /\ up \in BOOLEAN /\ refused \in BOOLEAN

\* Whatever is lost, duplicated, delayed or reordered, and whenever the timer
\* goes off, the k-th thing written to stdout is the echo of the k-th line,
\* never of an earlier one, cut to what the server's buffer holds.
EchoesInOrder == \A k \in 1 .. Len(output) :
                   \E r \in requests : r.data.line = k /\ output[k] = Cut(r.data)

\* On every path through resends, discarded replies and jumps, the client
\* waits for a reply only while its timer runs.
WaitIsTimed == Waiting => alarm

\* The client ends after finitely many resends even if the network delivers
\* nothing, or delivers old replies for ever.
ClientEnds == <>(pc \in {"exit0", "exit-1", "crash"})
=============================================================================
