------------------------------ MODULE EchoFork ------------------------------
(***************************************************************************)
(* UNPLearning/notes/echoServer/version_1, version_3 and version_4: an     *)
(* echo server that forks a child for every connection and reaps its       *)
(* children in a SIGCHLD handler. The clients of version_1 and version_3   *)
(* send a line and wait for its echo before they read the next; that of    *)
(* version_4 (Timed) waits for ten seconds and then goes on.               *)
(* The model starts with the server listening. A child is named after the  *)
(* client it serves; accept may fail, and the child forked all the same    *)
(* is one of Strays. Any process may be killed.                            *)
(***************************************************************************)
EXTENDS Integers, Sequences, SequencesExt, FiniteSets

CONSTANTS Clients,
          Timed,       \* those of Clients that run version_4
          Strays,      \* bound: children forked after accept has failed
          Parent,      \* the server's first process
          Listen,      \* its listening socket
          NoFd,        \* connectfd == -1
          Lines,       \* lines of each client's input
          MaxFaults    \* bound: processes killed, accepts and forks that fail

ASSUME NamesAssumption == /\ Timed \subseteq Clients /\ Clients \cap Strays = {}
                          /\ {Parent, Listen, NoFd} \cap (Clients \cup Strays) = {}
                          /\ Listen # NoFd
ASSUME SizesAssumption == Lines \in Nat /\ MaxFaults \in Nat

VARIABLES
    cpc, typed, printed, \* clients: control point, lines sent, echoes shown
    late,            \* the clients whose select has timed out
    garbled,         \* those that have shown bytes that read had not returned
    up, down,        \* the two directions of each connection
    backlog,         \* connections not accepted yet
    ppc, connectfd,  \* the parent
    child, buffer,   \* children: control point, the line read last
    open,            \* the sockets each server process has open
    pending,         \* SIGCHLD is pending for the parent
    handling,        \* the parent is in sigChildHandler
    hit              \* the processes that met a fault

clientVars == <<cpc, typed, printed, late, garbled>>
parentVars == <<ppc, connectfd, handling>>
vars == <<clientVars, parentVars, up, down, backlog, child, buffer, open, pending, hit>>

Children == Clients \cup Strays
Servers == Children \cup {Parent}

\* What a reader finds on a connection: a line's number, or
EOF == 0
RST == -1

Init == /\ cpc = [c \in Clients |-> "off"] /\ typed = [c \in Clients |-> 0]
        /\ printed = [c \in Clients |-> <<>>] /\ late = {} /\ garbled = {}
        /\ up = [c \in Clients |-> <<>>] /\ down = [c \in Clients |-> <<>>]
        /\ backlog = <<>> /\ ppc = "accept" /\ connectfd = NoFd
        /\ child = [p \in Children |-> "none"] /\ buffer = [p \in Children |-> EOF]
        /\ open = [p \in Servers |-> IF p = Parent THEN {Listen} ELSE {}]
        /\ pending = FALSE /\ handling = FALSE /\ hit = {}

ParentUp == ppc # "gone"
Ended(c) == cpc[c] \in {"exit0", "failed", "killed"}
Fault(p) == Cardinality(hit) < MaxFaults /\ hit' = hit \cup {p}

-----------------------------------------------------------------------------
(* The kernel's sockets *)

\* A socket is closed when the last process that has it open closes it
OpenIn(table) == UNION {table[p] : p \in Servers}

\* The server's side of a connection is there: accepted and open, or waiting
Attached(c) == c \in OpenIn(open) \/ c \in Range(backlog)

\* Server process p ends or closes some of its sockets: those that nobody has
\* open any more send FIN, or RST if there was something to read. With the
\* listening socket go the connections that wait to be accepted
Close(p, sockets) ==
    LET rest == [open EXCEPT ![p] = @ \ sockets]
        closed == (OpenIn(open) \ OpenIn(rest))
                    \cup (IF Listen \in OpenIn(rest) THEN {} ELSE Range(backlog))
    IN  /\ open' = rest
        /\ down' = [c \in Clients |->
                      IF c \notin closed \/ Ended(c) THEN down[c]
                      ELSE Append(down[c], IF c \in Range(backlog) \/ up[c] # <<>> THEN RST ELSE EOF)]
        /\ up' = [c \in Clients |-> IF c \in closed THEN <<>> ELSE up[c]]
        /\ backlog' = IF Listen \in OpenIn(rest) THEN backlog ELSE <<>>

-----------------------------------------------------------------------------
(* echoCli.c *)

ClientGoto(c, from, to) == /\ cpc[c] = from /\ cpc' = [cpc EXCEPT ![c] = to]
                           /\ UNCHANGED <<parentVars, child, buffer, open, pending>>

\* The kernel completes connections while any process has the socket open
connect(c) == /\ ClientGoto(c, "off", "typing")
              /\ Listen \in OpenIn(open)
              /\ backlog' = Append(backlog, c)
              /\ UNCHANGED <<typed, printed, late, garbled, up, down, hit>>

ConnectRefused(c) == /\ ClientGoto(c, "off", "failed")
                     /\ Listen \notin OpenIn(open)
                     /\ UNCHANGED <<typed, printed, late, garbled, up, down, backlog, hit>>

\* version_4: the connection is not set up within 20 seconds. AlarmDispose was
\* installed for SIGHUP, so that SIGALRM ends the client
ConnectTimeout(c) == /\ c \in Timed /\ ClientGoto(c, "off", "killed")
                     /\ Fault(c)
                     /\ UNCHANGED <<typed, printed, late, garbled, up, down, backlog>>

\* Mutant: one line too many.
SendLineMore(c) == /\ ClientGoto(c, "typing", "reply")
                   /\ typed[c] <= Lines
                   /\ typed' = [typed EXCEPT ![c] = @ + 1]
                   /\ up' = [up EXCEPT ![c] = IF Attached(c) THEN Append(@, typed[c] + 1) ELSE @]
                   /\ UNCHANGED <<printed, late, garbled, down, backlog, hit>>

\* fgets and the write loop. Written to a closed connection the line is lost
SendLine(c) == /\ ClientGoto(c, "typing", "reply")
               /\ typed[c] < Lines
               /\ typed' = [typed EXCEPT ![c] = @ + 1]
               /\ up' = [up EXCEPT ![c] = IF Attached(c) THEN Append(@, typed[c] + 1) ELSE @]
               /\ UNCHANGED <<printed, late, garbled, down, backlog, hit>>

\* write on a connection that is known to be closed: an error message and
\* exit(-1), exit(0) in version_3, or SIGPIPE
SendFails(c) == /\ ClientGoto(c, "typing", "failed")
                /\ typed[c] < Lines /\ ~Attached(c)
                /\ down' = [down EXCEPT ![c] = <<>>]
                /\ UNCHANGED <<typed, printed, late, garbled, up, backlog, hit>>

\* How many lines read may find on the connection, before its end
Echoes(c) == {n \in 1 .. Len(down[c]) : \A k \in 1 .. n : down[c][k] > 0}

\* read and fputs: what has arrived, in version_4 also echoes of earlier lines.
\* Only fgets has put a NUL into inStr, at the end of the line sent last. Behind
\* anything else fputs may go on, with the rest of that line or with bytes left
\* over or never written, as the lengths have it
ShowEcho(c) == /\ ClientGoto(c, "reply", "typing")
               /\ \E n \in Echoes(c) :
                    /\ printed' = [printed EXCEPT ![c] = @ \o SubSeq(down[c], 1, n)]
                    /\ down' = [down EXCEPT ![c] = SubSeq(@, n + 1, Len(@))]
                    /\ garbled' \in IF n = 1 /\ down[c][1] = typed[c] THEN {garbled}
                                    ELSE {garbled, garbled \cup {c}}
               /\ UNCHANGED <<typed, late, up, backlog, hit>>

\* version_4: select returns 0. fputs shows inStr all the same, and in it is the
\* line that was sent
TimeOut(c) == /\ c \in Timed /\ ClientGoto(c, "reply", "typing")
              /\ down[c] = <<>>
              /\ printed' = [printed EXCEPT ![c] = Append(@, typed[c])]
              /\ late' = late \cup {c}
              /\ UNCHANGED <<typed, garbled, up, down, backlog, hit>>

\* read returns n <= 0
ReadFails(c) == /\ ClientGoto(c, "reply", "failed")
                /\ down[c] # <<>> /\ Head(down[c]) <= 0
                /\ down' = [down EXCEPT ![c] = <<>>]
                /\ UNCHANGED <<typed, printed, late, garbled, up, backlog, hit>>

\* The client's socket is closed: FIN, or RST if there was something to read
Leave(c) == /\ up' = [up EXCEPT ![c] = IF Attached(c)
                                         THEN Append(@, IF down[c] = <<>> THEN EOF ELSE RST)
                                         ELSE @]
            /\ down' = [down EXCEPT ![c] = <<>>]
            /\ UNCHANGED <<typed, printed, late, garbled, backlog>>

\* fgets returns NULL; main returns
EndOfInput(c) == /\ ClientGoto(c, "typing", "exit0")
                 /\ typed[c] = Lines
                 /\ Leave(c) /\ UNCHANGED hit

KillClient(c) == /\ \E at \in {"typing", "reply"} : ClientGoto(c, at, "killed")
                 /\ Fault(c) /\ Leave(c)

str_cli(c) == \/ SendLine(c) \/ SendFails(c) \/ ShowEcho(c) \/ TimeOut(c)
              \/ ReadFails(c) \/ EndOfInput(c)

-----------------------------------------------------------------------------
(* echoServ.c, main *)

ParentGoto(from, to) == /\ ppc = from /\ ppc' = to /\ ~handling
                        /\ UNCHANGED <<clientVars, buffer, pending, handling>>

\* (Interrupted by the handler, accept is called again: EINTR, continue)
accept == /\ ParentGoto("accept", "fork")
          /\ backlog # <<>>
          /\ connectfd' = Head(backlog) /\ backlog' = Tail(backlog)
          /\ open' = [open EXCEPT ![Parent] = @ \cup {Head(backlog)}]
          /\ UNCHANGED <<up, down, child, hit>>

\* Mutant: any error of accept ends the server.
AcceptFailsExit == /\ ParentGoto("accept", "gone")
                   /\ \E s \in Strays : child[s] = "none" /\ Fault(s)
                   /\ Close(Parent, open[Parent])
                   /\ UNCHANGED <<connectfd, child>>

\* accept fails, not by EINTR: the loop goes on with connectfd == -1
AcceptFails == /\ ParentGoto("accept", "fork")
               /\ \E s \in Strays : child[s] = "none" /\ Fault(s)
               /\ connectfd' = NoFd
               /\ UNCHANGED <<up, down, backlog, child, open>>

\* The child inherits every open socket
fork == /\ ParentGoto("fork", "close")
        /\ \E p \in Children :
             /\ child[p] = "none"
             /\ IF connectfd = NoFd THEN p \in Strays ELSE p = connectfd
             /\ child' = [child EXCEPT ![p] = "read"]
             /\ open' = [open EXCEPT ![p] = open[Parent]]
        /\ UNCHANGED <<connectfd, up, down, backlog, hit>>

\* Mutant: the parent keeps the connection open.
CloseForgotten == /\ ParentGoto("close", "accept")
                  /\ UNCHANGED <<connectfd, up, down, backlog, child, open, hit>>

\* The parent's close(connectfd), which fails for -1
close == /\ ParentGoto("close", "accept")
         /\ Close(Parent, {connectfd})
         /\ UNCHANGED <<connectfd, child, hit>>

\* The parent ends: fork fails (exit(-1)), or it is killed at any point. init
\* reaps what is left
ParentEnds == /\ ParentUp /\ ppc' = "gone"
              /\ Fault(Parent)
              /\ Close(Parent, open[Parent])
              /\ child' = [p \in Children |-> IF child[p] = "zombie" THEN "reaped" ELSE child[p]]
              /\ handling' = FALSE /\ pending' = FALSE
              /\ UNCHANGED <<clientVars, connectfd, buffer>>

-----------------------------------------------------------------------------
(* echoServ.c, sigChildHandler: it may interrupt the parent at any point *)

HandlerOnly == UNCHANGED <<clientVars, ppc, connectfd, up, down, backlog, buffer, open, hit>>

EnterHandler == /\ ParentUp /\ pending /\ ~handling
                /\ pending' = FALSE /\ handling' = TRUE
                /\ HandlerOnly /\ UNCHANGED child

\* Mutant: if instead of while.
ReapOne == /\ handling
           /\ \E p \in Children : child[p] = "zombie" /\ child' = [child EXCEPT ![p] = "reaped"]
           /\ handling' = FALSE
           /\ HandlerOnly /\ UNCHANGED pending

\* waitpid(-1, NULL, WNOHANG) finds one
Reap == /\ handling
        /\ \E p \in Children : child[p] = "zombie" /\ child' = [child EXCEPT ![p] = "reaped"]
        /\ HandlerOnly /\ UNCHANGED <<pending, handling>>

\* ... or none
HandlerReturn == /\ handling /\ \A p \in Children : child[p] # "zombie"
                 /\ handling' = FALSE
                 /\ HandlerOnly /\ UNCHANGED <<child, pending>>

-----------------------------------------------------------------------------
(* echoServ.c, str_serv in a child *)

\* A process ends: its sockets are closed and its parent is told
Exit(p) == /\ child' = [child EXCEPT ![p] = IF ParentUp THEN "zombie" ELSE "reaped"]
           /\ pending' = ParentUp
           /\ Close(p, open[p])
           /\ UNCHANGED <<clientVars, parentVars, buffer>>

ChildRead(c) == /\ child[c] = "read" /\ up[c] # <<>> /\ Head(up[c]) > 0
                /\ child' = [child EXCEPT ![c] = "write"]
                /\ buffer' = [buffer EXCEPT ![c] = Head(up[c])]
                /\ up' = [up EXCEPT ![c] = Tail(@)]
                /\ UNCHANGED <<clientVars, parentVars, down, backlog, open, pending, hit>>

\* Written to a client that is gone the line is lost ...
ChildWrite(c) == /\ child[c] = "write"
                 /\ child' = [child EXCEPT ![c] = "read"]
                 /\ down' = [down EXCEPT ![c] = IF Ended(c) THEN @ ELSE Append(@, buffer[c])]
                 /\ UNCHANGED <<clientVars, parentVars, up, backlog, buffer, open, pending, hit>>

\* ... or raises SIGPIPE
ChildSigpipe(c) == /\ child[c] = "write" /\ Ended(c)
                   /\ Exit(c) /\ UNCHANGED hit

\* End of file, or an error: ECONNRESET, and EBADF for a stray
ChildEnd(p) == /\ child[p] = "read"
               /\ p \in Clients => up[p] # <<>> /\ Head(up[p]) <= 0
               /\ Exit(p) /\ UNCHANGED hit

KillChild(p) == child[p] \in {"read", "write"} /\ Fault(p) /\ Exit(p)

parent == accept \/ fork \/ close
sigChildHandler == EnterHandler \/ Reap \/ HandlerReturn
str_serv(p) == ChildEnd(p) \/ (p \in Clients /\ (ChildRead(p) \/ ChildWrite(p) \/ ChildSigpipe(p)))

Next == \/ parent \/ AcceptFails \/ ParentEnds
        \/ sigChildHandler
        \/ \E p \in Children : str_serv(p) \/ KillChild(p)
        \/ \E c \in Clients : \/ connect(c) \/ ConnectRefused(c) \/ ConnectTimeout(c)
                              \/ str_cli(c) \/ KillClient(c)

\* Server processes and connected clients are scheduled, pending signals are
\* delivered, and users go on typing. Nobody has to start a client.
Spec == /\ Init /\ [][Next]_vars
        /\ WF_vars(parent) /\ WF_vars(sigChildHandler)
        /\ \A p \in Children : WF_vars(str_serv(p))
        /\ \A c \in Clients : WF_vars(str_cli(c))

-----------------------------------------------------------------------------
(* Properties *)

\* Every variable keeps its type: a client has at most one line on its way to
\* the server and back, of version_4 all, and then the end of the connection.
TypeOK == /\ cpc \in [Clients -> {"off", "typing", "reply", "exit0", "failed", "killed"}]
          /\ typed \in [Clients -> 0 .. Lines]
          /\ late \subseteq Timed /\ garbled \subseteq Clients
          /\ \A c \in Clients : Len(up[c]) + Len(down[c]) <= (IF c \in Timed THEN Lines ELSE 1) + 1
          /\ ppc \in {"accept", "fork", "close", "gone"}
          /\ connectfd \in Clients \cup {NoFd}
          /\ child \in [Children -> {"none", "read", "write", "zombie", "reaped"}]
          /\ open \in [Servers -> SUBSET (Clients \cup {Listen})]
          /\ pending \in BOOLEAN /\ handling \in BOOLEAN /\ hit \subseteq Servers

\* Although fork hands on every open socket, a connection is open in its own
\* child only, and in the parent between accept and close: no other child
\* keeps it from being closed, wherever the signal handler interrupts.
Isolated == \A p \in Servers :
              open[p] \cap Clients \subseteq
                IF p # Parent THEN {p}
                ELSE IF ppc \in {"fork", "close"} THEN {connectfd} ELSE {}

\* Without a timeout a client shows the echo of each of its lines, in order, and
\* no other byte, although what it reads is not terminated. After one it has
\* still shown a line for each, and none before it was typed, but earlier lines
\* may stand in the place of later ones, and other bytes behind them.
Shown(c) == /\ c \notin late => printed[c] = [k \in 1 .. Lines |-> k] /\ c \notin garbled
            /\ Len(printed[c]) >= Lines
            /\ \A k \in DOMAIN printed[c] : printed[c][k] \in 1 .. k

\* A client is harmed only if it meets a fault itself, its child is killed or the
\* parent ends: otherwise, whatever happens to the other clients, to their
\* children or to accept, and however late echoes are, it ends normally.
UnharmedServed ==
    \A c \in Clients : Ended(c) /\ {c, Parent} \cap hit = {} => cpc[c] = "exit0" /\ Shown(c)

\* A server that lives has accepted every connection, reaped every child, also
\* those whose SIGCHLD was merged with another, and has nothing open but the
\* listening socket.
ServerClean == ParentUp => /\ backlog = <<>>
                           /\ \A p \in Children : child[p] \in {"none", "reaped"}
                           /\ open[Parent] = {Listen}

\* In the end the server is clean, and every client has ended, also one that
\* connected after the parent had gone: the children keep the listening socket
\* open, and it is refused when the last of them has ended.
AllSettles == <>[](ServerClean /\ \A c \in Clients : cpc[c] = "off" \/ Ended(c))
=============================================================================
