----------------------------- MODULE EchoThread -----------------------------
(***************************************************************************)
(* UNPLearning/notes/echoServer/version_6: an echo server that starts a    *)
(* thread for every connection, and a client with one thread for each      *)
(* direction. All threads of the server share the descriptor table, and a  *)
(* new thread is given the ADDRESS of main's connectfd, which it reads     *)
(* when it first runs. A thread is named after the connection whose accept *)
(* started it; one started after accept has failed is one of Strays.       *)
(* Clients may be killed, and so may the server.                           *)
(***************************************************************************)
EXTENDS Integers, Sequences, SequencesExt, FiniteSets, FiniteSetsExt

CONSTANTS Clients,
          Strays,      \* bound: threads started after accept has failed
          Listen,      \* the listening socket
          NoSocket,    \* nothing open on a descriptor
          Lines,       \* lines of each client's input
          MaxFd,       \* descriptors of the server for sockets, enough for all clients
          MaxFaults    \* bound: processes killed, and calls that fail for no visible reason

ASSUME NamesAssumption == /\ Clients \cap Strays = {}
                          /\ {Listen, NoSocket} \cap (Clients \cup Strays) = {} /\ Listen # NoSocket
ASSUME SizesAssumption == Lines \in Nat /\ MaxFaults \in Nat
ASSUME FdsAssumption == MaxFd \in Nat /\ MaxFd > Cardinality(Clients)

VARIABLES
    cpc, typed, shut, printed, \* clients: state, lines sent, SHUT_WR done, output
    up, down,        \* the two directions of each connection
    backlog,         \* connections not accepted yet
    taken,           \* another program has the server's port
    spc, connectfd,  \* the server's main thread
    file,            \* what each descriptor of the server is open on
    tpc, sockfd,     \* threads: control point, str_serv's sockfd
    reading, buffer, \* threads: the connection read blocks on, the line read last
    raced,           \* a thread has read another descriptor than the one meant for it
    faults           \* what was killed or failed: clients, Listen for the server

clientVars == <<cpc, typed, shut, printed>>
mainVars == <<spc, connectfd, taken>>
threadVars == <<tpc, sockfd, reading, buffer>>
threadedVars == <<clientVars, mainVars, threadVars, up, down, backlog, file, raced, faults>>

ServerThreads == Clients \cup Strays
Fds == 1 .. MaxFd

\* What a reader finds on a connection: a line <<c, k>>, or an end
IsLine(item) == item[2] > 0
EOF(c) == <<c, 0>>
RST(c) == <<c, -1>>

ThreadInit == /\ cpc = [c \in Clients |-> "off"] /\ typed = [c \in Clients |-> 0]
              /\ shut = [c \in Clients |-> FALSE] /\ printed = [c \in Clients |-> <<>>]
              /\ up = [c \in Clients |-> <<>>] /\ down = [c \in Clients |-> <<>>]
              /\ backlog = <<>> /\ taken \in BOOLEAN
              /\ spc = "socket" /\ connectfd = -1 /\ file = [f \in Fds |-> NoSocket]
              /\ tpc = [t \in ServerThreads |-> "none"] /\ sockfd = [t \in ServerThreads |-> -1]
              /\ reading = [t \in ServerThreads |-> NoSocket] /\ buffer = [t \in ServerThreads |-> <<>>]
              /\ raced = FALSE /\ faults = {}

ServerUp == spc # "gone"
Listening == spc \in {"accept", "create"}
Ended(c) == cpc[c] \in {"exit0", "failed", "refused", "killed"}
Fault(what) == Cardinality(faults) < MaxFaults /\ faults' = faults \cup {what}

-----------------------------------------------------------------------------
(* The kernel's sockets *)

\* Connections the server holds: through a descriptor, or through a thread that
\* is blocked in read, even when the descriptor was closed meanwhile
Held(table, in) == Clients \cap (Range(table) \cup Range(in))

\* The server's side of a connection is there: accepted and held, or waiting
Attached(c) == c \in Held(file, reading) \/ c \in Range(backlog)

\* The server lets go of some connections, rest being what is unread: FIN, or
\* RST if there is something unread or if nobody has accepted
HangUp(closed, rest) ==
    /\ up' = [c \in Clients |-> IF c \in closed THEN <<>> ELSE rest[c]]
    /\ down' = [c \in Clients |->
                  IF c \notin closed \/ Ended(c) THEN down[c]
                  ELSE Append(down[c], IF c \in Range(backlog) \/ \E n \in DOMAIN rest[c] : IsLine(rest[c][n])
                                         THEN RST(c) ELSE EOF(c))]

\* exit(-1) in any thread, or a signal, ends the server: all its sockets go
ServerEnds == /\ spc' = "gone"
              /\ HangUp(Held(file, reading) \cup Range(backlog), up)
              /\ file' = [f \in Fds |-> NoSocket] /\ backlog' = <<>> /\ connectfd' = -1
              /\ tpc' = [t \in ServerThreads |-> "done"] /\ sockfd' = [t \in ServerThreads |-> -1]
              /\ reading' = [t \in ServerThreads |-> NoSocket] /\ buffer' = [t \in ServerThreads |-> <<>>]
              /\ UNCHANGED <<clientVars, taken, raced>>

-----------------------------------------------------------------------------
(* echoCli.c *)

\* The state of client c goes from from to to
ClientGoto(c, from, to) == /\ cpc[c] = from /\ cpc' = [cpc EXCEPT ![c] = to]
                           /\ UNCHANGED <<mainVars, threadVars, file, raced>>

connect(c) == /\ ClientGoto(c, "off", "on")
              /\ Listening
              /\ backlog' = Append(backlog, c)
              /\ UNCHANGED <<typed, shut, printed, up, down, faults>>

\* connect fails for every address
ConnectRefused(c) == /\ ClientGoto(c, "off", "refused")
                     /\ ~Listening
                     /\ UNCHANGED <<typed, shut, printed, up, down, backlog, faults>>

\* Mutant: one line too many.
SendLineMore(c) == /\ ClientGoto(c, "on", "on")
                   /\ typed[c] <= Lines
                   /\ typed' = [typed EXCEPT ![c] = @ + 1]
                   /\ UNCHANGED <<shut, printed, up, down, backlog, faults>>

\* copyto: a line. Written to a closed connection it is lost ...
SendLine(c) == /\ ClientGoto(c, "on", "on")
               /\ typed[c] < Lines
               /\ typed' = [typed EXCEPT ![c] = @ + 1]
               /\ up' = [up EXCEPT ![c] = IF Attached(c) THEN Append(@, <<c, typed[c] + 1>>) ELSE @]
               /\ UNCHANGED <<shut, printed, down, backlog, faults>>

\* ... or write fails: exit(0), or SIGPIPE
SendFails(c) == /\ ClientGoto(c, "on", "failed")
                /\ typed[c] < Lines /\ ~Attached(c)
                /\ down' = [down EXCEPT ![c] = <<>>]
                /\ UNCHANGED <<typed, shut, printed, up, backlog, faults>>

\* copyto: end of input, shutdown(SHUT_WR)
Shutdown(c) == /\ ClientGoto(c, "on", "on")
               /\ typed[c] = Lines /\ ~shut[c]
               /\ shut' = [shut EXCEPT ![c] = TRUE]
               /\ up' = [up EXCEPT ![c] = IF Attached(c) THEN Append(@, EOF(c)) ELSE @]
               /\ UNCHANGED <<typed, printed, down, backlog, faults>>

\* main: read and write to the terminal
ShowEcho(c) == /\ ClientGoto(c, "on", "on")
               /\ down[c] # <<>> /\ IsLine(Head(down[c]))
               /\ printed' = [printed EXCEPT ![c] = Append(@, Head(down[c]))]
               /\ down' = [down EXCEPT ![c] = Tail(@)]
               /\ UNCHANGED <<typed, shut, up, backlog, faults>>

\* main: "The server close", exit(0) whatever copyto does; or an error
ServerClosed(c) == /\ down[c] # <<>> /\ ~IsLine(Head(down[c]))
                   /\ ClientGoto(c, "on", IF Head(down[c]) = EOF(c) THEN "exit0" ELSE "failed")
                   /\ down' = [down EXCEPT ![c] = <<>>]
                   /\ UNCHANGED <<typed, shut, printed, up, backlog, faults>>

\* A client is killed: FIN unless it was sent, or RST if it had unread data
KillClient(c) == /\ ClientGoto(c, "on", "killed") /\ Fault(c)
                 /\ up' = [up EXCEPT ![c] = IF ~Attached(c) \/ shut[c] THEN @
                                            ELSE Append(@, IF down[c] = <<>> THEN EOF(c) ELSE RST(c))]
                 /\ down' = [down EXCEPT ![c] = <<>>]
                 /\ UNCHANGED <<typed, shut, printed, backlog>>

copyto(c) == SendLine(c) \/ SendFails(c) \/ Shutdown(c)
receive(c) == ShowEcho(c) \/ ServerClosed(c)

-----------------------------------------------------------------------------
(* echoServ.c, main *)

MainGoto(from, to) == /\ spc = from /\ spc' = to
                      /\ UNCHANGED <<clientVars, up, down, sockfd, reading, buffer, raced>>

\* Free descriptors; the lowest is taken
Free == {f \in Fds : file[f] = NoSocket}

\* socket; if it fails, continue with the same address
socket == /\ MainGoto("socket", "bind")
          /\ Free # {}
          /\ file' = [file EXCEPT ![Min(Free)] = Listen]
          /\ UNCHANGED <<connectfd, taken, tpc, backlog, faults>>

\* Mutant: the socket that could not be bound is kept.
BindFailsLeaking == /\ MainGoto("bind", "socket")
                    /\ taken
                    /\ UNCHANGED <<connectfd, taken, tpc, file, backlog, faults>>

\* bind fails: close, and continue with the same address
BindFails == /\ MainGoto("bind", "socket")
             /\ taken
             /\ file' = [f \in Fds |-> NoSocket]
             /\ UNCHANGED <<connectfd, taken, tpc, backlog, faults>>

\* bind and listen
bind == /\ MainGoto("bind", "accept")
        /\ ~taken
        /\ UNCHANGED <<connectfd, taken, tpc, file, backlog, faults>>

\* The thread that is due to be started goes by the name of the connection
accept == /\ MainGoto("accept", "create")
          /\ backlog # <<>> /\ Free # {}
          /\ connectfd' = Min(Free)
          /\ file' = [file EXCEPT ![Min(Free)] = Head(backlog)]
          /\ tpc' = [tpc EXCEPT ![Head(backlog)] = "due"]
          /\ backlog' = Tail(backlog)
          /\ UNCHANGED <<taken, faults>>

\* accept fails, not by EINTR (but say by EMFILE): the loop goes on with
\* connectfd == -1
AcceptFails == /\ MainGoto("accept", "create")
               /\ Fault(Listen)
               /\ \E s \in Strays : tpc[s] = "none" /\ tpc' = [tpc EXCEPT ![s] = "due"]
               /\ connectfd' = -1
               /\ UNCHANGED <<taken, file, backlog>>

\* Until the thread reads connectfd, its sockfd says which one is meant for it
StartThread(t) == /\ spc = "create" /\ tpc[t] = "due"
                  /\ tpc' = [tpc EXCEPT ![t] = "start"]
                  /\ sockfd' = [sockfd EXCEPT ![t] = connectfd]
                  /\ spc' = "accept"
                  /\ UNCHANGED <<clientVars, connectfd, taken, up, down, reading, buffer, backlog, raced, faults>>

pthread_create == (\E t \in ServerThreads : StartThread(t)) /\ UNCHANGED file

\* pthread_create fails, exit(-1); or the server is killed at any point
KillServer == ServerUp /\ Fault(Listen) /\ ServerEnds

-----------------------------------------------------------------------------
(* echoServ.c, str_serv *)

ThreadGoto(t, from, to) == /\ ServerUp /\ tpc[t] = from
                           /\ tpc' = [tpc EXCEPT ![t] = to]
                           /\ UNCHANGED <<clientVars, mainVars, backlog, faults>>

\* int sockfd = *(int *)sockfdPtr
CopyFd(t) == /\ ThreadGoto(t, "start", "call")
             /\ raced' = (raced \/ connectfd # sockfd[t])
             /\ sockfd' = [sockfd EXCEPT ![t] = connectfd]
             /\ UNCHANGED <<up, down, file, reading, buffer>>

Open(fd) == fd \in Fds /\ file[fd] # NoSocket

\* The call of read finds the connection ...
CallRead(t) == /\ ThreadGoto(t, "call", "read")
               /\ Open(sockfd[t])
               /\ reading' = [reading EXCEPT ![t] = file[sockfd[t]]]
               /\ UNCHANGED <<up, down, file, sockfd, buffer, raced>>

\* ... or fails with EBADF: exit(-1), for all threads
BadFd(t) == /\ tpc[t] = "call" /\ ServerUp
            /\ ~Open(sockfd[t])
            /\ ServerEnds /\ UNCHANGED faults

\* A line is read; read lets go of the connection
ReadLine(t) == LET c == reading[t] IN
    /\ ThreadGoto(t, "read", "write")
    /\ up[c] # <<>> /\ IsLine(Head(up[c]))
    /\ buffer' = [buffer EXCEPT ![t] = Head(up[c])]
    /\ reading' = [reading EXCEPT ![t] = NoSocket]
    /\ HangUp(Held(file, reading) \ Held(file, reading'), [up EXCEPT ![c] = Tail(@)])
    /\ UNCHANGED <<file, sockfd, raced>>

\* Mutant: if instead of while.
WriteOnce(t) == LET c == IF Open(sockfd[t]) THEN file[sockfd[t]] ELSE NoSocket IN
    /\ ThreadGoto(t, "write", "close")
    /\ down' = IF c = NoSocket \/ Ended(c) THEN down ELSE [down EXCEPT ![c] = Append(@, buffer[t])]
    /\ buffer' = [buffer EXCEPT ![t] = <<>>]
    /\ UNCHANGED <<up, file, sockfd, reading, raced>>

\* write goes to what the descriptor is open on by now. Written to a client
\* that is gone the line is lost; so it is on a descriptor that was closed
Write(t) == LET c == IF Open(sockfd[t]) THEN file[sockfd[t]] ELSE NoSocket IN
    /\ ThreadGoto(t, "write", "call")
    /\ down' = IF c = NoSocket \/ Ended(c) THEN down ELSE [down EXCEPT ![c] = Append(@, buffer[t])]
    /\ buffer' = [buffer EXCEPT ![t] = <<>>]
    /\ UNCHANGED <<up, file, sockfd, reading, raced>>

\* A client that is gone: SIGPIPE ends the server
Sigpipe(t) == /\ tpc[t] = "write" /\ ServerUp
              /\ Open(sockfd[t]) /\ Ended(file[sockfd[t]])
              /\ ServerEnds /\ UNCHANGED faults

\* read returns 0, to every thread that reads this connection
ReadEOF(t) == LET c == reading[t] IN
    /\ ThreadGoto(t, "read", "close")
    /\ up[c] # <<>> /\ Head(up[c]) = EOF(c)
    /\ reading' = [reading EXCEPT ![t] = NoSocket]
    /\ HangUp(Held(file, reading) \ Held(file, reading'), up)
    /\ UNCHANGED <<file, sockfd, buffer, raced>>

\* read fails, ECONNRESET: "Server read wrong!", exit(-1) for all threads
ReadFails(t) == /\ tpc[t] = "read" /\ ServerUp
                /\ up[reading[t]] # <<>> /\ Head(up[reading[t]]) = RST(reading[t])
                /\ ServerEnds /\ UNCHANGED faults

\* Mutant: no close, which a child process could leave to exit.
CloseForgotten(t) == /\ ThreadGoto(t, "close", "done")
                     /\ sockfd' = [sockfd EXCEPT ![t] = -1]
                     /\ UNCHANGED <<file, up, down, reading, buffer, raced>>

\* close(sockfd), whatever it is open on by now
Close(t) == /\ ThreadGoto(t, "close", "done")
            /\ file' = [f \in Fds |-> IF f = sockfd[t] THEN NoSocket ELSE file[f]]
            /\ HangUp(Held(file, reading) \ Held(file', reading), up)
            /\ sockfd' = [sockfd EXCEPT ![t] = -1]
            /\ UNCHANGED <<reading, buffer, raced>>

main == socket \/ BindFails \/ bind \/ accept \/ pthread_create
str_serv(t) == \/ CopyFd(t) \/ CallRead(t) \/ BadFd(t) \/ ReadLine(t) \/ Write(t)
               \/ Sigpipe(t) \/ ReadEOF(t) \/ ReadFails(t) \/ Close(t)

\* The other program gives the port back
PortFreed == taken /\ taken' = FALSE
             /\ UNCHANGED <<clientVars, spc, connectfd, threadVars, up, down, backlog, file, raced, faults>>

ThreadNext == \/ main \/ AcceptFails \/ KillServer \/ PortFreed
              \/ \E t \in ServerThreads : str_serv(t)
              \/ \E c \in Clients : connect(c) \/ ConnectRefused(c) \/ copyto(c) \/ receive(c) \/ KillClient(c)

\* Every thread is scheduled, and users go on typing. Nobody has to start a
\* client, and the port need not become free.
ThreadSpec == /\ ThreadInit /\ [][ThreadNext]_threadedVars /\ WF_threadedVars(main)
              /\ \A t \in ServerThreads : WF_threadedVars(str_serv(t))
              /\ \A c \in Clients : WF_threadedVars(copyto(c)) /\ WF_threadedVars(receive(c))

-----------------------------------------------------------------------------
(* Properties *)

\* Every variable keeps its type: connections have at most all lines and an end
\* on their way, and descriptors are open on sockets.
ThreadTypeOK == /\ cpc \in [Clients -> {"off", "on", "exit0", "failed", "refused", "killed"}]
                /\ typed \in [Clients -> 0 .. Lines] /\ shut \in [Clients -> BOOLEAN]
                /\ spc \in {"socket", "bind", "accept", "create", "gone"} /\ taken \in BOOLEAN
                /\ connectfd \in Fds \cup {-1} /\ file \in [Fds -> Clients \cup {Listen, NoSocket}]
                /\ tpc \in [ServerThreads -> {"none", "due", "start", "call", "read", "write", "close", "done"}]
                /\ sockfd \in [ServerThreads -> Fds \cup {-1}] /\ reading \in [ServerThreads -> Clients \cup {NoSocket}]
                /\ \A t \in ServerThreads : (tpc[t] = "read") = (reading[t] # NoSocket)
                /\ raced \in BOOLEAN /\ faults \subseteq Clients \cup {Listen}

\* Threads that have descriptor f in use.
Users(f) == {t \in ServerThreads : sockfd[t] = f /\ tpc[t] \in {"start", "call", "read", "write", "close"}}

\* Every connection is served by one thread, its own, and stays open until that
\* thread closes it, however descriptors are reused.
OneThreadEach ==
    \A f \in Fds : /\ Cardinality(Users(f)) <= 1
                   /\ file[f] \in Clients =>
                        Users(f) = IF spc = "create" /\ f = connectfd THEN {} ELSE {file[f]}
                   /\ Users(f) # {} => file[f] \in Clients

\* As long as no thread reads connectfd too late and nothing fails, every
\* connection has its thread, no client that connected fails, and each that
\* ends has shown its own lines, all and in order. (A client's death can end
\* the server for the others, by SIGPIPE or by exit(-1) after ECONNRESET: see
\* faults.)
OnlyRaceHarms ==
    ~raced /\ faults = {} =>
        /\ ServerUp /\ OneThreadEach
        /\ \A c \in Clients : Ended(c) /\ cpc[c] # "refused" =>
             cpc[c] = "exit0" /\ printed[c] = [k \in 1 .. Lines |-> <<c, k>>]

\* The connection is open and no thread will ever read it: the one started for
\* it has taken another descriptor.
Orphaned(c) == /\ raced /\ ServerUp
               /\ \E f \in Fds : file[f] = c /\ Users(f) = {}

\* Whatever happens, every client ends, unless it is orphaned by the race.
ClientsEnd == <>[](\A c \in Clients : cpc[c] = "off" \/ Ended(c) \/ Orphaned(c))

\* The server starts to listen once the port is free, although it never tries
\* another address than the first: the failed attempts leave nothing behind.
StartsUp == <>[](taken \/ Listening \/ faults # {} \/ raced)
=============================================================================
