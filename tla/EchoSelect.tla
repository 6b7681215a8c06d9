----------------------------- MODULE EchoSelect -----------------------------
(***************************************************************************)
(* UNPLearning/notes/echoServer/version_2 (TCP) and version_5 (the same    *)
(* over a Unix domain socket): an echo server that serves all connections  *)
(* from one thread with select, and a client that watches its terminal     *)
(* and its socket with select and half-closes the socket at end of input.  *)
(* Clients and the server may be killed; a write to a client that is gone  *)
(* may raise SIGPIPE, which the server does not handle.                    *)
(***************************************************************************)
EXTENDS Integers, Sequences, SequencesExt, FiniteSets, FiniteSetsExt

CONSTANTS Clients,
          MAXCLIENT,   \* size of the server's table client[]
          Lines,       \* reads from a client's terminal until end of file:
          Talkers,     \* Lines of them for these clients,
          Silent,      \* none for these, and one for the others
          SockBuf,     \* reads' worth of data a socket buffer holds
          MaxKills,    \* bound: how many processes are killed from outside
          None         \* no connection

ASSUME SizesAssumption == /\ MAXCLIENT \in Nat \ {0} /\ Lines \in Nat \ {0}
                          /\ SockBuf \in Nat \ {0} /\ MaxKills \in Nat
ASSUME InputAssumption == Talkers \cap Silent = {}
ASSUME ClientsAssumption == IsFiniteSet(Clients) /\ None \notin Clients

VARIABLES
    cpc,             \* clients: control point
    typed, endOfTerminal, printed, \* lines read, end of input seen, output
    up, down,        \* the two directions of each client's connection
    backlog,         \* connections the server has not accepted
    spc,             \* the server's control point
    conn,            \* which connection a descriptor is open on
    client,          \* the table: a descriptor or -1
    allSet, readSet, \* descriptors watched, descriptors select found readable
    i,               \* the server's loop index
    buffer,          \* what str_serv has read and not yet written
    kills

clientVars == <<cpc, typed, endOfTerminal, printed>>
tableVars == <<conn, client, allSet, readSet, i>>
vars == <<clientVars, tableVars, up, down, backlog, spc, buffer, kills>>

Fds == 0 .. Cardinality(Clients)   \* enough: each client connects once
sockfd == 0
Slots == 0 .. MAXCLIENT - 1

\* The length of a client's input
Input(c) == IF c \in Talkers THEN Lines ELSE IF c \in Silent THEN 0 ELSE 1

\* Items of a connection: n as read() returns it for the reader
Chunk(c, k) == [of |-> c, n |-> k]
EOF(c) == Chunk(c, 0)
RST(c) == Chunk(c, -1)

Init == /\ cpc = [c \in Clients |-> "off"]
        /\ typed = [c \in Clients |-> 0] /\ endOfTerminal = [c \in Clients |-> FALSE]
        /\ printed = [c \in Clients |-> <<>>]
        /\ up = [c \in Clients |-> <<>>] /\ down = [c \in Clients |-> <<>>]
        /\ backlog = <<>>
        /\ spc = "select" /\ conn = [f \in Fds |-> None] /\ client = [s \in Slots |-> -1]
        /\ allSet = {sockfd} /\ readSet = {} /\ i = 0 /\ buffer = <<>> /\ kills = 0

ServerUp == spc \notin {"killed", "sigpipe"}

-----------------------------------------------------------------------------
(* echoCli.c *)

connect(c) == /\ cpc[c] = "off" /\ ServerUp
              /\ cpc' = [cpc EXCEPT ![c] = "select"]
              /\ backlog' = Append(backlog, c)
              /\ UNCHANGED <<typed, endOfTerminal, printed, tableVars, up, down,
                             spc, buffer, kills>>

ClientGoto(c, from, to) == /\ cpc[c] = from /\ cpc' = [cpc EXCEPT ![c] = to]
                           /\ UNCHANGED <<tableVars, backlog, spc, buffer, kills>>

\* select reports the terminal (a line, or the end of input) and not the socket
TerminalReady(c) == /\ ClientGoto(c, "select", "terminal")
                    /\ down[c] = <<>> /\ ~endOfTerminal[c]
                    /\ UNCHANGED <<typed, endOfTerminal, printed, up, down>>

\* select reports the socket, n > 0: show what came back; then the terminal
\* if select reported it too
ShowEcho(c) == /\ \/ ClientGoto(c, "select", "select")
                  \/ ClientGoto(c, "select", "terminal") /\ ~endOfTerminal[c]
               /\ down[c] # <<>> /\ Head(down[c]).n > 0
               /\ printed' = [printed EXCEPT ![c] = Append(@, Head(down[c]))]
               /\ down' = [down EXCEPT ![c] = Tail(@)]
               /\ UNCHANGED <<typed, endOfTerminal, up>>

\* n == 0 returns if the end of input was seen, and else fails in write; n < 0
\* fails; either way the socket is closed
ServerClosed(c) ==
    /\ down[c] # <<>> /\ Head(down[c]).n <= 0
    /\ ClientGoto(c, "select",
                  IF Head(down[c]).n = 0 /\ endOfTerminal[c] THEN "exit0" ELSE "exit-1")
    /\ up' = [up EXCEPT ![c] = IF endOfTerminal[c] \/ ~ServerUp THEN @ ELSE Append(@, EOF(c))]
    /\ down' = [down EXCEPT ![c] = <<>>]
    /\ UNCHANGED <<typed, endOfTerminal, printed>>

\* Mutant: one line too many.
SendLineMore(c) == /\ ClientGoto(c, "terminal", "select")
                   /\ typed[c] <= Input(c) /\ ServerUp /\ Len(up[c]) < SockBuf
                   /\ typed' = [typed EXCEPT ![c] = @ + 1]
                   /\ up' = [up EXCEPT ![c] = Append(@, Chunk(c, typed[c] + 1))]
                   /\ UNCHANGED <<endOfTerminal, printed, down>>

\* A line is written to the socket when there is room
SendLine(c) == /\ ClientGoto(c, "terminal", "select")
               /\ typed[c] < Input(c) /\ ServerUp /\ Len(up[c]) < SockBuf
               /\ typed' = [typed EXCEPT ![c] = @ + 1]
               /\ up' = [up EXCEPT ![c] = Append(@, Chunk(c, typed[c] + 1))]
               /\ UNCHANGED <<endOfTerminal, printed, down>>

\* The server is gone: write fails or raises SIGPIPE
SendFails(c) == /\ ClientGoto(c, "terminal", "exit-1")
                /\ typed[c] < Input(c) /\ ~ServerUp
                /\ down' = [down EXCEPT ![c] = <<>>]
                /\ UNCHANGED <<typed, endOfTerminal, printed, up>>

\* Mutant: the client leaves at end of input, as version_1 does.
EndOfInputReturns(c) == /\ ClientGoto(c, "terminal", "exit0")
                        /\ typed[c] = Input(c)
                        /\ endOfTerminal' = [endOfTerminal EXCEPT ![c] = TRUE]
                        /\ up' = [up EXCEPT ![c] = Append(@, EOF(c))]
                        /\ UNCHANGED <<typed, printed, down>>

\* Mutant: no shutdown.
EndOfInputSilent(c) == /\ ClientGoto(c, "terminal", "select")
                       /\ typed[c] = Input(c)
                       /\ endOfTerminal' = [endOfTerminal EXCEPT ![c] = TRUE]
                       /\ UNCHANGED <<typed, printed, up, down>>

\* End of input: shutdown(SHUT_WR), and the terminal is watched no more
EndOfInput(c) == /\ ClientGoto(c, "terminal", "select")
                 /\ typed[c] = Input(c)
                 /\ endOfTerminal' = [endOfTerminal EXCEPT ![c] = TRUE]
                 /\ up' = [up EXCEPT ![c] = IF ServerUp THEN Append(@, EOF(c)) ELSE @]
                 /\ UNCHANGED <<typed, printed, down>>

str_cli(c) == \/ TerminalReady(c) \/ ShowEcho(c) \/ ServerClosed(c)
              \/ SendLine(c) \/ SendFails(c) \/ EndOfInput(c)

Ended(c) == cpc[c] \in {"exit0", "exit-1", "killed"}

\* A client is killed. Its socket sends FIN, or RST if it held unread data
KillClient(c) == /\ cpc[c] # "off" /\ ~Ended(c) /\ kills < MaxKills
                 /\ kills' = kills + 1
                 /\ cpc' = [cpc EXCEPT ![c] = "killed"]
                 /\ up' = [up EXCEPT ![c] = @ \o
                             CASE ~ServerUp \/ (endOfTerminal[c] /\ down[c] = <<>>) -> <<>>
                               [] ServerUp /\ down[c] # <<>> -> <<RST(c), EOF(c)>>
                               [] OTHER -> <<EOF(c)>>]
                 /\ down' = [down EXCEPT ![c] = <<>>]
                 /\ UNCHANGED <<typed, endOfTerminal, printed, tableVars, backlog,
                                spc, buffer>>

-----------------------------------------------------------------------------
(* echoServ.c *)

\* The table's entries from index s on that select found readable
Todo(table, set, s) == {j \in s .. MAXCLIENT - 1 : table[j] \in set}

\* Go on with the first such entry, or with the next select
ServeFrom(table, set, s) == LET todo == Todo(table, set, s)
                            IN  /\ spc' = IF todo = {} THEN "select" ELSE "read"
                                /\ i' = IF todo = {} THEN 0 ELSE Min(todo)

Readable(f) == IF f = sockfd THEN backlog # <<>> ELSE up[conn[f]] # <<>>

\* select; a new connection is accepted first
Select == /\ spc = "select"
          /\ readSet' = {f \in allSet : Readable(f)}
          /\ readSet' # {}
          /\ UNCHANGED <<clientVars, up, down, buffer, kills>>

select == /\ Select /\ backlog = <<>>
          /\ ServeFrom(client, readSet', 0)
          /\ UNCHANGED <<conn, client, allSet, backlog>>

\* accept returns the lowest free descriptor. With the table full the loop
\* goes on with the connection open and in nobody's hands
accept == LET connectfd == Min({f \in Fds \ {sockfd} : conn[f] = None})
              free == {s \in Slots : client[s] = -1}
          IN  /\ Select /\ backlog # <<>>
              /\ backlog' = Tail(backlog)
              /\ conn' = [conn EXCEPT ![connectfd] = Head(backlog)]
              /\ IF free = {}
                   THEN spc' = "select" /\ UNCHANGED <<client, allSet, i>>
                   ELSE /\ client' = [client EXCEPT ![Min(free)] = connectfd]
                        /\ allSet' = allSet \cup {connectfd}
                        /\ ServeFrom(client', readSet', 0)

\* accept fails otherwise than by EINTR: the connection stays in the backlog.
\* The first free entry gets -1, which keeps it free, and FD_SET(-1) sets a bit
\* of allSet past maxfd, which select does not look at; the loop goes on
AcceptFails == /\ Select /\ backlog # <<>>
               /\ IF \A s \in Slots : client[s] # -1
                    THEN spc' = "select" /\ UNCHANGED i
                    ELSE ServeFrom(client, readSet', 0)
               /\ UNCHANGED <<conn, client, allSet, backlog>>

Current == conn[client[i]]

\* str_serv reads; an error (n < 0) leaves the entry as it is
ReadChunk == /\ spc = "read" /\ up[Current] # <<>> /\ Head(up[Current]).n # 0
             /\ up' = [up EXCEPT ![Current] = Tail(@)]
             /\ IF Head(up[Current]).n > 0
                  THEN buffer' = <<Head(up[Current])>> /\ spc' = "write" /\ UNCHANGED i
                  ELSE ServeFrom(client, readSet, i + 1) /\ UNCHANGED buffer
             /\ UNCHANGED <<clientVars, conn, client, allSet, readSet, down, backlog, kills>>

\* Mutant: the entry is not cleared.
CloseKeepsEntry ==
    /\ spc = "read" /\ up[Current] # <<>> /\ Head(up[Current]).n = 0
    /\ up' = [up EXCEPT ![Current] = Tail(@)]
    /\ down' = [down EXCEPT ![Current] = IF Ended(Current) THEN @ ELSE Append(@, EOF(Current))]
    /\ conn' = [conn EXCEPT ![client[i]] = None]
    /\ allSet' = allSet \ {client[i]}
    /\ ServeFrom(client, readSet, i + 1)
    /\ UNCHANGED <<clientVars, client, readSet, backlog, buffer, kills>>

\* End of file: close the descriptor, stop watching it, clear the entry
CloseConnection ==
    /\ spc = "read" /\ up[Current] # <<>> /\ Head(up[Current]).n = 0
    /\ up' = [up EXCEPT ![Current] = Tail(@)]
    /\ down' = [down EXCEPT ![Current] = IF Ended(Current) THEN @ ELSE Append(@, EOF(Current))]
    /\ conn' = [conn EXCEPT ![client[i]] = None]
    /\ allSet' = allSet \ {client[i]}
    /\ client' = [client EXCEPT ![i] = -1]
    /\ ServeFrom(client', readSet, i + 1)
    /\ UNCHANGED <<clientVars, readSet, backlog, buffer, kills>>

\* str_serv writes back, blocking while the client's buffer is full
WriteChunk == /\ spc = "write" /\ ~Ended(Current) /\ Len(down[Current]) < SockBuf
              /\ down' = [down EXCEPT ![Current] = @ \o buffer]
              /\ buffer' = <<>> /\ ServeFrom(client, readSet, i + 1)
              /\ UNCHANGED <<clientVars, conn, client, allSet, readSet, up, backlog, kills>>

\* The client is gone: what is written is lost and nobody looks at the error ...
WriteLost == /\ spc = "write" /\ Ended(Current)
             /\ buffer' = <<>> /\ ServeFrom(client, readSet, i + 1)
             /\ UNCHANGED <<clientVars, conn, client, allSet, readSet, up, down, backlog, kills>>

\* What a client finds on its connection when the server process has ended:
\* FIN after what was written, or RST if the server had not read everything
Hangup(c) == IF c \in Range(backlog) \/ \E n \in DOMAIN up[c] : up[c][n].n > 0
               THEN Append(down[c], RST(c)) ELSE Append(down[c], EOF(c))

\* The process ends and its descriptors with it. (buffer is kept to see what
\* it had read and not written.)
ServerEnds(how) == /\ spc' = how
                   /\ down' = [c \in Clients |-> IF cpc[c] = "off" \/ Ended(c) THEN <<>>
                                                                           ELSE Hangup(c)]
                   /\ up' = [c \in Clients |-> <<>>] /\ backlog' = <<>>
                   /\ conn' = [f \in Fds |-> None] /\ client' = [s \in Slots |-> -1]
                   /\ allSet' = {} /\ readSet' = {} /\ i' = 0
                   /\ UNCHANGED <<clientVars, buffer>>

\* ... or raises SIGPIPE
Sigpipe == /\ spc = "write" /\ Ended(Current)
           /\ ServerEnds("sigpipe") /\ UNCHANGED kills

KillServer == ServerUp /\ kills < MaxKills /\ kills' = kills + 1 /\ ServerEnds("killed")

server == select \/ accept \/ ReadChunk \/ CloseConnection \/ WriteChunk \/ WriteLost \/ Sigpipe

Next == \/ server \/ AcceptFails \/ KillServer
        \/ \E c \in Clients : connect(c) \/ str_cli(c) \/ KillClient(c)

\* The server and connected clients are scheduled, users go on typing, and
\* accept does not fail for ever.
Spec == Init /\ [][Next]_vars /\ WF_vars(server) /\ \A c \in Clients : WF_vars(str_cli(c))

-----------------------------------------------------------------------------
(* Properties *)

\* Every variable keeps its type: the server's sets and its table hold
\* descriptors only, and at most one read is pending between read and write.
TypeOK == /\ cpc \in [Clients -> {"off", "select", "terminal", "exit0", "exit-1", "killed"}]
          /\ \A c \in Clients : typed[c] \in 0 .. Input(c)
          /\ endOfTerminal \in [Clients -> BOOLEAN]
          /\ spc \in {"select", "read", "write", "killed", "sigpipe"}
          /\ conn \in [Fds -> Clients \cup {None}] /\ client \in [Slots -> Fds \cup {-1}]
          /\ allSet \subseteq Fds /\ readSet \subseteq Fds /\ i \in Slots
          /\ Len(buffer) <= 1

\* The server's table, its select set and its open descriptors agree: entries
\* are different open connections, and exactly these are watched.
TableConsistent ==
    ServerUp =>
        /\ allSet = {sockfd} \cup ({client[s] : s \in Slots} \ {-1})
        /\ \A s, t \in Slots : client[s] = client[t] /\ client[s] # -1 => s = t
        /\ \A f \in allSet \ {sockfd} : conn[f] # None

\* The one thread that serves everybody never blocks in read: what select
\* reported is still there when its turn comes, whatever connections were
\* accepted or closed in between, and its table stays consistent. (The notes,
\* version_2/readme.md:36, say the opposite: that the server is stuck in read with
\* a client that does not press Enter. But str_serv is called only for what select
\* reported, and such a client has sent nothing.)
ReadNeverBlocks == /\ TableConsistent
                   /\ spc = "read" => up[Current] # <<>>

\* A client only ever shows its own lines, in order, each once, and one that
\* returns from str_cli has shown the echo of everything that was typed, also
\* if the server ended by SIGPIPE on another client. The one thing that can be
\* missing is a line the server had read when it was killed.
NormalEndIsComplete ==
    \A c \in Clients :
        /\ printed[c] = [k \in 1 .. Len(printed[c]) |-> Chunk(c, k)]
        /\ cpc[c] = "exit0" =>
             \/ Len(printed[c]) = Input(c)
             \/ /\ spc = "killed" /\ Len(printed[c]) = Input(c) - 1
                /\ buffer = <<Chunk(c, Input(c))>>

\* The connection was accepted when the table was full.
Leaked(c) == ServerUp /\ \E f \in Fds : conn[f] = c /\ f \notin allSet

\* Every client ends, unless the table was full when it came: neither the
\* other clients nor full socket buffers in both directions hold it up.
ClientsEnd == <>[](\A c \in Clients : cpc[c] = "off" \/ Ended(c) \/ Leaked(c))
=============================================================================
