------------------------------ MODULE MsgQueue ------------------------------
(***************************************************************************)
(* IPC/MsgQueue: a client sends a path over one System V message queue,    *)
(* a server answers with the contents of that file over another. A message *)
(* carries the client's pid as its type. Both sides create the queues they *)
(* do not find, the client removes both before it exits, and a server      *)
(* serves one request and exits; it may be started again.                  *)
(***************************************************************************)
EXTENDS Naturals, Sequences, SequencesExt

CONSTANTS Clients,    \* client processes, identified by their pid
          Chunks,     \* messages a readable file fills
          QBytes,     \* messages a queue holds (the kernel's msg_qbytes)
          MaxServers  \* bound: how often the server is started

ASSUME SizesAssumption == Chunks \in Nat /\ QBytes \in Nat \ {0} /\ MaxServers \in Nat \ {0}

VARIABLES
    key,              \* the identifier of the queue a key names, or NoQueue
    queue,            \* by identifier: the messages in the queue
    cpc, ids, path,   \* clients: control point, identifiers they hold, path typed
    printed, ended,   \* what they wrote to stdout, and how their loop ended
    spc, sids, msg,   \* the server: control point, identifiers, struct mymsg msg
    offset,           \* chunks of the file it has read
    servers           \* how often it was started

clientVars == <<cpc, ids, path, printed, ended>>
serverVars == <<spc, sids, msg, offset, servers>>
vars == <<key, queue, clientVars, serverVars>>

Keys == {"key1", "key2"}
NoQueue == 0
Paths == {"", "unreadable", "fileA", "fileB"}

\* The data messages the server sends for a path that is not empty: the chunks of
\* the file, or the one message that says that it can not be opened
Reply(p) == [k \in 1 .. IF p = "unreadable" THEN 1 ELSE Chunks |-> <<p, k>>]
EOF == <<>>    \* the message of length 0

Init == /\ key = [k \in Keys |-> NoQueue] /\ queue = <<>>
        /\ cpc = [c \in Clients |-> "off"]
        /\ ids = [c \in Clients |-> [k \in Keys |-> NoQueue]]
        /\ path = [c \in Clients |-> ""]
        /\ printed = [c \in Clients |-> <<>>] /\ ended = [c \in Clients |-> "no"]
        /\ spc = "off" /\ sids = [k \in Keys |-> NoQueue] /\ msg = <<>>
        /\ offset = 0 /\ servers = 0

-----------------------------------------------------------------------------
(* The kernel's queues *)

\* The identifier msgget(k, IPC_CREAT) returns, and what it does
Id(k) == IF key[k] = NoQueue THEN Len(queue) + 1 ELSE key[k]
msgget(k) == /\ key' = [key EXCEPT ![k] = Id(k)]
             /\ queue' = IF key[k] = NoQueue THEN Append(queue, <<>>) ELSE queue

\* An identifier is good as long as a key names its queue
Removed(id) == \A k \in Keys : key[k] # id

\* msgsnd blocks while the queue is full, and fails when it has been removed
msgsnd(id, m) == IF Removed(id)
                   THEN UNCHANGED queue
                   ELSE /\ Len(queue[id]) < QBytes
                        /\ queue' = [queue EXCEPT ![id] = Append(@, m)]

\* msgrcv removes the message at position n of queue id
Take(id, n) == queue' = [queue EXCEPT ![id] = RemoveAt(@, n)]

First(id, type) == {n \in DOMAIN queue[id] :
                      /\ queue[id][n].type = type
                      /\ \A m \in 1 .. n - 1 : queue[id][m].type # type}

\* msgctl(IPC_RMID): the key is free again; blocked callers get EIDRM
RMID(id) == /\ queue' = [queue EXCEPT ![id] = <<>>]
            /\ key' = [k \in Keys |-> IF key[k] = id THEN NoQueue ELSE key[k]]

-----------------------------------------------------------------------------
(* SystemVMsgQClient.c *)

ClientGoto(c, from, to) == /\ cpc[c] = from /\ cpc' = [cpc EXCEPT ![c] = to]
                           /\ UNCHANGED serverVars

ClientGet(c, from, k, to) == /\ ClientGoto(c, from, to)
                             /\ msgget(k)
                             /\ ids' = [ids EXCEPT ![c][k] = Id(k)]
                             /\ UNCHANGED <<path, printed, ended>>
ClientGet1(c) == ClientGet(c, "off", "key1", "get2")
ClientGet2(c) == ClientGet(c, "get2", "key2", "send")

\* fgets, strip the newline, type = getpid(), msgsnd (its result is ignored)
SendPath(c) == \E p \in Paths :
                 /\ ClientGoto(c, "send", "receive")
                 /\ msgsnd(ids[c]["key1"], [type |-> c, data |-> p])
                 /\ path' = [path EXCEPT ![c] = p]
                 /\ UNCHANGED <<key, ids, printed, ended>>

\* Mutant: msgrcv for a message of any type.
ReceiveAny(c) == LET id == ids[c]["key2"]
                 IN  /\ ClientGoto(c, "receive", "receive")
                     /\ ~Removed(id) /\ queue[id] # <<>>
                     /\ Head(queue[id]).data # EOF
                     /\ Take(id, 1)
                     /\ printed' = [printed EXCEPT ![c] = Append(@, Head(queue[id]).data)]
                     /\ UNCHANGED <<key, ids, path, ended>>

\* n > 0: write the message out
Receive(c) == LET id == ids[c]["key2"]
              IN  /\ ClientGoto(c, "receive", "receive")
                  /\ ~Removed(id)
                  /\ \E n \in First(id, c) :
                       /\ queue[id][n].data # EOF
                       /\ Take(id, n)
                       /\ printed' = [printed EXCEPT ![c] = Append(@, queue[id][n].data)]
                  /\ UNCHANGED <<key, ids, path, ended>>

\* n == 0: the end-of-file message
ReceiveEOF(c) == LET id == ids[c]["key2"]
                 IN  /\ ClientGoto(c, "receive", "rmid2")
                     /\ ~Removed(id)
                     /\ \E n \in First(id, c) : queue[id][n].data = EOF /\ Take(id, n)
                     /\ ended' = [ended EXCEPT ![c] = "EOF"]
                     /\ UNCHANGED <<key, ids, path, printed>>

\* n == -1: the queue is gone
ReceiveError(c) == /\ ClientGoto(c, "receive", "rmid2")
                   /\ Removed(ids[c]["key2"])
                   /\ ended' = [ended EXCEPT ![c] = "error"]
                   /\ UNCHANGED <<key, queue, ids, path, printed>>

\* IPC_RMID for both queues, whoever else uses them
ClientRemove2(c) == /\ ClientGoto(c, "rmid2", "rmid1")
                    /\ RMID(ids[c]["key2"]) /\ UNCHANGED <<ids, path, printed, ended>>
ClientRemove1(c) == /\ ClientGoto(c, "rmid1", "exit")
                    /\ RMID(ids[c]["key1"]) /\ UNCHANGED <<ids, path, printed, ended>>

client(c) == \/ ClientGet2(c) \/ SendPath(c) \/ Receive(c) \/ ReceiveEOF(c)
             \/ ReceiveError(c) \/ ClientRemove2(c) \/ ClientRemove1(c)

-----------------------------------------------------------------------------
(* SystemVMsgQServer.c *)

ServerGoto(from, to) == /\ spc = from /\ spc' = to
                        /\ UNCHANGED <<clientVars, servers>>

\* A new server process
ServerGet1 == /\ spc \in {"off", "exit"} /\ spc' = "get2"
              /\ servers < MaxServers /\ servers' = servers + 1
              /\ msgget("key1")
              /\ sids' = [k \in Keys |-> IF k = "key1" THEN Id(k) ELSE NoQueue]
              /\ msg' = <<>> /\ offset' = 0
              /\ UNCHANGED clientVars

ServerGet2 == /\ ServerGoto("get2", "receive")
              /\ msgget("key2") /\ sids' = [sids EXCEPT !["key2"] = Id("key2")]
              /\ UNCHANGED <<msg, offset>>

Requests == queue[sids["key1"]]

\* The first request of any type; a path that is not empty
ReceivePath == /\ ServerGoto("receive", "send")
               /\ ~Removed(sids["key1"]) /\ Requests # <<>>
               /\ Head(Requests).data # ""
               /\ Take(sids["key1"], 1) /\ msg' = Head(Requests)
               /\ UNCHANGED <<key, sids, offset>>

\* msgrcv <= 0: an empty path or a removed queue; exit(-1) without an answer
NoPath == /\ ServerGoto("receive", "exit")
          /\ \/ Removed(sids["key1"]) /\ UNCHANGED queue
             \/ /\ ~Removed(sids["key1"]) /\ Requests # <<>>
                /\ Head(Requests).data = "" /\ Take(sids["key1"], 1)
          /\ UNCHANGED <<key, sids, msg, offset>>

\* Mutant: the type is not kept for the answer.
SendChunkUntyped == /\ ServerGoto("send", "send")
                    /\ offset < Len(Reply(msg.data))
                    /\ msgsnd(sids["key2"], [type |-> 0, data |-> Reply(msg.data)[offset + 1]])
                    /\ offset' = offset + 1
                    /\ UNCHANGED <<key, sids, msg>>

\* One message: the error text or the next chunk read from the file
SendChunk == /\ ServerGoto("send", "send")
             /\ offset < Len(Reply(msg.data))
             /\ msgsnd(sids["key2"], [type |-> msg.type, data |-> Reply(msg.data)[offset + 1]])
             /\ offset' = offset + 1
             /\ UNCHANGED <<key, sids, msg>>

\* Mutant: the server leaves without the message of length 0.
SendNoEOF == /\ ServerGoto("send", "exit") /\ offset = Len(Reply(msg.data))
             /\ UNCHANGED <<key, queue, sids, msg, offset>>

\* read() returns 0: the message of length 0, exit(0)
SendEOF == /\ ServerGoto("send", "exit")
           /\ offset = Len(Reply(msg.data))
           /\ msgsnd(sids["key2"], [type |-> msg.type, data |-> EOF])
           /\ UNCHANGED <<key, sids, msg, offset>>

server == ServerGet2 \/ ReceivePath \/ NoPath \/ SendChunk \/ SendEOF

Next == ServerGet1 \/ server \/ \E c \in Clients : ClientGet1(c) \/ client(c)

\* Processes that have been started are scheduled; nobody has to start one.
Spec == Init /\ [][Next]_vars /\ WF_vars(server) /\ \A c \in Clients : WF_vars(client(c))

-----------------------------------------------------------------------------
(* Properties *)

\* Every variable keeps its type: queues stay within their bound, and every
\* message has the pid of a client as its type.
TypeOK == /\ key \in [Keys -> 0 .. Len(queue)]
          /\ \A id \in DOMAIN queue :
               /\ Len(queue[id]) <= QBytes
               /\ \A n \in DOMAIN queue[id] : queue[id][n].type \in Clients
          /\ cpc \in [Clients -> {"off", "get2", "send", "receive", "rmid2", "rmid1", "exit"}]
          /\ path \in [Clients -> Paths] /\ ended \in [Clients -> {"no", "EOF", "error"}]
          /\ spc \in {"off", "get2", "receive", "send", "exit"}
          /\ offset \in 0 .. Chunks + 1 /\ servers \in 0 .. MaxServers

\* However clients, servers and queue removals interleave, a client prints only
\* the reply to its own path, in order and without a gap: all of it if it leaves
\* its loop by the message of length 0, and if it leaves by an error of msgrcv,
\* another client has finished and removed the queue.
OwnReplyInOrder ==
    \A c \in Clients :
        /\ IsPrefix(printed[c], Reply(path[c]))
        /\ ended[c] = "EOF" => printed[c] = Reply(path[c])
        /\ ended[c] = "error" => \E d \in Clients \ {c} : ended[d] # "no"

\* A client that is alone, with a path that is not empty, and a server that is
\* started some time before or after it: the client exits with all of the
\* reply printed. Neither side is left blocked on a full or an empty queue.
LoneClientServed ==
    \A c \in Clients :
        [](\A d \in Clients \ {c} : cpc[d] = "off")
          => (servers > 0 /\ cpc[c] = "receive" /\ path[c] # ""
                ~> cpc[c] = "exit" /\ printed[c] = Reply(path[c]))
=============================================================================
