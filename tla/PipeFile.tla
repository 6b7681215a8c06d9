------------------------------ MODULE PipeFile ------------------------------
(***************************************************************************)
(* IPC/PipeFIFO: a client asks a server for a file, over two one-way pipes *)
(* that end when the last writer closes them.                              *)
(*   "fifo"  FifoServer.c and FifoClient.c: two FIFOs with names, which    *)
(*           either program creates and the client removes; both may be    *)
(*           run again and again                                           *)
(*   "pipe"  Pipe.c: two pipes, the server a child of the client           *)
(* One server and one client run at a time, but a program may be started   *)
(* before the other has ended, and each may be killed.                     *)
(***************************************************************************)
EXTENDS Naturals, Sequences, FiniteSets, FiniteSetsExt

CONSTANTS Kinds,       \* the programs considered
          Chunks,      \* reads' worth of data in the file asked for
          PipeSize,    \* writes that a pipe holds
          MaxRuns,     \* bound: how often each program is started
          MaxFaults    \* bound: processes killed, calls that fail

ASSUME KindsAssumption == Kinds \subseteq {"fifo", "pipe"}
ASSUME SizesAssumption == /\ Chunks \in Nat /\ PipeSize \in Nat \ {0}
                          /\ MaxRuns \in Nat /\ MaxFaults \in Nat

VARIABLES
    kind, at,        \* where each program is
    ends,            \* the ends of pipes each process has open
    waits,           \* the end that open is blocked on, or <<>>
    name,            \* the pipe that each name refers to, or NoPipe
    data,            \* what is in each pipe
    asked, printed,  \* the client's path and output
    todo,            \* what the server has still to send
    runs, faults,
    started,         \* the programs started since nobody ran ...
    twice, faulty    \* ... whether one was started twice, or there was a fault

pipeVars == <<kind, at, ends, waits, name, data, asked, printed, todo, runs, faults, started, twice, faulty>>

Procs == {"server", "client"}
Pipes == 1 .. 4      \* enough for two names and two pipes without a name
NoPipe == 0
FIFO1 == 1           \* carries the path
FIFO2 == 2           \* carries the file

\* What the user types: a file with data, an empty one, one that cannot be
\* opened, or nothing. (What fgets leaves at end of input is one of the last two.)
Paths == {"file", "void", "missing", ""}

\* The messages that serve sends for a path
Reply(path) == CASE path = "file" -> [k \in 1 .. Chunks |-> k]
                 [] path = "void" -> <<>>
                 [] OTHER -> <<"can not open">>

Running(p) == at[p] \notin {"off", "exit0", "exit-1", "killed"}
Quiet == \A p \in Procs : ~Running(p)

PipeInit == /\ kind \in Kinds /\ at = [p \in Procs |-> "off"]
            /\ ends = [p \in Procs |-> {}] /\ waits = [p \in Procs |-> <<>>]
            /\ name = [n \in {FIFO1, FIFO2} |-> NoPipe] /\ data = [i \in Pipes |-> <<>>]
            /\ asked = "" /\ printed = <<>> /\ todo = <<>>
            /\ runs = [p \in Procs |-> 0] /\ faults = 0 /\ started = {}
            /\ twice = FALSE /\ faulty = FALSE

-----------------------------------------------------------------------------
(* The kernel's pipes *)

HasEnd(i, mode) == \E p \in Procs : <<i, mode>> \in ends[p]

\* Process p closes some ends; a pipe that nobody has open is empty again
CloseEnds(p, S) == /\ ends' = [ends EXCEPT ![p] = @ \ S]
                   /\ data' = [i \in Pipes |-> IF \E q \in Procs : \E e \in ends'[q] : e[1] = i
                                                 THEN data[i] ELSE <<>>]

\* The pipe process p reads from or writes to; NoPipe for a descriptor of -1
Fd(p, mode) == IF \E i \in Pipes : <<i, mode>> \in ends[p]
                 THEN CHOOSE i \in Pipes : <<i, mode>> \in ends[p] ELSE NoPipe

Partner(mode) == IF mode = "r" THEN "w" ELSE "r"

Goto(p, from, to) == /\ at[p] = from /\ waits[p] = <<>>
                     /\ at' = [at EXCEPT ![p] = to]
                     /\ UNCHANGED <<kind, runs, faults, started, twice, faulty>>

\* A process ends: its ends are closed
Exit(p, from, how) == /\ Goto(p, from, how) /\ CloseEnds(p, ends[p])
                      /\ UNCHANGED <<waits, name, asked, printed, todo>>

\* open blocks until the other end is opened, by whom it wakes in turn. A name
\* that is gone gives -1, which nobody looks at
Open(p, n, mode, from, to) ==
    LET i == name[n]
        other == <<i, Partner(mode)>>
    IN  /\ Goto(p, from, to)
        /\ ends' = [ends EXCEPT ![p] = IF i = NoPipe THEN @ ELSE @ \cup {<<i, mode>>}]
        /\ waits' = [q \in Procs |->
                       IF q # p THEN (IF waits[q] = other THEN <<>> ELSE waits[q])
                       ELSE IF i = NoPipe \/ HasEnd(i, Partner(mode)) THEN <<>> ELSE <<i, mode>>]
        /\ UNCHANGED <<name, data, asked, printed, todo>>

\* mkfifo; EEXIST is as good
Mkfifo(p, n, from, to) ==
    LET used == {name[FIFO1], name[FIFO2]} \cup {e[1] : e \in UNION {ends[q] : q \in Procs}}
    IN  /\ Goto(p, from, to)
        /\ name' = [name EXCEPT ![n] = IF @ = NoPipe THEN Min(Pipes \ used) ELSE @]
        /\ UNCHANGED <<ends, waits, data, asked, printed, todo>>

Unlink(p, n, from, to) == /\ Goto(p, from, to)
                          /\ name' = [name EXCEPT ![n] = NoPipe]
                          /\ UNCHANGED <<ends, waits, data, asked, printed, todo>>

-----------------------------------------------------------------------------
(* The user, and what goes wrong *)

\* Programs are started
Start(S, first) ==
    /\ \A p \in S : ~Running(p) /\ runs[p] < MaxRuns
    /\ at' = [p \in Procs |-> IF p \in S THEN first ELSE at[p]]
    /\ runs' = [p \in Procs |-> IF p \in S THEN runs[p] + 1 ELSE runs[p]]
    /\ started' = IF Quiet THEN S ELSE started \cup S
    /\ twice' = (~Quiet /\ (twice \/ S \cap started # {}))
    /\ IF "client" \in S THEN asked' = "" /\ printed' = <<>> ELSE UNCHANGED <<asked, printed>>
    /\ UNCHANGED <<kind, waits, name, data, todo>>

StartFifo(p) == /\ kind = "fifo" /\ Start({p}, "mkfifo1")
                /\ faulty' = (faulty /\ ~Quiet)
                /\ UNCHANGED <<ends, faults>>

\* Pipe.c: two pipes, and fork, which hands all four ends to the child
AllEnds == {FIFO1, FIFO2} \X {"r", "w"}
StartPipe == /\ kind = "pipe" /\ Start(Procs, "close")
             /\ ends' = [p \in Procs |-> AllEnds]
             /\ faulty' = FALSE /\ UNCHANGED faults

Fault == faults < MaxFaults /\ faults' = faults + 1 /\ faulty' = TRUE

\* fork fails, and -1 is taken for the child's number
ForkFails == /\ kind = "pipe" /\ Quiet /\ Start({"client"}, "close") /\ Fault
             /\ ends' = [ends EXCEPT !["client"] = AllEnds]

Kill(p) == /\ Running(p) /\ Fault
           /\ at' = [at EXCEPT ![p] = "killed"] /\ waits' = [waits EXCEPT ![p] = <<>>]
           /\ CloseEnds(p, ends[p])
           /\ UNCHANGED <<kind, runs, started, twice, name, asked, printed, todo>>

\* The second mkfifo fails: the first name is removed, whoever made it
MkfifoFails(p) == /\ at[p] = "mkfifo2" /\ Fault
                  /\ at' = [at EXCEPT ![p] = "exit-1"]
                  /\ name' = [name EXCEPT ![FIFO1] = NoPipe]
                  /\ UNCHANGED <<kind, runs, started, twice, ends, waits, data, asked, printed, todo>>

\* Reading the file fails, which the server takes for its end
FileReadFails == /\ at["server"] = "send" /\ todo # <<>> /\ Fault
                 /\ todo' = <<>>
                 /\ UNCHANGED <<kind, at, runs, started, twice, ends, waits, name, data, asked, printed>>

-----------------------------------------------------------------------------
(* FifoServer.c; the child of Pipe.c *)

ServerMkfifo == Mkfifo("server", FIFO1, "mkfifo1", "mkfifo2") \/ Mkfifo("server", FIFO2, "mkfifo2", "open1")

ServerOpen == Open("server", FIFO1, "r", "open1", "open2") \/ Open("server", FIFO2, "w", "open2", "read")

\* The ends of the other process are closed
ChildClose == /\ Goto("server", "close", "read")
              /\ CloseEnds("server", {<<FIFO1, "w">>, <<FIFO2, "r">>})
              /\ UNCHANGED <<waits, name, asked, printed, todo>>

\* read gets everything there is, two paths run into one; of a descriptor of
\* -1 it gets an error, and the path is what the buffer happens to hold
ReadPath == LET i == Fd("server", "r") IN
    /\ Goto("server", "read", "send")
    /\ i # NoPipe => data[i] # <<>>
    /\ todo' = IF i # NoPipe /\ Len(data[i]) = 1 THEN Reply(Head(data[i])) ELSE Reply("missing")
    /\ data' = IF i = NoPipe THEN data ELSE [data EXCEPT ![i] = <<>>]
    /\ UNCHANGED <<ends, waits, name, asked, printed>>

\* n == 0: "None of filePath!"
NoFilePath == LET i == Fd("server", "r") IN
    /\ i # NoPipe /\ data[i] = <<>> /\ ~HasEnd(i, "w")
    /\ Exit("server", "read", "exit-1")

\* Mutant: if instead of while.
SendFirst == LET i == Fd("server", "w") IN
    /\ Goto("server", "send", "send")
    /\ todo # <<>>
    /\ i # NoPipe => HasEnd(i, "r") /\ Len(data[i]) < PipeSize
    /\ data' = IF i = NoPipe THEN data ELSE [data EXCEPT ![i] = Append(@, Head(todo))]
    /\ todo' = <<>>
    /\ UNCHANGED <<ends, waits, name, asked, printed>>

\* write blocks while the pipe is full, and nobody looks at an error
Send == LET i == Fd("server", "w") IN
    /\ Goto("server", "send", "send")
    /\ todo # <<>>
    /\ i # NoPipe => HasEnd(i, "r") /\ Len(data[i]) < PipeSize
    /\ data' = IF i = NoPipe THEN data ELSE [data EXCEPT ![i] = Append(@, Head(todo))]
    /\ todo' = Tail(todo)
    /\ UNCHANGED <<ends, waits, name, asked, printed>>

\* A pipe without a reader: SIGPIPE
ServerSigpipe == LET i == Fd("server", "w") IN
    /\ todo # <<>> /\ i # NoPipe /\ ~HasEnd(i, "r")
    /\ Exit("server", "send", "killed")

ServerExit == todo = <<>> /\ Exit("server", "send", "exit0")

server == \/ ServerMkfifo \/ ServerOpen \/ ChildClose
          \/ ReadPath \/ NoFilePath \/ Send \/ ServerSigpipe \/ ServerExit

-----------------------------------------------------------------------------
(* FifoClient.c; the parent of Pipe.c *)

ClientMkfifo == Mkfifo("client", FIFO1, "mkfifo1", "mkfifo2") \/ Mkfifo("client", FIFO2, "mkfifo2", "open1")

\* Mutant: the FIFO to read from is opened first.
ClientOpenReadFirst == Open("client", FIFO2, "r", "open1", "open2") \/ Open("client", FIFO1, "w", "open2", "ask")

ClientOpen == Open("client", FIFO1, "w", "open1", "open2") \/ Open("client", FIFO2, "r", "open2", "ask")

\* Mutant: the writing end of the second pipe is kept.
ParentCloseOne == /\ Goto("client", "close", "ask")
                  /\ CloseEnds("client", {<<FIFO1, "r">>})
                  /\ UNCHANGED <<waits, name, asked, printed, todo>>

ParentClose == /\ Goto("client", "close", "ask")
               /\ CloseEnds("client", {<<FIFO1, "r">>, <<FIFO2, "w">>})
               /\ UNCHANGED <<waits, name, asked, printed, todo>>

\* fgets and write, of nothing for an empty line and to nobody if open failed
Ask == LET i == Fd("client", "w") IN
    /\ Goto("client", "ask", "show")
    /\ \E path \in Paths :
         /\ asked' = path
         /\ IF path = "" \/ i = NoPipe THEN UNCHANGED data
            ELSE HasEnd(i, "r") /\ Len(data[i]) < PipeSize /\ data' = [data EXCEPT ![i] = Append(@, path)]
    /\ UNCHANGED <<ends, waits, name, printed, todo>>

ClientSigpipe == LET i == Fd("client", "w") IN
    /\ i # NoPipe /\ ~HasEnd(i, "r")
    /\ Exit("client", "ask", "killed")

Show == LET i == Fd("client", "r") IN
    /\ Goto("client", "show", "show")
    /\ i # NoPipe /\ data[i] # <<>>
    /\ printed' = Append(printed, Head(data[i]))
    /\ data' = [data EXCEPT ![i] = Tail(@)]
    /\ UNCHANGED <<ends, waits, name, asked, todo>>

\* n <= 0: no writer is left, or there was no FIFO to open. The client of the
\* FIFOs closes them
ShowEnds == LET i == Fd("client", "r") IN
    /\ Goto("client", "show", IF kind = "fifo" THEN "unlink1" ELSE "waitpid")
    /\ i # NoPipe => data[i] = <<>> /\ ~HasEnd(i, "w")
    /\ IF kind = "fifo" THEN CloseEnds("client", ends["client"]) ELSE UNCHANGED <<ends, data>>
    /\ UNCHANGED <<waits, name, asked, printed, todo>>

\* ... and removes their names
ClientUnlink == \/ Unlink("client", FIFO1, "unlink1", "unlink2")
                \/ Unlink("client", FIFO2, "unlink2", "exit0")

ParentWait == ~Running("server") /\ Exit("client", "waitpid", "exit0")

fileClient == \/ ClientMkfifo \/ ClientOpen \/ ParentClose \/ Ask \/ ClientSigpipe
              \/ Show \/ ShowEnds \/ ClientUnlink \/ ParentWait

PipeNext == \/ server \/ fileClient \/ StartPipe \/ ForkFails \/ FileReadFails
            \/ \E p \in Procs : StartFifo(p) \/ Kill(p) \/ MkfifoFails(p)

\* What runs is scheduled, and the user types a path. Nothing has to be started.
PipeSpec == PipeInit /\ [][PipeNext]_pipeVars /\ WF_pipeVars(server) /\ WF_pipeVars(fileClient)

-----------------------------------------------------------------------------
(* Properties *)

\* Every variable keeps its type: a process has at most one end of each kind
\* open, once Pipe.c has closed the others, and pipes are within their size.
PipeTypeOK == /\ kind \in Kinds
              /\ \A p \in Procs, mode \in {"r", "w"} :
                   at[p] = "close" \/ Cardinality({e \in ends[p] : e[2] = mode}) <= 1
              /\ \A p \in Procs : ends[p] \subseteq Pipes \X {"r", "w"} /\ waits[p] \in ends[p] \cup {<<>>}
              /\ name \in [{FIFO1, FIFO2} -> Pipes \cup {NoPipe}]
              /\ \A i \in Pipes : Len(data[i]) <= PipeSize
              /\ asked \in Paths /\ runs \in [Procs -> 0 .. MaxRuns]
              /\ started \subseteq Procs /\ twice \in BOOLEAN /\ faulty \in BOOLEAN

\* Without a fault a client that ends has shown the file it asked for, all of it
\* and in order: whatever earlier runs have left behind, and even if a server was
\* started again while the client was still at work or removing the names. The
\* names are gone if none was.
ReplyComplete == ~faulty /\ "client" \in started /\ at["client"] = "exit0" =>
                    /\ printed = Reply(asked)
                    /\ twice \/ name = [n \in {FIFO1, FIFO2} |-> NoPipe]

\* The user typed nothing, so that nothing was written: the server waits for
\* the path and the client for the file, each with its own end open.
NothingAsked == at["client"] = "show" /\ asked = ""

\* A session of one server and one client without a fault ends: neither the
\* order in which the FIFOs are opened nor a full pipe, nor an end that was left
\* open, holds it up for ever.
SessionEnds == (started = Procs /\ ~twice /\ ~faulty) ~> (Quiet \/ twice \/ faulty \/ NothingAsked)
=============================================================================
