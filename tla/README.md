# Verification of the IPC and network programs

The repository is a set of reading notes on *UNIX Network Programming*, with
programs its author wrote while reading. This directory holds TLA+ models of
those programs, TLC configurations that check them on small instances, and
TLAPS proofs that hold for every size. Paths below are relative to `src/`.

## 1. Inventory

### What is the repository's own code

About 4300 lines of C, under `IPC/{MsgQueue,MutexAndCondAndRwlock,PipeFIFO,
RecordLock,Semaphore,ShareMemory,test}` and `UNPLearning/notes/{echoServer,UDP,
ping,socket,interface,socketAddr}`; the definitions of this project stand for
more than half of them. `IPC/unpv22e` and `UNPLearning/unpv13e` are the
textbooks' sources, `UNPLearning/notes/include` holds system headers (together
more than 90 000 lines), and `DataBase`, `compiler` and `IPC/RPC` hold text
only. They are not modelled.

Every program is small and stands alone. What makes them hard is what runs at
the same time: threads, processes that share kernel objects, a signal handler,
and a network.

### Components

| component | state | operations | shared with | what is hard | what makes it correct |
|---|---|---|---|---|---|
| condition-variable producers and consumer (`MutexAndCond.c`) | array, two indices, `uncheck`, two mutexes, per-thread counts | `producer`, `consumer`, `main` | threads of one process | two critical sections per item; the array is read under the *other* mutex; lost and spurious wakeups | every slot is read after it was filled; nothing announced is lost; everybody returns |
| semaphore producers and consumers (`SemMultiprodMulticons.c`) | ring, four indices, three semaphores | `producer`, `consumer`, `main` | threads of one process | a slot is reused at once; threads that leave must give units back | no unit of a semaphore is lost or made; every item arrives once and in order; everybody returns |
| double-buffered copy (`SemMultiBuff.c`) | ring of buffers, three *named* semaphores | `producer`, `consumer`, `main`, unlink | threads; earlier runs, through the kernel | buffers used outside the critical section; a killed run leaves its semaphores | the output is the file |
| single producer/consumer (`SemProdCons1.c`) | ring, the *same* three names, opened with `O_EXCL` | the same | threads; earlier runs of both programs | `SEM_FAILED` is not tested: a crash in the middle of a run | a run that gets its semaphores counts to the end |
| sequence number (`RecordLock*.c`, `AddOnePosix*Sem.c`) | number in a file or mapping, a lock | `mylock`, `myunlock`, `main` | processes | creating and initialising a System V semaphore are two steps; a holder is killed; a semaphore in the mapped file is a copy, and a second run writes over it | no increment is lost; the survivors finish |
| shared-memory object (`AddOneShareMemoryObject*.c`) | object and semaphore with names, mapping and lock of each client | server creates, client increments | processes; earlier runs of the server | the server unlinks and recreates what clients use or are about to open | as above, for clients that agree on object and lock |
| file server over message queues (`SystemVMsgQ*.c`) | two queues, identifiers held by processes | `server`, `client` | processes | anybody creates the queues and a client removes them; queues are bounded | a client gets the reply to its own path, all of it |
| file server over pipes and FIFOs (`FifoServer.c`, `FifoClient.c`, `Pipe.c`) | names, pipe buffers, the ends each process has open | `server`, `client` | processes; earlier runs, through the names | opening blocks until both ends are there; reading ends when the *last* writer closes; the client removes names a new server may be using | a client that ends has the whole file; sessions end |
| reliable UDP echo (`UDP/advancedUDPprogram`) | `SeqNum`, resend count, timer, estimate of the round trip | `str_cli`, `dgSendRecv`, `sigAlarmHandler`, `str_serv` | datagrams | loss, duplication, delay, reordering; `siglongjmp` out of any point | echoes are the lines, in order; the client ends |
| simple UDP echo (`UDP/simpleUDPprogram`) | none | send, receive | datagrams | a lost datagram blocks the client | none promised |
| select echo server and client (`echoServer/version_2`, `version_5`) | `client[]`, `allSet`, `readSet`, open descriptors, socket buffers, `endOfTerminal` | server loop, `str_serv`, `str_cli` | connections | descriptors reused within one round; table full; `accept` fails; both sides blocked in `write`; SIGPIPE; half close | one thread never blocks on one client; a client that ends normally has seen every echo |
| forking echo server (`version_1`), with `getaddrinfo` and timeouts (`version_3`, `version_4`) | children, pending signal, descriptors copied by `fork` | accept loop, `sigChildHandler`, `str_serv`, `str_cli` | connections, SIGCHLD | interrupted and failing `accept`, zombies, late replies into a buffer that is not terminated | every child reaped; a client suffers only from its own faults |
| threaded echo server (`version_6`) | one `connectfd` variable, descriptor table shared by all threads | start-up loop over addresses, accept loop, threads; two threads of the client | threads, connections | a thread reads `connectfd` by address; descriptors are reused at once; an address loop that does not advance | every connection served by one thread, its own |
| ping (`ping/myping.c`) | target address (in freed memory), signed id, sequence number | `sendFrame` (the SIGALRM handler), `recvFrame` | ICMP: a raw socket gets a copy of every message | `recvmsg` overwrites the address the handler sends to; ids equal or negative as a short; carries of the checksum | lines answer requests; requests get lines |
| address and interface utilities | none | conversions, listings | none | nothing concurrent | not stated by the code |

`PROJECT.json` lists these components with their status, and every hazard with
its line and the properties that would notice it.

## 2. Modules

| module | code | role |
|---|---|---|
| `Stream` | none (abstract) | the contract of a producer/consumer program: items once each, in order, through `Capacity` slots, then exit |
| `CondProdCons` | `IPC/MutexAndCondAndRwlock/MutexAndCond.c`, `.h` | implements `Stream` |
| `SemProdCons` | `IPC/Semaphore/SemMultiprodMulticons.c` | implements `Stream` |
| `SemMultiBuff` | `IPC/Semaphore/SemMultiBuff.c`, `SemProdCons1.c` | runs of either program that follow each other and may be killed |
| `SeqFile` | `IPC/RecordLock/*.c`, `IPC/Semaphore/RecordLocking*.c`, `IPC/ShareMemory/AddOnePosix*Sem.c`, `AddOneShareMemoryObject*.c` | one model, six programs |
| `MsgQueue` | `IPC/MsgQueue/*` | client, server and the kernel's queues |
| `PipeFile` | `IPC/PipeFIFO/FifoServer.c`, `FifoClient.c`, `Pipe.c` | client, server, names and pipes |
| `UdpEcho` | `UNPLearning/notes/UDP/advancedUDPprogram` | client, signal handler, network, server |
| `EchoSelect` | `UNPLearning/notes/echoServer/version_2`, `version_5` | clients, connections, server |
| `EchoFork` | `UNPLearning/notes/echoServer/version_1`; the servers of `version_3` and `version_4` from `accept` on, and the clients of both | clients, parent, children, signal handler |
| `EchoThread` | `UNPLearning/notes/echoServer/version_6` | clients, main thread, one thread per connection, descriptor table |
| `Ping` | `UNPLearning/notes/ping/myping.c` | several processes on one machine, hosts, network |
| `CondProdCons_proofs`, `SemProdCons_proofs`, `SemMultiBuff_proofs`, `MsgQueue_proofs`, `UdpEcho_proofs`, `EchoSelect_proofs`, `EchoFork_proofs`, `Ping_proofs` | | theorems; those of `EchoThread` are in `CondProdCons_proofs`, of `SeqFile` in `SemProdCons_proofs`, of `PipeFile` in `UdpEcho_proofs` |

Each module is checked directly: the `.cfg` files give the constants model
values and small numbers, so no separate instantiating modules are needed. In
each module, definitions whose comment starts with *Mutant* are not part of the
specification: they are plausible mistakes in the definition that follows them,
kept to show which property notices them.

### How state and steps correspond to the code

A step is what a thread or process does between two points at which another
can see or influence it. Variables keep their C names.

**CondProdCons.** `buffIndex, buffVal, buff` are `struct mutexStru`, `uncheck`
is `struct condStru`; `mutexOwner` and `condOwner` are the holders of the two
mutexes. The array store and the two increments of
`buff[buffIndex++] = buffVal++` are separate steps, because the consumer reads
the array without the mutex that protects it. `pthread_cond_wait` is one step
that blocks and unlocks; coming back from it, by a signal or without one
(`SpuriousWakeup`), goes through the `while` test again.

**SemProdCons.** The semaphores are their values. A thread takes `semEmpty` or
`semStore`, then `semMu`, and the leaving paths, which post again what they
took, are steps of their own. The counts that `main` prints are left out: it
reads them before it joins the threads, and the code promises nothing of them.

**SemMultiBuff.** `program` is the program of the current run, `"copy"`
(`SemMultiBuff.c`) or `"count"` (`SemProdCons1.c`): both use the names
`/semmutex`, `/semempty` and `/semstore`. `sem` is the kernel's table of names
and survives the process; opening is one step per name. Without `O_EXCL` a run
takes what exists with the value it has; with it, the name goes into `failed`,
and the first use of a failed semaphore is a crash. `tainted` says that the run
before was killed, so that its names may be there. A buffer holds the number of the chunk read, or
`EOF` for `n == 0`. Reading and writing a buffer are single steps; that they
never overlap on one buffer is a property, `NoTornBuffer`. A `read` of the file
that fails is not modelled.

**SeqFile.** `kind` selects the program, once, in `Init`. A System V semaphore
is its value, its creator and whether `sem_otime` is zero; its value after
`semget` is unspecified (0 or 1 in the model) until `SETVAL`. `undo` is the
adjustment the kernel keeps for `SEM_UNDO`. `Kill` closes the descriptors
(which drops a record lock), applies the adjustment and leaves a Posix
semaphore as it is. For the shared-memory object, each run of the server makes
a new generation of object and semaphore; `shmName` and `semName` are what the
names stand for at the moment, `mem` and `lockOf` what a client has mapped and
opened, `srv` the place of a server that is run again. The server's `unlink`s,
`open`s, `ftruncate` and its clearing of the object are steps of their own, so
that a client may find the name gone, an object without a size (which ends it
at its first access), or an object and a semaphore of different generations;
`cleared` are the objects that were set to zero after an increment.
The two programs that fork, `"posix"` and `"memsem"`, may be run again while an
earlier run goes on (`Rerun`): both write a zero into the file that everybody has
mapped, and `"memsem"` a new semaphore with it, which `cleared` records too. The
processes of a run to come are at `"start"`. In `"memsem"` the semaphore in the
mapping is a copy of a variable of the parent's; what that is worth is not
defined, and the model takes it to be a semaphore, as it is with glibc.

**MsgQueue.** A key names a queue or nothing (`NoQueue`). Identifiers are given
out in turn and never again; one is good while a key names its queue
(`Removed`), and operations on a removed one fail. `msgsnd` blocks on a full queue.
The file is a sequence of `Chunks` messages; an unreadable path is answered
with one message, as in the code. `ids` and `sids` are the identifiers each
process holds, which may be stale. On an empty path the server exits without an
answer, in which case the client waits for ever.

**PipeFile.** `ends` are the ends of pipes that each process has open, `waits`
the end that a blocking `open` waits with. A name refers to a pipe; a pipe
whose name was removed lives on while somebody has it open, and new names get
new pipes. `write` blocks on a full pipe and raises SIGPIPE without a reader;
`read` ends when no writer is left. A descriptor of -1, after an `open` whose
name was removed in between, is used by the programs without a test, and so it
is in the model. For `Pipe.c` the same steps start after `fork`, which gives all
four ends to both processes, and each closes two of them. Both programs may be
started again before the other has ended; `started`, `twice` and `faulty`
describe the session since nobody ran last, and only the properties look at
them.

**UdpEcho.** `requests` and `replies` only grow: a datagram may be delivered any
number of times, at any time, or never. `SIGALRM` may arrive at every point
between `alarm(rtt)` and `alarm(0)`. If it arrives before the first `sigsetjmp`
of this call the jump goes to a dead frame: the model lets the process crash
(`StaleJump`) or, if the frame happens to be the same, resend. `rtt` is reduced
to its clamping between `RTT_MIN` and `RTT_MAX`, the only thing the timer
depends on. An ICMP error may be pending when no server runs (`refused`).
`Cut` is what `recvfrom` into `MAXLEN` bytes leaves of a datagram.

**EchoSelect.** A connection is two bounded sequences of items: a positive item
is one `read`'s worth of data, 0 is FIN, -1 is RST. `conn` is the server's
descriptor table (lowest free number first), `client`, `allSet` and `readSet`
are the program's. Delivery is immediate: client and server run on one host
(version_5 by its nature, version_2 with its default address 127.0.0.1). A
write to a client that is gone may be lost or may raise SIGPIPE, whichever the
kernel has seen first; both are steps. `accept` may fail (`AcceptFails`): -1 goes
into an entry that is -1 already, and the round goes on without the connection,
or ends if the table is full. Clients in `Talkers` have `Lines` lines,
those in `Silent` none, the others one.

**EchoFork.** `open` gives the sockets each server process has open. A socket
is closed when the last process that has it closes it or ends, which is when
the other side notices; `fork` copies the parent's set, the listening socket
included. `pending` is one bit, because SIGCHLD does not queue, and the handler
may interrupt the parent between any two steps. A failing `accept` leaves
`connectfd == -1` and the loop forks all the same: the child ends with EBADF.
The state `"failed"` of a client stands for every abnormal end (`exit(-1)`,
SIGPIPE, and the `exit(0)` after a failed `write` in `version_3`). The model
starts with the server listening, and takes a line, at most 99 bytes, to arrive
in one `read`: TCP does not split a segment of that size. A client in `Timed` is
that of `version_4`: its `select` may return 0 before the echo is there, and
then it shows `inStr`, which still holds the line it sent, and goes on; the echo
is read later, possibly together with the next (`Echoes`). `read` does not
terminate what it stores: if it is exactly the line sent last, the NUL of `fgets`
stands behind it; otherwise other bytes may be shown, and the client may be
`garbled`. Its `connect` may
time out: the handler `AlarmDispose` was installed for SIGHUP, so that the
SIGALRM of `alarm(20)` ends the client.

**EchoThread.** `file` is the one descriptor table of the server, lowest free
number first. A thread is named after the connection whose `accept` led to it;
it takes `connectfd` when it first runs (`CopyFd`), and `raced` records that it
got another value than the one that was meant. A thread blocked in `read` holds
the connection (`reading`) even when the descriptor is closed under it and given
to another client; `write` and `close` act on what the number refers to by then.
`exit(-1)` in any thread, and SIGPIPE, end the server for everybody. The start
is the loop over addresses: as `continue` does not advance the pointer, it
tries the same address again, and `taken` says whether `bind` fails. The client
has two threads: `copyto` sends, `main` receives and ends the process.

**Ping.** `addr` is `*pingInfo.addr`: the destination for `sendFrame`, and the
place where `recvmsg` stores the sender of whatever arrives. `main` has freed
the memory behind it, so that it may hold `Garbage`, which `sendmsg` refuses.
`sendFrame`, the handler of SIGALRM, may run between any two steps of
`recvFrame`, in which a failing `recvmsg` ends the process (`recvmsgFails`). A message that reaches the machine is appended to the queue of every
process. Numbers have the width of the code's, as a parameter: `Base` is the
number of values of an unsigned short, `PidField` the signed short that
`getpid()` is stored in, and `checksum` adds the carries in twice, as the code
does. A host checks the sum of all words by the definition of the one's
complement sum (`Verifies`), not by the code's way to compute it. The time in
the data is part of what the checksum covers (`Data`), and is not otherwise
modelled.

## 3. Runs

| run | bounds | checks besides the types | result |
|---|---|---|---|
| `cond_prod_cons` | 3 producers, 4 items | `NeverWrong`, `ItemsConserved`, refinement of `Stream` with liveness | hold |
| `sem_prod_cons` | 3 producers, 3 consumers, ring of 3, 7 items | `UnitsConserved` (both semaphores and the post that ends the consumers), `NeverWrong`, refinement of `Stream` with liveness | hold |
| `sem_multi_buff` | 2 buffers, 3 chunks, 4 runs of either program | `NoTornBuffer`, `CleanRunCopies`, `CleanRunEnds` | hold |
| `sem_multi_buff_stale` | 3 buffers, 1 chunk, 2 runs | `EveryRunCopies` | violated, see below |
| `seq_file` | 3 processes, 2 increments each (1 for the object), 1 killed, 1 further run of the object server or of a forking program, all six kinds | `NoLostUpdate`, `SurvivorsFinish` | hold |
| `msg_queue` | 2 clients, 3 servers in turn, files of 3 messages, queues of 3 | `OwnReplyInOrder`, `LoneClientServed` | hold |
| `pipe_file` | both kinds, files of 2 messages, pipes of 1, 3 runs of each program, 2 faults | `ReplyComplete`, `SessionEnds` | hold |
| `udp_echo` | 2 lines, a length that fits and one that is cut, the code's `MAX_RESEND_TIMES`, `RTT_*`, `MAXLEN` | `EchoesInOrder`, `WaitIsTimed`, `ClientEnds` | hold |
| `echo_select` | 3 clients, one with 4 lines and one with none, table of 2, socket buffers of 1, 1 process killed | `ReadNeverBlocks`, `NormalEndIsComplete`, `ClientsEnd` | hold |
| `echo_fork` | 2 clients of 2 lines, one of them `Timed`, 1 stray child, 2 faults (killed processes, failing `accept` or `fork`, `connect` that times out) | `Isolated`, `UnharmedServed`, `AllSettles` | hold |
| `echo_thread` | 2 clients of 2 lines, 1 stray thread, 3 descriptors, 1 fault | `OnlyRaceHarms`, `ClientsEnd`, `StartsUp` | hold |
| `ping` | 2 processes (of 2 requests and of 1), 2 hosts, process identifiers 1, 9, 17, shorts of 16 values, 1 fault | `LinesAreAnswers`, `LostOnlyByFaults` | hold |

Why these bounds are enough to make the interesting cases happen:

* three producers let one be between its two critical sections while another
  is inside each; more items than slots (7 over 3) let the ring be lapped
  twice, with a producer and a consumer left over at the end;
* four runs of the programs of `SemMultiBuff` are a killed one, one of the other
  program that inherits or collides with its semaphores, one that finds what
  those two left, and a clean one; three chunks in two buffers reuse a buffer;
* three processes of `SeqFile` are a creator, one that is killed, and one that
  has to finish; with one further run of its server, two of the three clients of
  the object can be on one generation and one on the other, or between; a second
  run of a forking program can start while the first is at any step;
* a queue of three messages holds parts of the replies to both clients at once,
  so that `msgrcv` takes its type from the middle, and is full with one reply of
  three parts and its message of length 0 still to come; three servers are one for
  each client and one that finds what they left;
* a pipe of one message blocks the server on every message it sends; three runs of each pipe program are a killed one, one that finds its names,
  and one that is started while the client of that session removes them;
* two lines in `UdpEcho` are enough for a late reply to the line before, and
  three resends of each are the code's own limit;
* four lines through buffers of one item fill both directions of a connection
  and both processes' hands at once, which is what a deadlock would need; three
  clients with a table of two exercise the full table and the reuse of a
  descriptor in the round in which it was closed;
* two children that end together raise one SIGCHLD, and two faults allow a
  child and the parent, or a child and an `accept`, to fail in one behaviour;
* two connections are enough for the second `accept` to overwrite `connectfd`
  before the first thread reads it, and for a descriptor that is closed twice
  to be another client's the second time; three descriptors are the listening
  socket and one for each;
* identifiers 1 and 17 are equal modulo 16, and 9 is negative as a short of 16
  values; words that add up to 21 make the checksum carry, for some sequence
  numbers twice. That it verifies for every width is a theorem.

`EchoSelect.ClientsEnd` holds although both sides use blocking `write`: the
client looks at its socket before its terminal in every round, and its `write`
waits only for the server, which is either reading or waiting for that client's
next round.

Deadlock checking is off where the system may rightly stop: a program that
nobody starts again (`SemMultiBuff`, `MsgQueue`, `PipeFile`), processes that are
all done or orphaned (`SeqFile`), a server waiting for connections
(`EchoSelect`, `EchoFork`, `EchoThread`), and `Ping`, whose processes go on for
ever in the code and stop at `MaxSends` in the model. In the other modules the
end of the process is an explicit `Terminated` step, and deadlock is checked.

### Disagreements between notes and code

**`EveryRunCopies`.** `Semaphore/readme.md` says that dropping `O_EXCL` from
`sem_open` does not affect the program. After a killed run, the next one
starts with the semaphores as they were left: the consumer may find
`semStore > 0` and a buffer with `n == 0`, and the program exits normally
with nothing copied.

**A copied semaphore.** `Semaphore/readme.md:38` says that access to a semaphore goes by
its address, so that a `sem_t` must not be copied to be accessed.
`ShareMemory/AddOnePosixMemSem.c` calls `sem_init` for a variable of its own, writes
its bytes into the file, and all its processes wait for the copy in the mapping.
POSIX leaves the effect undefined; glibc keeps only a value, a count of those
who wait and a flag in a `sem_t`, and copies of an idle one work. `NoLostUpdate` and
`SurvivorsFinish` hold for `"memsem"` (run `seq_file`) under that assumption only.

**A client that does not press Enter.** `version_2/readme.md:36` says that while a
client does not press Enter the server's `read` does not return, so that the server
is stuck with this client and serves no other. The run `echo_select` shows the
opposite: `ReadNeverBlocks` holds, also for a client that is connected and has sent
nothing, and its proof holds for every number of clients. `read` is called only
for descriptors that `select` has reported, and a client sends nothing before its
`fgets` returns. (The remark would be true of a server that reads until the end of
a line; this one reads once per round.)

### What the properties except

Several properties hold only outside cases that they name. These are behaviours
of the code that a reader should know:

* *System V semaphore* (`SurvivorsFinish`, `Orphaned`): if the creator is killed
  between `semget` and its first `semop`, `sem_otime` stays zero and the others
  poll it for ever. A process killed while it holds a Posix semaphore blocks the
  others in the same way.
* *Second runs* (`NoLostUpdate`, `OneLock`, `Orphaned`): a run of
  `AddOnePosixNameSem.c` or `AddOnePosixMemSem.c` during another sets the number of
  both to zero. With the former the two runs have, as a rule, different semaphores
  for one number; the latter also writes over the semaphore, so that two processes
  may be inside, and one that waits may not be woken. There are no further such
  cases.
* *Shared-memory object* (`NoLostUpdate`, `OneLock`): a client that opened the
  object before and the semaphore after the server was run again shares the one
  but not the other with its neighbours; and the server clears the object after
  clients could open it. In all other cases no increment is lost.
* *Message queues* (`OwnReplyInOrder`): the first client to finish removes both
  queues, and another leaves its loop by an error, without the rest of its
  reply. It is never given somebody else's. A client that sends an empty path is
  not answered (`LoneClientServed`).
* *Pipes and FIFOs* (`SessionEnds`, `NothingAsked`): if the user types nothing,
  nothing is written, and server and client wait for each other.
* *Forking server*: a client of `version_4` that has seen a timeout may show
  earlier lines in the place of later ones, and behind them the tail of a newer
  line or bytes that nobody wrote (`garbled`): what it has read is not terminated.
  Without a timeout it shows its lines and nothing else (`UnharmedServed`).
* *Threaded server* (`OnlyRaceHarms`, `ClientsEnd`): when a thread reads
  `connectfd` after the next `accept`, two threads serve one connection and none
  the other, whose client waits for ever. A client that resets its connection
  ends the server.
* *ping* (`LostOnlyByFaults`): a process whose identifier is negative as a short
  prints nothing; one that a failing call ends prints no more; one that receives somebody else's message sends its next
  requests to that host, and its lines then say so (`LinesAreAnswers`).

### Fairness

* Threads and processes that have been started are scheduled (weak fairness of
  each one's next step): nothing in the code lets one run at the cost of
  another for ever.
* A mutex or semaphore may be lost to others any number of times; strong
  fairness is assumed in one place, `Announce` of `CondProdCons`. Spurious
  wakeups are unbounded in the model, and each takes `condCtrl.mutex` for a
  moment; a mutex that starved a producer for ever under them would not be one
  that any thread library provides.
* In `UdpEcho` an armed timer goes off. The network and the server owe nothing.
* In `Ping` the alarm goes off, since `sendFrame` sets it again before it does
  anything else, and what is not lost arrives; losses are faults, and bounded.
* Nobody has to start or kill a process, or start a server. In `EchoThread` the
  port need not become free.
* In `EchoFork` a pending SIGCHLD is delivered.
* In the echo programs users go on typing until the end of their input, and in
  `PipeFile` they type a path. A terminal that is left alone for ever would hold
  up only its own client. For the select server `version_2/readme.md:36` says
  otherwise; see *A client that does not press Enter* above.
* In `EchoSelect`, where nothing bounds the failures of `accept`, they are not part
  of the server's fair steps: it does not fail for ever while a connection waits.

## 4. Proofs

TLAPS checks these for every value of the constants that satisfies the named
assumptions.

**CondProdCons** (`ThreadsAssumption`: finitely many producers, different from
the consumer; `ItemsAssumption`: at least one item). `TypeCorrect`,
`ConsumerNeverWrong`, `NothingLost`, `RefinesStream`. `NeverWrong` is not
inductive: it follows from `i + uncheck <= buffIndex`, which follows from
`ItemsConserved`, and from every slot below `buffIndex` holding its index
(`ValuesOK`); keeping the latter needs what a producer between its store and
its increments has established (`FilledOK`), which needs the mutex (`MutexOK`).
The cardinality of `Unannounced` changes by one exactly when a producer enters
or leaves `"announce"`: three lemmas. `ReturnOK` gives the `Finish` step of the
refinement.

**SemProdCons** (`ThreadsAssumption`, `SizesAssumption`). `TypeCorrect`,
`UnitsAlwaysConserved`, `ConsumersNeverWrong`, `RefinesStream` (for at least one consumer: with none, `main` exits at once).
From the conservation laws and the types, a thread about to fill has
`pIndex < cIndex + NBUFF` and one about to take has `cIndex < pIndex` (lemma
`Entitled`). `RingOK` says that the items between the indices are in their
slots; a store does not disturb them because two indices less than `NBUFF`
apart fall into different slots (lemma `DistinctSlots`).

**SemMultiBuff** (`SizesAssumption`, `AbsentAssumption`: the mark for a name that
does not exist is not a value). `TypeCorrect`, `BuffersNeverTorn`,
`CleanRunsCopy`. The semaphores are global to all runs, so the argument begins
before the threads do: `NamesOK` follows the three names through opening and
unlinking and says that a run after one that was not killed finds none of them.
`UnitsOK` then counts: each semaphore holds the units that are in nobody's hands,
or, where opening it failed, nobody has got past it. With `ControlOK` (each
thread is at a point of its own program, and done only at the end of the file)
this bounds `pi - ci` by `NBUFF` and keeps the buffer that is being read into
apart from the one that is being written (`DistinctSlots` again). `RingOK` (the
chunks between the indices are in their buffers, the mark of the end behind the
last) carries the output (`OutputOK`).

**SeqFile**, in `SemProdCons_proofs` (`ProcsAssumption`: finitely many processes,
and the mark for nobody is none of them; `KindsAssumption`, `BoundsAssumption`).
`SeqTypeCorrect`, `NoUpdateLost` and, though no run checks it, `MutualExclusion`:
of the processes that have one object mapped and use one lock for it, one at a
time is between `mylock` and `myunlock`. As in `NoLostUpdate`, the object must not
have been written over: a second run of a forking program that finds the number
and the semaphore as they were at the start keeps the invariant, any other gives
up what it says of them (`RerunKeeps`, `RerunClears`, with `Sound` for the cases in
which the semaphore still means something). The inductive invariant has one part per
lock: who is inside holds the record lock (`FcntlOK`); a System V semaphore is 0
while somebody is inside, who alone has a `SEM_UNDO` adjustment, and until
`sem_otime` is set nobody but its creator gets as far as `mylock` (`SysvOK`); a
Posix semaphore is 0 while somebody who has opened its generation is inside
(`PosixOK`). Each gives mutual
exclusion, so that between reading and writing a number nobody else changes it
(`CopyOK`), and `NoLostUpdate` is kept. It speaks of a sum over the processes: the
lemmas on `SumFunction` (it grows by what one summand grows, and a summand may be
taken out) are proved for every finite set by the least counterexample.

**MsgQueue** (`SizesAssumption`). `TypeCorrect`, `RepliesAreOwn`. There are at
most two live queues, those that the keys name, and an identifier that a process
holds is live only under the key it was asked for with (`IdsOK`), so a request
never lands in a queue of replies. Each client has at most one request, in the
first queue or with the server (`RequestsOK`, `ServingOK`); before it is taken
nothing has been done for that client (`FreshOK`). The heart is `FlowOK`: while a
client's identifier is live, the messages of its type in the second queue are
the parts of its own answer from the one after its last line of output up to
what the server has sent, in order and each once. `msgrcv` takes messages out of
the middle of a queue, by type, and the lemmas on `RemoveAt` say what that leaves
for the others. A queue that is removed under the server ends the exchange, and
`RemovedOK` tells who did it, which gives the clause on errors.

**UdpEcho** (`CountsAssumption`, `RttAssumption`, `LengthAssumption`).
`TypeCorrect`, `EchoesCorrect`, `WaitsAreTimed`. A sequence number is never used for two lines
(`NumbersOK`), every reply carries the number and the cut line of a request
(`RepliesOK`), and as many echoes as lines have been handled are printed
(`CountOK`), so the reply that is accepted is that of the current line.
`WaitsAreTimed` uses that `RTT_MIN` is at least one second: `alarm(0)` would
arm nothing. `TypeCorrect` bounds the sequence number: each line has a quota of
`MAX_RESEND_TIMES + 1` numbers, of which each resend uses one (`ResendsOK`).

**PipeFile**, in `UdpEcho_proofs` (`KindsAssumption`, `SizesAssumption`).
`PipeTypeCorrect`, `WholeFileShown` (the invariant `ReplyComplete`). What holds
whatever is killed or fails (`PipeBase`): which ends a process has open at each
place, at most one of a kind once `Pipe.c` has closed the others (`EndsOK`); the
two names refer to two pipes, and each is used in one direction (`NamesOK`); a pipe
that nobody has open is empty (`RoomOK`). This is why the first program of a
session finds no more than names, whatever an earlier run left. While there is no
fault, `MeetOK` follows the two blocking `open`s: the client gets past each only
together with one server, which then has the same two pipes. `AnswerOK` says that
what is in these pipes is part of this exchange (`Talk`): the path, or what is
printed, in the pipe and with the server is the whole reply, in order (`Carries`),
and the other pipes are empty. So the end of file, which the client sees only when
that server has closed its end, comes after everything was printed (`TalkOver`). A
server that is started meanwhile finds no path in the pipe to read, and one that
opened a name too late has a descriptor of -1 and writes to nobody (`FifoSend`).

**EchoSelect** (`SizesAssumption`, `ClientsAssumption`: finitely many clients, and
the mark of a closed descriptor is none of them). `TypeCorrect`,
`ServerNeverBlocks`, `NormalEndsAreComplete`, along two inductive invariants. The
first, `TableInv`, is about the server alone. A connection is on one descriptor
or waits once in the backlog (`SocketsOK`); what `select` reported for an entry
the loop has not come to is still there (`PendingOK`), because clients only add
to a connection, and because no other entry of the table stands for it. `accept`
finds a free descriptor by the pigeonhole principle, and one that is not in
`readSet`, so that a descriptor reused in the same round is not taken for
readable. The second, `FlowInv`, uses the first and follows the lines: while the
server has a connection, what was typed and not shown is on its way back, in the
server's hands or on its way up, in order, with the mark of the end of input last
(`Flight`); once the server has closed it, everything is on its way back before
the end of file (`Closing`); and once the server has ended, an end of file is
found only behind all lines but the one it held (`Dropped`), which can be a living
client's only if the server was killed, as SIGPIPE comes from writing to one that
has ended.

**EchoFork** (`NamesAssumption`: clients, strays, the parent and the marks for
sockets are different things; `SizesAssumption`). `TypeCorrect`,
`ConnectionsIsolated`, `UnharmedAreServed`. `Isolated` needs to know who has which
socket open at which point of `accept`, `fork` and `close`, with the handler in
between (`SocketsOK`), and that connections in the backlog are different and
nobody's (`BacklogOK`). `UnharmedServed` is followed through the connection: as
long as no fault meets client, child or parent, the connection is somewhere on
the server's side, and the lines on their way are the last ones typed, first
those on their way back, then the one in the child's hands, then those on their
way up (`Flight`). A client that waits has at most one line out (`LoadOK`), and its
screen is complete, since what it reads is always the line it sent last, before the
NUL of that line; one of `version_4` that timed out may have any number out,
and its screen shows for the k-th line one of the first k (`Screen`), with other
bytes behind it or not.

**EchoThread**, in `CondProdCons_proofs` (`NamesAssumption`, `SizesAssumption`,
`FdsAssumption`: there are more descriptors than clients). `ThreadTypeCorrect`,
`RaceAloneHarms`. Even in a race no thread gets the listening socket
(`ListenApart`), and a client that waits to be accepted has no thread (`WaitOK`).
While no thread has read `connectfd` too late and nothing was killed or failed
(`Calm`), every thread has the descriptor of its own connection, and each
connection one descriptor (`FdsOK`), so that `read`, `write` and `close` act on what
they mean; the lines a client has sent are shown, on their way back, with its
thread or on their way up, in order and each once, with the end of its input last
(`Flow`), and a client that has ended has shown them all (`ClientOK`).

**Ping** (`BaseAssumption`: a short has more than 8 values; `DataAssumption`:
a frame has few enough words for their sum to be below `Base * Base`, which for
shorts of 16 bits means fewer than 65536; `PidsAssumption`, `HostsAssumption`,
`BoundsAssumption`). `TypeCorrect`, `LinesAlwaysAnswers`, `FramesAlwaysVerify`.
`LinesAreAnswers` is followed back from the line to the frame checked
(`FrameGood`), to the queues (`QueueGood`) and to the requests on their way
(`NetGood`): a reply anywhere carries the host, identifier and sequence number
of a request that some process has sent, and a destination is a host that some
ping was started with or that sent a foreign message (`AddrKnown`). The sets
that these parts speak of only grow, which is stated once (the `Monotone`
lemmas). `FramesAlwaysVerify` is arithmetic: with `sum = q * Base + r`, adding
the quotient in twice leaves the remainder modulo `Base - 1` and gets below
`Base`, from three lemmas on quotient and remainder (`DivMod`, `QuotientBound`,
`SmallDivMod`).

Not proved, only model-checked: liveness (`ImplementsStream`'s, `CleanRunEnds`,
`SurvivorsFinish`, `LoneClientServed`, `SessionEnds`, `ClientEnds`,
`ClientsEnd`, `AllSettles`, `StartsUp`, `LostOnlyByFaults`), which is out of
this prover's reach. Every safety invariant that a passing run checks is a
theorem. What a recursive definition computes for every input needs induction
over data, which is also out of reach in general; the models use folds and
quantifiers instead, and the one sum they take is dealt with as described.

## 5. What is not modelled

Every module that was planned is written, and its safety is proved.

Left out for good:

* the textbook sources and the system headers: they are not the repository's
  code, and nearly all of its lines;
* the simple UDP echo: the exchange of `UdpEcho` without numbers, timers and
  resends, which stops at the first lost datagram in every execution;
* `Popen.c`: one process that hands a command line to the shell and copies what
  it prints;
* the recurrence of `updateRtt`: floating-point, reduced to its clamping, which
  is all that the protocol depends on;
* `SO_SNDTIMEO` in `version_4`: `EchoFork` has no bounded socket buffers that a
  `write` could wait for;
* `EINTR` in the servers that install no handler, and a `pthread_create` that
  fails, which is as if the server were killed;
* a `socket` call of the threaded server that fails for its address for ever: it is
  repeated for ever, as `bind` is for a port that stays taken, which is modelled;
  the model has one address, since the loop never comes to a second;
* the bit that `FD_SET(-1, ...)` sets in the select server after a failed `accept`: it
  is behind those that `select` looks at while there are fewer than 63 descriptors;
* lines longer than one `read`: those that arrive together fit in `MAXLEN` bytes;
* a `read` of the file that fails in `SemMultiBuff.c`: its producer would not come
  to an end;
* address conversion and interface listing: library calls and printing, no
  state;
* wording, logging and debugging output everywhere.
