---------------------------- MODULE SemMultiBuff ----------------------------
(***************************************************************************)
(* Two programs of IPC/Semaphore that synchronise a producer and a         *)
(* consumer thread by the same three NAMED semaphores, which outlive the   *)
(* process:                                                                *)
(*   "copy"   SemMultiBuff.c: one thread reads a file into a ring of       *)
(*            buffers, the other writes them to standard output; sem_open  *)
(*            without O_EXCL takes over what a killed run left             *)
(*   "count"  SemProdCons1.c: one thread stores 0, 1, 2, ... in a ring,    *)
(*            the other checks them; with O_EXCL sem_open fails if the     *)
(*            name exists, and the first use of its result is a crash      *)
(* One of them is run again and again, and may be killed at any step.      *)
(***************************************************************************)
EXTENDS Naturals, Sequences, SequencesExt

CONSTANTS NBUFF,    \* buffers of the ring
          Chunks,   \* reads of MYBUFFSIZE bytes until end of file; cycleTimes
          MaxRuns,  \* bound: how often the program is started
          Absent    \* no semaphore of that name

ASSUME SizesAssumption == NBUFF \in Nat \ {0} /\ Chunks \in Nat /\ MaxRuns \in Nat \ {0}
ASSUME AbsentAssumption == Absent \notin Nat

VARIABLES
    program,        \* the program of this run
    sem,            \* the kernel's named semaphores
    failed,         \* the names for which sem_open has failed
    data,           \* the ring: a chunk number, or EOF for n == 0
    prod, cons,     \* where the two threads are
    pi, ci,         \* their loop indices i
    output,         \* what the consumer has written out or checked
    main,           \* "off", the three opens, "running", the three unlinks, "exit0", "killed"
    tainted,        \* the run before this one was killed
    runs            \* runs started

threads == <<data, prod, cons, pi, ci, output>>
vars == <<program, sem, failed, threads, main, tainted, runs>>

Names == {"/semmutex", "/semempty", "/semstore"}
EOF == 0
File == [k \in 1 .. Chunks |-> k]

Init == /\ program = "copy" /\ sem = [n \in Names |-> Absent] /\ failed = {}
        /\ data = [s \in 0 .. NBUFF - 1 |-> EOF]
        /\ prod = "done" /\ cons = "done" /\ pi = 0 /\ ci = 0 /\ output = <<>>
        /\ main = "off" /\ tainted = FALSE /\ runs = 0

sem_wait(n) == n \notin failed /\ sem[n] # 0 /\ sem' = [sem EXCEPT ![n] = @ - 1]
sem_post(n) == n \notin failed /\ sem' = [sem EXCEPT ![n] = @ + 1]

InitialValue == [n \in Names |-> CASE n = "/semmutex" -> 1
                                   [] n = "/semempty" -> NBUFF
                                   [] n = "/semstore" -> 0]

\* A new process: static storage is zero
main_start == /\ main \in {"off", "exit0", "killed"}
              /\ runs < MaxRuns
              /\ runs' = runs + 1
              /\ program' \in {"copy", "count"} /\ failed' = {}
              /\ data' = [s \in 0 .. NBUFF - 1 |-> EOF]
              /\ prod' = "empty" /\ cons' = "store" /\ pi' = 0 /\ ci' = 0 /\ output' = <<>>
              /\ main' = "openmutex" /\ tainted' = (main = "killed")
              /\ UNCHANGED sem

\* sem_open: an existing semaphore keeps its value, with O_EXCL the call fails
sem_open(from, n, to) == /\ main = from /\ main' = to
                         /\ sem' = [sem EXCEPT ![n] = IF @ = Absent THEN InitialValue[n] ELSE @]
                         /\ failed' = IF program = "count" /\ sem[n] # Absent THEN failed \cup {n} ELSE failed
                         /\ UNCHANGED <<program, threads, tainted, runs>>

OpenMutex == sem_open("openmutex", "/semmutex", "openempty")
OpenEmpty == sem_open("openempty", "/semempty", "openstore")
OpenStore == sem_open("openstore", "/semstore", "running")

ProdStep(from, to) == /\ main = "running" /\ prod = from /\ prod' = to
                      /\ UNCHANGED <<program, failed, cons, ci, output, main, tainted, runs>>

ConsStep(from, to) == /\ main = "running" /\ cons = from /\ cons' = to
                      /\ UNCHANGED <<program, failed, data, prod, pi, main, tainted, runs>>

-----------------------------------------------------------------------------
(* producer: "copy" gives semMu back before it touches the buffer, "count" after *)

ProdWaitEmpty == /\ program = "count" => pi < Chunks
                 /\ ProdStep("empty", "mutex") /\ sem_wait("/semempty") /\ UNCHANGED <<data, pi>>
ProdWaitMu == /\ ProdStep("mutex", IF program = "copy" THEN "unmutex" ELSE "storing")
              /\ sem_wait("/semmutex") /\ UNCHANGED <<data, pi>>
ProdPostMu == /\ ProdStep("unmutex", IF program = "copy" THEN "reading" ELSE "post")
              /\ sem_post("/semmutex") /\ UNCHANGED <<data, pi>>

\* "count": buff[i % NBUFF] = i
ProdStore == /\ ProdStep("storing", "unmutex")
             /\ data' = [data EXCEPT ![pi % NBUFF] = pi + 1] /\ pi' = pi + 1
             /\ UNCHANGED sem

\* "count": the loop ends, without a word to the consumer, which counts too
ProdLoopEnds == /\ program = "count" /\ pi = Chunks
                /\ ProdStep("empty", "done") /\ UNCHANGED <<sem, data, pi>>

\* Mutant: end of file is noticed one buffer late.
ProdReadPastEnd == LET n == IF pi < Chunks THEN pi + 1 ELSE EOF
                   IN  /\ ProdStep("reading", IF pi > Chunks THEN "last" ELSE "post")
                       /\ data' = [data EXCEPT ![pi % NBUFF] = n]
                       /\ pi' = IF pi > Chunks THEN pi ELSE pi + 1
                       /\ UNCHANGED sem

\* read() into data[i % NBUFF]; 0 at end of file
ProdRead == LET n == IF pi < Chunks THEN pi + 1 ELSE EOF
            IN  /\ ProdStep("reading", IF n = EOF THEN "last" ELSE "post")
                /\ data' = [data EXCEPT ![pi % NBUFF] = n]
                /\ pi' = IF n = EOF THEN pi ELSE pi + 1
                /\ UNCHANGED sem

ProdPostStore == ProdStep("post", "empty") /\ sem_post("/semstore") /\ UNCHANGED <<data, pi>>

\* Mutant: no post after end of file.
ProdReturnSilently == ProdStep("last", "done") /\ UNCHANGED <<sem, data, pi>>

ProdReturn == ProdStep("last", "done") /\ sem_post("/semstore") /\ UNCHANGED <<data, pi>>

producer == \/ ProdWaitEmpty \/ ProdWaitMu \/ ProdPostMu \/ ProdRead \/ ProdPostStore \/ ProdReturn
            \/ ProdStore \/ ProdLoopEnds

-----------------------------------------------------------------------------
(* consumer *)

ConsWaitStore == /\ program = "count" => ci < Chunks
                 /\ ConsStep("store", "mutex") /\ sem_wait("/semstore") /\ UNCHANGED <<ci, output>>
ConsWaitMu == /\ ConsStep("mutex", IF program = "copy" THEN "unmutex" ELSE "checking")
              /\ sem_wait("/semmutex") /\ UNCHANGED <<ci, output>>

\* Mutant: the buffer is given back before it is written out.
ConsPostMuAndEmpty == /\ ConsStep("unmutex", "writing")
                      /\ sem' = [sem EXCEPT !["/semmutex"] = @ + 1, !["/semempty"] = @ + 1]
                      /\ UNCHANGED <<ci, output>>

ConsPostMu == /\ ConsStep("unmutex", IF program = "copy" THEN "writing" ELSE "post")
              /\ sem_post("/semmutex") /\ UNCHANGED <<ci, output>>

\* "count": buff[i % NBUFF] != i prints "something wrong"
ConsCheck == /\ ConsStep("checking", "unmutex")
             /\ output' = Append(output, data[ci % NBUFF]) /\ ci' = ci + 1
             /\ UNCHANGED sem

ConsLoopEnds == /\ program = "count" /\ ci = Chunks
                /\ ConsStep("store", "done") /\ UNCHANGED <<sem, ci, output>>

ConsReturn == /\ ConsStep("writing", "done")
              /\ data[ci % NBUFF] = EOF
              /\ UNCHANGED <<sem, ci, output>>

ConsWrite == /\ ConsStep("writing", "post")
             /\ data[ci % NBUFF] # EOF
             /\ output' = Append(output, data[ci % NBUFF])
             /\ ci' = ci + 1
             /\ UNCHANGED sem

ConsPostEmpty == ConsStep("post", "store") /\ sem_post("/semempty") /\ UNCHANGED <<ci, output>>

consumer == ConsWaitStore \/ ConsWaitMu \/ ConsPostMu \/ ConsReturn \/ ConsWrite
              \/ ConsPostEmpty \/ ConsCheck \/ ConsLoopEnds

-----------------------------------------------------------------------------
(* main joins both threads, unlinks the three names in turn and exits *)

Unlink(from, n, to) == /\ main = from
                       /\ sem' = [sem EXCEPT ![n] = Absent]
                       /\ main' = to
                       /\ UNCHANGED <<program, failed, threads, tainted, runs>>

UnlinkMutex == /\ prod = "done" /\ cons = "done"
               /\ Unlink("running", "/semmutex", "unlinkempty")
UnlinkEmpty == Unlink("unlinkempty", "/semempty", "unlinkstore")

\* Mutant: the last name is not unlinked.
UnlinkStoreForgotten == /\ main = "unlinkstore" /\ main' = "exit0"
                        /\ UNCHANGED <<program, failed, sem, threads, tainted, runs>>

UnlinkStore == Unlink("unlinkstore", "/semstore", "exit0")

\* The semaphores that the two threads are about to use
Used == (CASE prod = "empty" /\ pi < Chunks -> {"/semempty"} [] prod \in {"mutex", "unmutex"} -> {"/semmutex"}
           [] prod = "post" -> {"/semstore"} [] OTHER -> {})
          \cup
        (CASE cons = "store" /\ ci < Chunks -> {"/semstore"} [] cons \in {"mutex", "unmutex"} -> {"/semmutex"}
           [] cons = "post" -> {"/semempty"} [] OTHER -> {})

\* sem_wait(SEM_FAILED) is a crash
Crash == /\ main = "running" /\ Used \cap failed # {}
         /\ main' = "killed"
         /\ UNCHANGED <<program, failed, sem, threads, tainted, runs>>

\* The process is killed: nothing is unlinked
Kill == /\ main \notin {"off", "exit0", "killed"}
        /\ runs < MaxRuns
        /\ main' = "killed"
        /\ UNCHANGED <<program, failed, sem, threads, tainted, runs>>

main_open == OpenMutex \/ OpenEmpty \/ OpenStore
main_exit == UnlinkMutex \/ UnlinkEmpty \/ UnlinkStore

Next == main_start \/ main_open \/ producer \/ consumer \/ Crash \/ main_exit \/ Kill

\* Both threads and main are scheduled; nobody has to start or kill a run.
Fairness == WF_vars(producer) /\ WF_vars(consumer)
              /\ WF_vars(main_open \/ main_exit) /\ WF_vars(Crash)

Spec == Init /\ [][Next]_vars /\ Fairness

-----------------------------------------------------------------------------
(* Properties *)

\* Every variable keeps its type: the producer's index stops at the end of the
\* file, and what is written out is always a chunk.
TypeOK == /\ program \in {"copy", "count"} /\ failed \subseteq Names
          /\ sem \in [Names -> Nat \cup {Absent}]
          /\ data \in [0 .. NBUFF - 1 -> 0 .. Chunks]
          /\ prod \in {"empty", "mutex", "unmutex", "storing", "reading", "post", "last", "done"}
          /\ cons \in {"store", "mutex", "unmutex", "checking", "writing", "post", "done"}
          /\ pi \in 0 .. Chunks /\ ci \in Nat
          /\ output \in Seq(1 .. Chunks)
          /\ main \in {"off", "openmutex", "openempty", "openstore", "running", "unlinkempty",
                       "unlinkstore", "exit0", "killed"}
          /\ tainted \in BOOLEAN /\ runs \in 0 .. MaxRuns

\* Although no critical section of "copy" guards the buffers, the reader and the
\* writer never use the same one at the same time, unless they inherited a killed
\* run's semaphores.
NoTornBuffer == ~tainted /\ main = "running" /\ prod = "reading" /\ cons = "writing"
                  => pi % NBUFF # ci % NBUFF

\* What comes out is a prefix of the file (of the numbers, none of them wrong) at
\* every moment, and all of it when the program exits, unless the run before it
\* was killed: whatever happened earlier, and whichever of the two programs that
\* was, a run that ends leaves nothing of it to the next. With O_EXCL, "count",
\* it holds of every run.
CleanRunCopies == ~tainted \/ program = "count" => /\ IsPrefix(output, File)
                                                   /\ main = "exit0" => output = File

\* A run that starts on fresh semaphores ends, unless it is killed; with O_EXCL
\* every run ends, by a crash at the latest.
CleanRunEnds == main = "running" /\ (~tainted \/ program = "count") ~> main \in {"exit0", "killed"}

\* What readme.md says of this program (it copies the file to stdout) and of
\* dropping O_EXCL (the run is not affected): any run that exits has copied
\* the whole file.
EveryRunCopies == main = "exit0" => output = File
=============================================================================
