------------------------------- MODULE SeqFile -------------------------------
(***************************************************************************)
(* The sequence-number problem of IPC/: processes read a number from a     *)
(* shared file or mapping, add one and write it back. They differ in       *)
(* mylock/myunlock only:                                                   *)
(*   "none"   RecordLock/RecordLockingNone.c: no lock                      *)
(*   "fcntl"  RecordLock/RecordLockingFcntl.c: a record lock on the file   *)
(*   "sysv"   Semaphore/RecordLockingSem.c: a System V semaphore that the  *)
(*            first process creates AND THEN initialises; the others wait  *)
(*            until its sem_otime shows that someone has used it           *)
(*   "posix"  ShareMemory/AddOnePosixNameSem.c: a named semaphore, which   *)
(*            the common parent opens and unlinks                          *)
(*   "memsem" ShareMemory/AddOnePosixMemSem.c: a semaphore in the mapped   *)
(*            file, where the parent writes a copy of an initialised one   *)
(*            of its own memory                                            *)
(*   "shmobj" ShareMemory/AddOneShareMemoryObjectClient.c: a shared memory *)
(*            object and a semaphore with names, which the program         *)
(*            AddOneShareMemoryObjectServer.c removes and makes anew       *)
(*            whenever it is run                                           *)
(* A process may be killed at any step. "posix" and "memsem" write zero    *)
(* into the file before they fork, also while an earlier run goes on.      *)
(***************************************************************************)
EXTENDS Naturals, FiniteSets, Functions

CONSTANTS Procs,       \* the processes, all running the same program
          Kinds,       \* the programs considered
          cycletimes,  \* increments per process ...
          objtimes,    \* ... and per client of "shmobj", which has its own cycletimes
          MaxKills,    \* bound: how many processes are killed
          MaxReruns,   \* bound: how often "posix", "memsem" or the server of
                       \* "shmobj" is run again
          None         \* no process

ASSUME KindsAssumption == Kinds \subseteq {"none", "fcntl", "sysv", "posix", "memsem", "shmobj"}
ASSUME BoundsAssumption == cycletimes \in Nat \ {0} /\ objtimes \in Nat \ {0} /\ MaxKills \in Nat /\ MaxReruns \in Nat
ASSUME ProcsAssumption == IsFiniteSet(Procs) /\ None \notin Procs

VARIABLES kind,        \* the program all processes run
          file,        \* the number in the file, or in each object
          seqNum,      \* each process's copy of it
          i,           \* each process's loop index
          loc,         \* where each process is
          killed,      \* the processes killed so far
          flock,       \* the holder of the record lock
          sem,         \* each System V or Posix semaphore
          undo,        \* the kernel's SEM_UNDO adjustments
          mem, lockOf, \* the object each process has mapped, its semaphore
          shmName, semName, \* the object and the semaphore of that name, or Gone
          srv,         \* where the server of "shmobj" is
          reruns,      \* how often it, "posix" or "memsem" was run again
          cleared      \* objects written over when not as at the start

data == <<file, seqNum, mem, lockOf, semName>>
names == <<shmName, srv, reruns, cleared>>
seqVars == <<kind, data, names, i, loc, killed, flock, sem, undo>>

Gens == 1 .. 1 + MaxReruns   \* the object and semaphore of each run of the server and
Gone == 0                    \* the semaphores of "posix"; the other kinds have one of each

Forking == {"posix", "memsem"}
PosixKinds == Forking \cup {"shmobj"}

Times == IF kind = "shmobj" THEN objtimes ELSE cycletimes

NoSem == [creator |-> None, val |-> 0, otime |-> 0]

\* "posix" and "memsem" begin with one run; the processes of others are to come
SeqInit == /\ kind \in Kinds
           /\ file = [g \in Gens |-> 0] /\ seqNum = [p \in Procs |-> 0]
           /\ i = [p \in Procs |-> 0]
           /\ \E first \in (SUBSET Procs) \ {{}} :
                loc = [p \in Procs |-> CASE kind = "sysv" -> "semget" [] kind = "shmobj" -> "shmopen"
                                          [] kind \in Forking /\ p \notin first -> "start"
                                          [] OTHER -> "lock"]
           /\ killed = {} /\ flock = None
           /\ sem = [g \in Gens |-> IF kind \in PosixKinds THEN [NoSem EXCEPT !.val = 1] ELSE NoSem]
           /\ undo = [p \in Procs |-> 0]
           /\ mem = [p \in Procs |-> IF kind = "shmobj" THEN Gone ELSE 1]
           /\ lockOf = [p \in Procs |-> IF loc[p] \in {"start", "shmopen"} THEN Gone ELSE 1]
           /\ shmName = 1 /\ semName = 1 /\ srv = "off" /\ reruns = 0 /\ cleared = {}

ProcGoto(p, from, to) == /\ p \notin killed
                         /\ loc[p] = from
                         /\ loc' = [loc EXCEPT ![p] = to]
                         /\ UNCHANGED <<kind, killed, names>>

-----------------------------------------------------------------------------
(* mylock, "sysv": the first call of a process (initflag == 0) *)

\* semget(IPC_CREAT | IPC_EXCL) succeeds; the new value is unspecified
SemCreate(p) == /\ ProcGoto(p, "semget", "setval")
                /\ sem[1].creator = None
                /\ \E v \in 0 .. 1 : sem' = [sem EXCEPT ![1] = [creator |-> p, val |-> v, otime |-> 0]]
                /\ UNCHANGED <<data, i, flock, undo>>

\* semctl(SETVAL) also clears every process's adjustment
SetVal(p) == /\ ProcGoto(p, "setval", "lock")
             /\ sem' = [sem EXCEPT ![1].val = 1]
             /\ undo' = [q \in Procs |-> 0]
             /\ UNCHANGED <<data, i, flock>>

\* EEXIST: fetch the identifier ...
SemAttach(p) == /\ ProcGoto(p, "semget", "otime")
                /\ sem[1].creator # None
                /\ UNCHANGED <<data, i, flock, sem, undo>>

\* Mutant: do not wait for the creator.
SeeAnyOtime(p) == /\ ProcGoto(p, "otime", "lock")
                  /\ UNCHANGED <<data, i, flock, sem, undo>>

\* ... and poll sem_otime until it is not zero
SeeOtime(p) == /\ ProcGoto(p, "otime", "lock")
               /\ sem[1].otime # 0
               /\ UNCHANGED <<data, i, flock, sem, undo>>

-----------------------------------------------------------------------------
(* mylock and myunlock proper *)

\* RecordLockingNone.c: both return at once
NoLock == UNCHANGED <<flock, sem, undo>>

LockFcntl(p) == flock = None /\ flock' = p /\ UNCHANGED <<sem, undo>>

LockSysv(p) == /\ sem[1].val > 0
               /\ sem' = [sem EXCEPT ![1].val = @ - 1, ![1].otime = 1]
               /\ undo' = [undo EXCEPT ![p] = @ + 1]
               /\ UNCHANGED flock

\* sem_wait
LockPosix(p) == /\ sem[lockOf[p]].val > 0
                /\ sem' = [sem EXCEPT ![lockOf[p]].val = @ - 1]
                /\ UNCHANGED <<flock, undo>>

mylock(p) == /\ ProcGoto(p, "lock", "read")
             /\ \/ kind = "none" /\ NoLock
                \/ kind = "fcntl" /\ LockFcntl(p)
                \/ kind = "sysv" /\ LockSysv(p)
                \/ kind \in PosixKinds /\ LockPosix(p)
             /\ UNCHANGED <<data, i>>

UnlockFcntl == flock' = None /\ UNCHANGED <<sem, undo>>

UnlockSysv(p) == /\ sem' = [sem EXCEPT ![1].val = @ + 1, ![1].otime = 1]
                 /\ undo' = [undo EXCEPT ![p] = @ - 1]
                 /\ UNCHANGED flock

UnlockPosix(p) == sem' = [sem EXCEPT ![lockOf[p]].val = @ + 1] /\ UNCHANGED <<flock, undo>>

\* myunlock and the loop's test
Unlock(p, last) ==
    /\ ProcGoto(p, "unlock", IF i[p] + 1 >= last THEN "done" ELSE "lock")
    /\ i' = [i EXCEPT ![p] = @ + 1]
    /\ \/ kind = "none" /\ NoLock
       \/ kind = "fcntl" /\ UnlockFcntl
       \/ kind = "sysv" /\ UnlockSysv(p)
       \/ kind \in PosixKinds /\ UnlockPosix(p)
    /\ UNCHANGED data

\* Mutant: one turn too many.
UnlockOnceMore(p) == Unlock(p, Times + 1)

myunlock(p) == Unlock(p, Times)

-----------------------------------------------------------------------------
(* main's critical section *)

\* The object was not there to be mapped, or has no size yet
Unmapped(p) == mem[p] = Gone \/ (srv = "ftruncate" /\ mem[p] = 1 + reruns)

Read(p) == /\ ProcGoto(p, "read", "write")
           /\ ~Unmapped(p)
           /\ seqNum' = [seqNum EXCEPT ![p] = file[mem[p]]]
           /\ UNCHANGED <<file, mem, lockOf, semName, i, flock, sem, undo>>

Write(p) == /\ ProcGoto(p, "write", "unlock")
            /\ file' = [file EXCEPT ![mem[p]] = seqNum[p] + 1]
            /\ seqNum' = [seqNum EXCEPT ![p] = 0]
            /\ UNCHANGED <<mem, lockOf, semName, i, flock, sem, undo>>

-----------------------------------------------------------------------------
(* "posix" and "memsem": main once more, up to fork *)

\* The zero goes into the file that everybody maps. "memsem" writes a new
\* semaphore with it; "posix" has opened that of any run that had not unlinked
\* it yet, or a new one
Rerun(Q) == /\ kind \in Forking /\ reruns < MaxReruns
            /\ Q # {} /\ \A p \in Q : loc[p] = "start"
            /\ reruns' = reruns + 1
            /\ file' = [file EXCEPT ![1] = 0]
            /\ sem' = IF kind = "memsem" THEN [sem EXCEPT ![1].val = 1] ELSE sem
            /\ cleared' = IF file[1] = 0 /\ sem' = sem THEN cleared ELSE cleared \cup {1}
            /\ \E g \in (IF kind = "memsem" THEN {1} ELSE 1 .. 2 + reruns) :
                 lockOf' = [p \in Procs |-> IF p \in Q THEN g ELSE lockOf[p]]
            /\ loc' = [p \in Procs |-> IF p \in Q THEN "lock" ELSE loc[p]]
            /\ UNCHANGED <<kind, seqNum, mem, semName, shmName, srv, i, killed, flock, undo>>

-----------------------------------------------------------------------------
(* "shmobj": the client's opens, and the server *)

ShmOpen(p) == /\ ProcGoto(p, "shmopen", "semopen")
              /\ mem' = [mem EXCEPT ![p] = shmName]
              /\ UNCHANGED <<file, seqNum, lockOf, semName, i, flock, sem, undo>>

\* sem_open(O_CREAT) makes the semaphore if the server has just removed it
SemOpen(p) == /\ ProcGoto(p, "semopen", "lock")
              /\ semName' = IF semName = Gone THEN 1 + reruns ELSE semName
              /\ lockOf' = [lockOf EXCEPT ![p] = semName']
              /\ UNCHANGED <<file, seqNum, mem, i, flock, sem, undo>>

\* Using what could not be mapped is the end, with the semaphore taken
Crash(p) == /\ loc[p] = "read" /\ p \notin killed /\ Unmapped(p)
            /\ killed' = killed \cup {p}
            /\ UNCHANGED <<kind, data, names, i, loc, flock, sem, undo>>

ServerGoto(from, to) == /\ kind = "shmobj" /\ srv = from /\ srv' = to
                        /\ UNCHANGED <<kind, seqNum, mem, lockOf, i, loc, killed, flock, sem, undo>>

ShmUnlink == /\ ServerGoto("off", "shm_open") /\ reruns < MaxReruns
             /\ reruns' = reruns + 1 /\ shmName' = Gone
             /\ UNCHANGED <<file, semName, cleared>>
ShmCreate == /\ ServerGoto("shm_open", "ftruncate") /\ shmName' = 1 + reruns
             /\ UNCHANGED <<file, semName, reruns, cleared>>
Ftruncate == ServerGoto("ftruncate", "zero") /\ UNCHANGED <<file, semName, shmName, reruns, cleared>>
StoreZero == /\ ServerGoto("zero", "sem_unlink") /\ file' = [file EXCEPT ![1 + reruns] = 0]
             /\ cleared' = IF file[1 + reruns] = 0 THEN cleared ELSE cleared \cup {1 + reruns}
             /\ UNCHANGED <<semName, shmName, reruns>>
SemUnlink == /\ ServerGoto("sem_unlink", "sem_open") /\ semName' = Gone
             /\ UNCHANGED <<file, shmName, reruns, cleared>>
\* O_EXCL: nothing happens if a client was faster
SemCreateNamed == /\ ServerGoto("sem_open", "off") /\ semName' = IF semName = Gone THEN 1 + reruns ELSE semName
                  /\ UNCHANGED <<file, shmName, reruns, cleared>>

objectServer == ShmUnlink \/ ShmCreate \/ Ftruncate \/ StoreZero \/ SemUnlink \/ SemCreateNamed

-----------------------------------------------------------------------------

\* Mutant: the kernel does not undo a killed process's semop.
KillNoUndo(p) == /\ p \notin killed /\ loc[p] \notin {"start", "done"}
                 /\ Cardinality(killed) < MaxKills
                 /\ killed' = killed \cup {p}
                 /\ flock' = IF flock = p THEN None ELSE flock
                 /\ UNCHANGED <<kind, data, names, i, loc, sem, undo>>

\* A process is killed: its descriptor is closed, which releases its record
\* lock, and its SEM_UNDO adjustment is applied. A Posix semaphore stays down.
Kill(p) == /\ p \notin killed /\ loc[p] \notin {"start", "done"}
           /\ Cardinality(killed) < MaxKills
           /\ killed' = killed \cup {p}
           /\ flock' = IF flock = p THEN None ELSE flock
           /\ sem' = [sem EXCEPT ![1].val = @ + undo[p]]
           /\ undo' = [undo EXCEPT ![p] = 0]
           /\ UNCHANGED <<kind, data, names, i, loc>>

step(p) == \/ SemCreate(p) \/ SetVal(p) \/ SemAttach(p) \/ SeeOtime(p)
           \/ ShmOpen(p) \/ SemOpen(p) \/ Crash(p)
           \/ mylock(p) \/ Read(p) \/ Write(p) \/ myunlock(p)

SeqNext == \/ objectServer \/ \E Q \in SUBSET Procs : Rerun(Q)
           \/ \E p \in Procs : step(p) \/ Kill(p)

\* Every process is scheduled, the server once it runs. None needs to win a race for the lock: the
\* others do finitely many increments.
SeqSpec == SeqInit /\ [][SeqNext]_seqVars /\ WF_seqVars(srv # "off" /\ objectServer) /\ \A p \in Procs : WF_seqVars(step(p))

-----------------------------------------------------------------------------
(* Properties *)

\* Every variable keeps its type: no semaphore goes below zero, and a process
\* has at most one semop to undo.
SeqTypeOK == /\ kind \in Kinds
             /\ file \in [Gens -> Nat] /\ seqNum \in [Procs -> Nat]
             /\ i \in [Procs -> 0 .. Times]
             /\ loc \in [Procs -> {"start", "semget", "setval", "otime", "shmopen", "semopen", "lock",
                                  "read", "write", "unlock", "done"}]
             /\ killed \subseteq Procs /\ flock \in Procs \cup {None}
             /\ sem \in [Gens -> [creator : Procs \cup {None}, val : Nat, otime : {0, 1}]]
             /\ undo \in [Procs -> {0, 1}]
             /\ mem \in [Procs -> Gens \cup {Gone}] /\ lockOf \in [Procs -> Gens \cup {Gone}]
             /\ reruns \in 0 .. MaxReruns /\ cleared \subseteq Gens

\* Increments a process has written, a killed one too.
Written(p) == i[p] + (IF loc[p] = "unlock" THEN 1 ELSE 0)

\* All who have object g mapped use the same semaphore, and none has used the
\* object before it was set to zero. That fails if the server runs between the
\* two opens of a client, or "posix" or "memsem" is run while it is running.
OneLock(g) == /\ g \notin cleared
              /\ \A p, q \in Procs : mem[p] = g /\ mem[q] = g => Gone \in {lockOf[p], lockOf[q]} \/ lockOf[p] = lockOf[q]

\* With any of the locks no increment is lost, however the creation of the
\* System V semaphore interleaves with the other processes' first mylock, whoever
\* is killed in between, although the object server replaces the object and the
\* semaphore under clients that have both open, and with a semaphore that is a
\* copy. (AddOnePosixMemSem.c waits for a copy, which the notes rule out,
\* Semaphore/readme.md:38. The effect is undefined; in this build, glibc's,
\* nothing in a sem_t depends on its address, and the copy works.)
NoLostUpdate ==
    kind # "none" =>
        \A g \in Gens : OneLock(g) => file[g] = SumFunction([p \in {q \in Procs : mem[q] = g} |-> Written(p)])

\* A killed process holds up the others for good: it had created the System V
\* semaphore and nobody has used it yet, or it was inside a critical section
\* guarded by the Posix semaphore that p uses. Or another run of "memsem" has
\* written over the semaphore, and with it the number of those who wait.
Orphaned(p) == \/ kind = "sysv" /\ sem[1].creator \in killed /\ sem[1].otime = 0
               \/ /\ kind \in PosixKinds
                  /\ \E q \in killed : lockOf[q] = lockOf[p] /\ loc[q] \in {"read", "write", "unlock"}
               \/ kind = "memsem" /\ 1 \in cleared

\* Otherwise every process that runs and is not killed does all its increments.
SurvivorsFinish ==
    \A p \in Procs : loc[p] # "start" ~> (loc[p] = "done" \/ p \in killed \/ Orphaned(p))
=============================================================================
