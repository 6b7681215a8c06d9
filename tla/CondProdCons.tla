---------------------------- MODULE CondProdCons ----------------------------
(***************************************************************************)
(* IPC/MutexAndCondAndRwlock/MutexAndCond.c: producer threads fill an      *)
(* array under one mutex and announce each item under a second one; the    *)
(* single consumer sleeps on a condition variable and reads the array      *)
(* under the second mutex only.                                            *)
(*                                                                         *)
(* Taking a mutex is part of the first step of its critical section (no    *)
(* other thread can tell the two apart), releasing it part of the last.    *)
(***************************************************************************)
EXTENDS Naturals, FiniteSets

CONSTANTS Producers,  \* the producer threads (MAX_PRODUCERPTHREAD of them)
          Consumer,   \* the consumer thread
          None,       \* no thread: the owner of a free mutex
          MAXITEMS    \* items produced and checked in a run

ASSUME ThreadsAssumption == /\ IsFiniteSet(Producers)
                            /\ Consumer \notin Producers
                            /\ None \notin Producers \cup {Consumer}
ASSUME ItemsAssumption == MAXITEMS \in Nat \ {0}

VARIABLES
    buffIndex, buffVal, buff, \* struct mutexStru mutexCtrl
    uncheck,                  \* struct condStru condCtrl
    mutexOwner, condOwner,    \* the holders of their two mutexes
    waiting,                  \* the consumer is blocked in pthread_cond_wait
    i,                        \* the consumer's local index
    pc,                       \* where each thread is
    count,                    \* countProducer[], main's array
    outcome                   \* of the process: "running", "exit0", "wrong"

mutexCtrl == <<buffIndex, buffVal, buff, mutexOwner>>
condCtrl == <<uncheck, condOwner, waiting>>
vars == <<mutexCtrl, condCtrl, i, pc, count, outcome>>

Threads == Producers \cup {Consumer}
Slots == 0 .. MAXITEMS - 1

Init == /\ buffIndex = 0 /\ buffVal = 0 /\ buff = [k \in Slots |-> 0]
        /\ mutexOwner = None /\ condOwner = None
        /\ uncheck = 0 /\ waiting = FALSE /\ i = 0
        /\ pc = [t \in Threads |-> "start"]
        /\ count = [p \in Producers |-> 0]
        /\ outcome = "running"

Goto(t, from, to) == /\ outcome = "running"
                     /\ pc[t] = from
                     /\ pc' = [pc EXCEPT ![t] = to]

-----------------------------------------------------------------------------
(* producer *)

\* Lock mutexCtrl.mutex; buffIndex >= MAXITEMS: unlock and return
ReturnFull(p) == /\ Goto(p, "start", "done")
                 /\ mutexOwner = None
                 /\ buffIndex >= MAXITEMS
                 /\ UNCHANGED <<mutexCtrl, condCtrl, i, count, outcome>>

\* Mutant: the mutex is forgotten.
FillUnlocked(p) == /\ Goto(p, "start", "advance")
                   /\ buffIndex < MAXITEMS
                   /\ buff' = [buff EXCEPT ![buffIndex] = buffVal]
                   /\ UNCHANGED <<buffIndex, buffVal, mutexOwner, condCtrl, i, count, outcome>>

\* Mutant: > for >= in the test of buffIndex.
FillOneTooMany(p) == /\ Goto(p, "start", "advance")
                     /\ mutexOwner = None /\ mutexOwner' = p
                     /\ buffIndex <= MAXITEMS
                     /\ buff' = [buff EXCEPT ![buffIndex] = buffVal]
                     /\ UNCHANGED <<buffIndex, buffVal, condCtrl, i, count, outcome>>

\* Otherwise the store of buff[buffIndex++] = buffVal++ ...
Fill(p) == /\ Goto(p, "start", "advance")
           /\ mutexOwner = None /\ mutexOwner' = p
           /\ buffIndex < MAXITEMS
           /\ buff' = [buff EXCEPT ![buffIndex] = buffVal]
           /\ UNCHANGED <<buffIndex, buffVal, condCtrl, i, count, outcome>>

\* ... and its two increments, and the unlock
Advance(p) == /\ Goto(p, "advance", "announce")
              /\ buffIndex' = buffIndex + 1
              /\ buffVal' = buffVal + 1
              /\ mutexOwner' = None
              /\ UNCHANGED <<buff, condCtrl, i, count, outcome>>

\* Mutant: a flag instead of a counter.
AnnounceFlag(p) == /\ Goto(p, "announce", "count")
                   /\ condOwner = None
                   /\ uncheck' = 1
                   /\ waiting' = FALSE
                   /\ UNCHANGED <<mutexCtrl, condOwner, i, count, outcome>>

\* Under condCtrl.mutex: uncheck++ and pthread_cond_signal, which wakes the
\* consumer if it is blocked
Announce(p) == /\ Goto(p, "announce", "count")
               /\ condOwner = None
               /\ uncheck' = uncheck + 1
               /\ waiting' = FALSE
               /\ UNCHANGED <<mutexCtrl, condOwner, i, count, outcome>>

\* *((int *)arg) += 1, outside both critical sections
Count(p) == /\ Goto(p, "count", "start")
            /\ count' = [count EXCEPT ![p] = @ + 1]
            /\ UNCHANGED <<mutexCtrl, condCtrl, i, outcome>>

producer(p) == ReturnFull(p) \/ Fill(p) \/ Advance(p) \/ Announce(p) \/ Count(p)

-----------------------------------------------------------------------------
(* consumer *)

\* Mutant: uncheck is tested before condCtrl.mutex is taken.
TestEmptyUnlocked == /\ Goto(Consumer, "start", "wait")
                     /\ i < MAXITEMS /\ ~waiting
                     /\ uncheck = 0
                     /\ UNCHANGED <<mutexCtrl, condCtrl, i, count, outcome>>

\* Lock condCtrl.mutex, on the way into the loop or back from
\* pthread_cond_wait, and find uncheck == 0 ...
TestEmpty == /\ Goto(Consumer, "start", "wait")
             /\ i < MAXITEMS /\ ~waiting
             /\ condOwner = None /\ condOwner' = Consumer
             /\ uncheck = 0
             /\ UNCHANGED <<mutexCtrl, uncheck, waiting, i, count, outcome>>

\* ... then pthread_cond_wait blocks and unlocks in one step
CondWait == /\ Goto(Consumer, "wait", "start")
            /\ waiting' = TRUE
            /\ condOwner' = None
            /\ UNCHANGED <<mutexCtrl, uncheck, i, count, outcome>>

\* POSIX lets pthread_cond_wait return without a signal
SpuriousWakeup == /\ outcome = "running" /\ waiting
                  /\ waiting' = FALSE
                  /\ UNCHANGED <<mutexCtrl, uncheck, condOwner, i, pc, count, outcome>>

TestNonempty == /\ Goto(Consumer, "start", "check")
                /\ i < MAXITEMS /\ ~waiting
                /\ condOwner = None /\ condOwner' = Consumer
                /\ uncheck # 0
                /\ UNCHANGED <<mutexCtrl, uncheck, waiting, i, count, outcome>>

\* One turn of the inner for loop reads buff[i], without mutexCtrl.mutex
Wrong == i \notin Slots \/ buff[i] # i

CheckItem == /\ outcome = "running"
             /\ pc[Consumer] = "check" /\ uncheck > 0
             /\ \/ Wrong /\ outcome' = "wrong" /\ UNCHANGED <<i, uncheck>>
                \/ ~Wrong /\ i' = i + 1 /\ uncheck' = uncheck - 1 /\ UNCHANGED outcome
             /\ UNCHANGED <<mutexCtrl, condOwner, waiting, pc, count>>

ConsumerUnlock == /\ Goto(Consumer, "check", "start")
                  /\ uncheck = 0
                  /\ condOwner' = None
                  /\ UNCHANGED <<mutexCtrl, uncheck, waiting, i, count, outcome>>

ConsumerReturn == /\ Goto(Consumer, "start", "done")
                  /\ i >= MAXITEMS
                  /\ UNCHANGED <<mutexCtrl, condCtrl, i, count, outcome>>

consumer == TestEmpty \/ CondWait \/ TestNonempty \/ CheckItem \/ ConsumerUnlock
              \/ ConsumerReturn

-----------------------------------------------------------------------------
(* main *)

\* Every thread has been joined: exit(0)
MainExit == /\ outcome = "running" /\ \A t \in Threads : pc[t] = "done"
            /\ outcome' = "exit0"
            /\ UNCHANGED <<mutexCtrl, condCtrl, i, pc, count>>

\* The process is gone
Terminated == outcome # "running" /\ UNCHANGED vars

Next == \/ \E p \in Producers : producer(p)
        \/ consumer
        \/ SpuriousWakeup
        \/ MainExit
        \/ Terminated

\* Every thread is scheduled again and again. Only condCtrl.mutex needs strong
\* fairness: spurious wakeups could let the consumer retake it forever. On
\* mutexCtrl.mutex a thread may lose every race until the others have returned.
Fairness == /\ \A p \in Producers : WF_vars(producer(p)) /\ SF_vars(Announce(p))
            /\ WF_vars(consumer)
            /\ WF_vars(MainExit)

Spec == Init /\ [][Next]_vars /\ Fairness

-----------------------------------------------------------------------------
(* Properties *)

\* Every variable keeps its type; the counters and the consumer's index stay
\* within the array of MutexAndCond.h.
TypeOK ==
    /\ buffIndex \in 0 .. MAXITEMS /\ buffVal \in 0 .. MAXITEMS
    /\ buff \in [Slots -> 0 .. MAXITEMS]
    /\ uncheck \in 0 .. MAXITEMS /\ i \in 0 .. MAXITEMS
    /\ mutexOwner \in Producers \cup {None}
    /\ condOwner \in {Consumer, None}
    /\ waiting \in BOOLEAN
    /\ pc \in [Threads -> {"start", "advance", "announce", "count", "wait", "check", "done"}]
    /\ count \in [Producers -> Nat]
    /\ outcome \in {"running", "exit0", "wrong"}

\* The consumer never takes the "Wrong in buffer" exit: although it does not
\* hold mutexCtrl.mutex, the slot it reads has been filled by then, with its
\* own index, however many producers are between their critical sections.
NeverWrong == outcome # "wrong"

\* No item is announced twice or forgotten: what is in the array is checked,
\* announced, or about to be announced by exactly one producer.
Unannounced == {p \in Producers : pc[p] = "announce"}
ItemsConserved == i + uncheck + Cardinality(Unannounced) = buffIndex

\* The array hands the items over in order and the program ends, whatever
\* wakeups the consumer sees: it implements the contract of Stream.
Contract == INSTANCE Stream WITH Total <- MAXITEMS, Capacity <- MAXITEMS,
                                 produced <- buffIndex, consumed <- i
ImplementsStream == Contract!Spec
=============================================================================
