----------------------------- MODULE SemProdCons -----------------------------
(***************************************************************************)
(* IPC/Semaphore/SemMultiprodMulticons.c: producer and consumer threads    *)
(* share a ring of NBUFF slots guarded by three memory-based semaphores.   *)
(* semEmpty and semStore count the free and the filled slots, semMu is a   *)
(* mutex. The consumer that takes the last item posts semStore once more,  *)
(* and each consumer that finds the work finished passes that post on.     *)
(*                                                                         *)
(* A sem_wait(&semMu) is part of the first step of its critical section;   *)
(* every other semaphore operation is a step, or ends one.                 *)
(***************************************************************************)
EXTENDS Naturals, FiniteSets

CONSTANTS Producers, Consumers,  \* the threads of each kind
          NBUFF,                 \* slots of the ring
          cycleTimes             \* items produced and consumed in a run

ASSUME ThreadsAssumption == /\ IsFiniteSet(Producers) /\ IsFiniteSet(Consumers)
                            /\ Producers \cap Consumers = {}
ASSUME SizesAssumption == NBUFF \in Nat \ {0} /\ cycleTimes \in Nat \ {0}

VARIABLES pIndex, pValue, cIndex, cValue, buff,  \* struct semMutex shared
          semMu, semEmpty, semStore,             \* its semaphores' values
          pc,                                    \* where each thread is
          outcome                                \* of the process

indices == <<pIndex, pValue, cIndex, cValue>>
vars == <<indices, buff, semMu, semEmpty, semStore, pc, outcome>>

Threads == Producers \cup Consumers

Init == /\ pIndex = 0 /\ pValue = 0 /\ cIndex = 0 /\ cValue = 0
        /\ buff = [s \in 0 .. NBUFF - 1 |-> 0]
        /\ semMu = 1 /\ semEmpty = NBUFF /\ semStore = 0
        /\ pc = [t \in Threads |-> "start"]
        /\ outcome = "running"

Goto(t, from, to) == /\ outcome = "running"
                     /\ pc[t] = from
                     /\ pc' = [pc EXCEPT ![t] = to]

sem_wait(sem) == sem > 0 /\ sem' = sem - 1
sem_post(sem) == sem' = sem + 1

-----------------------------------------------------------------------------
(* producer *)

WaitEmpty(p) == /\ Goto(p, "start", "entitled")
                /\ sem_wait(semEmpty)
                /\ UNCHANGED <<indices, buff, semMu, semStore, outcome>>

\* pIndex >= cycleTimes, under semMu: leave, and give semEmpty back
ProducerLeave(p) == /\ Goto(p, "entitled", "returning")
                    /\ semMu > 0
                    /\ pIndex >= cycleTimes
                    /\ UNCHANGED <<indices, buff, semMu, semEmpty, semStore, outcome>>

ProducerReturn(p) == /\ Goto(p, "returning", "done")
                     /\ sem_post(semEmpty)
                     /\ UNCHANGED <<indices, buff, semMu, semStore, outcome>>

\* Mutant: the critical section is not protected.
FillUnprotected(p) == /\ Goto(p, "entitled", "filled")
                      /\ pIndex < cycleTimes
                      /\ buff' = [buff EXCEPT ![pIndex % NBUFF] = pValue]
                      /\ UNCHANGED <<indices, semMu, semEmpty, semStore, outcome>>

\* Mutant: > for >= in the test of pIndex.
FillOneTooMany(p) == /\ Goto(p, "entitled", "filled")
                     /\ sem_wait(semMu)
                     /\ pIndex <= cycleTimes
                     /\ buff' = [buff EXCEPT ![pIndex % NBUFF] = pValue]
                     /\ UNCHANGED <<indices, semEmpty, semStore, outcome>>

\* Otherwise store pValue, still holding semMu ...
Fill(p) == /\ Goto(p, "entitled", "filled")
           /\ sem_wait(semMu)
           /\ pIndex < cycleTimes
           /\ buff' = [buff EXCEPT ![pIndex % NBUFF] = pValue]
           /\ UNCHANGED <<indices, semEmpty, semStore, outcome>>

\* ... pIndex++, pValue++, post semMu
Advance(p) == /\ Goto(p, "filled", "stored")
              /\ pIndex' = pIndex + 1
              /\ pValue' = pValue + 1
              /\ sem_post(semMu)
              /\ UNCHANGED <<cIndex, cValue, buff, semEmpty, semStore, outcome>>

PostStore(p) == /\ Goto(p, "stored", "start")
                /\ sem_post(semStore)
                /\ UNCHANGED <<indices, buff, semMu, semEmpty, outcome>>

producer(p) == \/ WaitEmpty(p) \/ ProducerLeave(p) \/ ProducerReturn(p)
               \/ Fill(p) \/ Advance(p) \/ PostStore(p)

-----------------------------------------------------------------------------
(* consumer *)

WaitStore(c) == /\ Goto(c, "start", "entitled")
                /\ sem_wait(semStore)
                /\ UNCHANGED <<indices, buff, semMu, semEmpty, outcome>>

\* cIndex >= cycleTimes, under semMu: leave, and pass semStore on
ConsumerLeave(c) == /\ Goto(c, "entitled", "returning")
                    /\ semMu > 0
                    /\ cIndex >= cycleTimes
                    /\ UNCHANGED <<indices, buff, semMu, semEmpty, semStore, outcome>>

\* Mutant: the post that ends the next consumer is not passed on.
ConsumerReturnSilently(c) ==
    /\ Goto(c, "returning", "done")
    /\ UNCHANGED <<indices, buff, semMu, semEmpty, semStore, outcome>>

ConsumerReturn(c) == /\ Goto(c, "returning", "done")
                     /\ sem_post(semStore)
                     /\ UNCHANGED <<indices, buff, semMu, semEmpty, outcome>>

\* The slot is compared with cValue; a difference ends the process
Check(c) == /\ cIndex < cycleTimes
            /\ sem_wait(semMu)
            /\ \/ /\ buff[cIndex % NBUFF] = cValue
                  /\ Goto(c, "entitled", "checked")
                  /\ UNCHANGED outcome
               \/ /\ buff[cIndex % NBUFF] # cValue
                  /\ Goto(c, "entitled", "done")
                  /\ outcome' = "wrong"
            /\ UNCHANGED <<indices, buff, semEmpty, semStore>>

\* Mutant: no extra post after the last item.
TakeOnly(c) == /\ Goto(c, "checked", "taken")
               /\ cIndex' = cIndex + 1
               /\ cValue' = cValue + 1
               /\ sem_post(semMu)
               /\ UNCHANGED <<pIndex, pValue, buff, semEmpty, semStore, outcome>>

\* cIndex++, cValue++, the extra post after the last item, post semMu
Take(c) == /\ Goto(c, "checked", "taken")
           /\ cIndex' = cIndex + 1
           /\ cValue' = cValue + 1
           /\ semStore' = IF cIndex' >= cycleTimes THEN semStore + 1 ELSE semStore
           /\ sem_post(semMu)
           /\ UNCHANGED <<pIndex, pValue, buff, semEmpty, outcome>>

PostEmpty(c) == /\ Goto(c, "taken", "start")
                /\ sem_post(semEmpty)
                /\ UNCHANGED <<indices, buff, semMu, semStore, outcome>>

consumer(c) == \/ WaitStore(c) \/ ConsumerLeave(c) \/ ConsumerReturn(c)
               \/ Check(c) \/ Take(c) \/ PostEmpty(c)

-----------------------------------------------------------------------------
\* main joins every thread, destroys the semaphores and exits
MainExit == /\ outcome = "running" /\ \A t \in Threads : pc[t] = "done"
            /\ outcome' = "exit0"
            /\ UNCHANGED <<indices, buff, semMu, semEmpty, semStore, pc>>

Terminated == outcome # "running" /\ UNCHANGED vars

Next == \/ \E p \in Producers : producer(p)
        \/ \E c \in Consumers : consumer(c)
        \/ MainExit
        \/ Terminated

\* Every thread is scheduled again and again. No fairness among the threads
\* that wait for one semaphore is needed: the work is finite.
Fairness == /\ \A p \in Producers : WF_vars(producer(p))
            /\ \A c \in Consumers : WF_vars(consumer(c))
            /\ WF_vars(MainExit)

Spec == Init /\ [][Next]_vars /\ Fairness

-----------------------------------------------------------------------------
(* Properties *)

Locations == {"start", "entitled", "filled", "stored", "checked", "taken", "returning", "done"}

\* Every variable keeps its type: indices and values never pass cycleTimes,
\* semMu is a binary semaphore, no semaphore goes below zero.
TypeOK == /\ pIndex \in 0 .. cycleTimes /\ pValue \in 0 .. cycleTimes
          /\ cIndex \in 0 .. cycleTimes /\ cValue \in 0 .. cycleTimes
          /\ buff \in [0 .. NBUFF - 1 -> 0 .. cycleTimes]
          /\ semMu \in {0, 1} /\ semEmpty \in Nat /\ semStore \in Nat
          /\ pc \in [Threads -> Locations]
          /\ outcome \in {"running", "exit0", "wrong"}

At(T, locs) == {t \in T : pc[t] \in locs}
MayFill == At(Producers, {"entitled", "filled", "returning"}) \* hold a semEmpty unit
HaveFilled == At(Producers, {"stored"})                       \* owe a semStore post
MayTake == At(Consumers, {"entitled", "checked", "returning"})  \* hold a semStore unit
HaveTaken == At(Consumers, {"taken"})                         \* owe a semEmpty post

\* Every semEmpty unit is in the semaphore, with a producer that may fill or
\* must give back a slot, with a consumer that has just emptied one, or stands
\* for a slot that is full: none is lost or made, so the ring never overflows.
EmptyConserved ==
    semEmpty + Cardinality(MayFill) + Cardinality(HaveTaken) + pIndex = NBUFF + cIndex

\* Every semStore unit stands for a full slot, and once the last item is taken
\* there is exactly one more, which circulates among the leaving consumers.
StoreConserved ==
    semStore + Cardinality(HaveFilled) + Cardinality(MayTake) + cIndex
      = pIndex + (IF cIndex >= cycleTimes THEN 1 ELSE 0)

\* Neither semaphore loses or gains a unit, whichever threads are inside, wait
\* or leave through the exit chain of producer and consumer.
UnitsConserved == EmptyConserved /\ StoreConserved

\* No consumer takes the "something wrong" exit: the slot it is entitled to
\* holds its item, never a newer one that lapped it or an older one.
NeverWrong == outcome # "wrong"

\* All threads end (the circulating post reaches every consumer, and blocked
\* producers are released), and the ring hands over the items in order.
Contract == INSTANCE Stream WITH Total <- cycleTimes, Capacity <- NBUFF,
                                 produced <- pIndex, consumed <- cIndex
ImplementsStream == Contract!Spec
=============================================================================
