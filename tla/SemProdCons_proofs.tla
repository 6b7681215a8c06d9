------------------------- MODULE SemProdCons_proofs -------------------------
(***************************************************************************)
(* The two groups of programs that lock with semaphores.                   *)
(*                                                                         *)
(* SemProdCons for any finite sets of producers and consumers, any ring    *)
(* size and any number of items: its types, the conservation of both       *)
(* counting semaphores, the consumers' check never failing, and the safety *)
(* part of the contract of Stream.                                         *)
(*                                                                         *)
(* SeqFile for any finite set of processes, any number of increments and   *)
(* of reruns of the object server: its types, mutual exclusion by each of  *)
(* the four locks, and no increment lost. The count of the increments is a *)
(* sum over a set of processes; the lemmas about sums come first.          *)
(***************************************************************************)
EXTENDS SemProdCons, SeqFile, FiniteSetTheorems, NaturalsInduction, WellFoundedInduction, TLAPS

(* SemProdCons: the inductive invariant. *)

PcOK ==
    /\ \A p \in Producers : pc[p] \in {"start", "entitled", "filled", "stored", "returning", "done"}
    /\ \A c \in Consumers : pc[c] \in {"start", "entitled", "checked", "taken", "returning", "done"}

\* semMu is a mutex: 0 while a thread is inside, and never two are.
Inside == {"filled", "checked"}
MutexOK == /\ \A t \in Threads : pc[t] \in Inside => semMu = 0
           /\ \A t, u \in Threads : pc[t] \in Inside /\ pc[u] \in Inside => t = u

\* The items between the two indices are in their slots.
RingOK == /\ pValue = pIndex /\ cValue = cIndex
          /\ cIndex <= pIndex
          /\ \A k \in Nat : cIndex <= k /\ k < pIndex => buff[k % NBUFF] = k

\* What a thread inside has established and not yet counted.
InsideOK == /\ \A p \in Producers : pc[p] = "filled" => /\ pIndex < cycleTimes
                                                       /\ buff[pIndex % NBUFF] = pIndex
            /\ \A c \in Consumers : pc[c] = "checked" => cIndex < cycleTimes

IndInv == /\ TypeOK /\ PcOK /\ MutexOK /\ RingOK /\ InsideOK
          /\ EmptyConserved /\ StoreConserved /\ NeverWrong

-----------------------------------------------------------------------------
(* Counting the threads at a set of locations. *)

LEMMA AtFinite ==
  ASSUME NEW T \in {Producers, Consumers}, NEW locs
  PROVE  IsFiniteSet(At(T, locs)) /\ Cardinality(At(T, locs)) \in Nat
<1>1. At(T, locs) \in SUBSET T /\ IsFiniteSet(T)
  BY ThreadsAssumption DEF At
<1> QED BY <1>1, FS_Subset, FS_CardinalityType

LEMMA AtPositive ==
  ASSUME NEW T \in {Producers, Consumers}, NEW locs, NEW t \in T, pc[t] \in locs
  PROVE  Cardinality(At(T, locs)) >= 1
<1>1. At(T, locs) # {}
  BY DEF At
<1> QED BY <1>1, AtFinite, FS_EmptySet

LEMMA AtEnter ==
  ASSUME NEW T \in {Producers, Consumers}, NEW locs, NEW t \in T, pc[t] \notin locs,
         pc \in [Threads -> Locations], NEW l \in locs, pc' = [pc EXCEPT ![t] = l]
  PROVE  Cardinality(At(T, locs)') = Cardinality(At(T, locs)) + 1
<1>1. At(T, locs)' = At(T, locs) \cup {t} /\ t \notin At(T, locs)
  BY DEF At, Threads
<1> QED BY <1>1, AtFinite, FS_AddElement

LEMMA AtLeave ==
  ASSUME NEW T \in {Producers, Consumers}, NEW locs, NEW t \in T, pc[t] \in locs,
         pc \in [Threads -> Locations], NEW l, l \notin locs, pc' = [pc EXCEPT ![t] = l]
  PROVE  Cardinality(At(T, locs)') = Cardinality(At(T, locs)) - 1
<1>1. At(T, locs)' = At(T, locs) \ {t} /\ t \in At(T, locs)
  BY DEF At, Threads
<1> QED BY <1>1, AtFinite, FS_RemoveElement

LEMMA AtSame ==
  ASSUME NEW T \in {Producers, Consumers}, NEW locs, NEW t \in Threads,
         pc \in [Threads -> Locations], NEW l, pc' = [pc EXCEPT ![t] = l],
         t \in T => (pc[t] \in locs <=> l \in locs)
  PROVE  At(T, locs)' = At(T, locs)
BY DEF At, Threads

\* Two indices less than a ring apart fall into different slots.
LEMMA DistinctSlots ==
  ASSUME NEW a \in Nat, NEW b \in Nat, a < b, b < a + NBUFF
  PROVE  a % NBUFF # b % NBUFF
<1> SUFFICES ASSUME a % NBUFF = b % NBUFF PROVE FALSE
  OBVIOUS
<1> DEFINE d == b \div NBUFF - a \div NBUFF
<1>0. NBUFF \in Nat \ {0}
  BY SizesAssumption
<1>1. /\ a = NBUFF * (a \div NBUFF) + (a % NBUFF)
      /\ b = NBUFF * (b \div NBUFF) + (b % NBUFF)
      /\ a \div NBUFF \in Int /\ b \div NBUFF \in Int
  BY <1>0
<1>2. d \in Int /\ b - a = NBUFF * d
  BY <1>0, <1>1
<1> HIDE DEF d
<1>3. CASE d <= 0
  <2>1. NBUFF * d <= 0
    BY <1>0, <1>2, <1>3
  <2> QED BY <1>2, <2>1
<1>4. CASE d >= 1
  <2>1. NBUFF * d >= NBUFF
    BY <1>0, <1>2, <1>4
  <2> QED BY <1>0, <1>2, <2>1
<1> QED BY <1>2, <1>3, <1>4

LEMMA SlotType == \A k \in Nat : k % NBUFF \in 0 .. NBUFF - 1
BY SizesAssumption

\* What a producer's step does to the four counts.
LEMMA ProducerCounts ==
  ASSUME IndInv, NEW p \in Producers, NEW to \in Locations, pc' = [pc EXCEPT ![p] = to]
  PROVE  LET E == {"entitled", "filled", "returning"}
             F == {"stored"}
             from == pc[p]
         IN /\ MayTake' = MayTake /\ HaveTaken' = HaveTaken
            /\ from \notin E /\ to \in E => Cardinality(MayFill') = Cardinality(MayFill) + 1
            /\ from \in E /\ to \notin E => Cardinality(MayFill') = Cardinality(MayFill) - 1
            /\ (from \in E <=> to \in E) => MayFill' = MayFill
            /\ from \notin F /\ to \in F => Cardinality(HaveFilled') = Cardinality(HaveFilled) + 1
            /\ from \in F /\ to \notin F => Cardinality(HaveFilled') = Cardinality(HaveFilled) - 1
            /\ (from \in F <=> to \in F) => HaveFilled' = HaveFilled
<1> DEFINE E == {"entitled", "filled", "returning"}
           F == {"stored"}
<1>0. pc \in [Threads -> Locations] /\ p \in Threads /\ p \notin Consumers
  BY ThreadsAssumption DEF IndInv, TypeOK, Threads
<1>1. MayTake' = MayTake /\ HaveTaken' = HaveTaken
  BY <1>0, AtSame DEF MayTake, HaveTaken
<1>2. /\ pc[p] \notin E /\ to \in E => Cardinality(MayFill') = Cardinality(MayFill) + 1
      /\ pc[p] \notin F /\ to \in F => Cardinality(HaveFilled') = Cardinality(HaveFilled) + 1
  BY <1>0, AtEnter DEF MayFill, HaveFilled
<1>3. /\ pc[p] \in E /\ to \notin E => Cardinality(MayFill') = Cardinality(MayFill) - 1
      /\ pc[p] \in F /\ to \notin F => Cardinality(HaveFilled') = Cardinality(HaveFilled) - 1
  BY <1>0, AtLeave DEF MayFill, HaveFilled
<1>4. /\ (pc[p] \in E <=> to \in E) => MayFill' = MayFill
      /\ (pc[p] \in F <=> to \in F) => HaveFilled' = HaveFilled
  BY <1>0, AtSame DEF MayFill, HaveFilled
<1> QED BY <1>1, <1>2, <1>3, <1>4

\* What a consumer's step does to them.
LEMMA ConsumerCounts ==
  ASSUME IndInv, NEW c \in Consumers, NEW to \in Locations, pc' = [pc EXCEPT ![c] = to]
  PROVE  LET E == {"entitled", "checked", "returning"}
             F == {"taken"}
             from == pc[c]
         IN /\ MayFill' = MayFill /\ HaveFilled' = HaveFilled
            /\ from \notin E /\ to \in E => Cardinality(MayTake') = Cardinality(MayTake) + 1
            /\ from \in E /\ to \notin E => Cardinality(MayTake') = Cardinality(MayTake) - 1
            /\ (from \in E <=> to \in E) => MayTake' = MayTake
            /\ from \notin F /\ to \in F => Cardinality(HaveTaken') = Cardinality(HaveTaken) + 1
            /\ from \in F /\ to \notin F => Cardinality(HaveTaken') = Cardinality(HaveTaken) - 1
            /\ (from \in F <=> to \in F) => HaveTaken' = HaveTaken
<1> DEFINE E == {"entitled", "checked", "returning"}
           F == {"taken"}
<1>0. pc \in [Threads -> Locations] /\ c \in Threads /\ c \notin Producers
  BY ThreadsAssumption DEF IndInv, TypeOK, Threads
<1>1. MayFill' = MayFill /\ HaveFilled' = HaveFilled
  BY <1>0, AtSame DEF MayFill, HaveFilled
<1>2. /\ pc[c] \notin E /\ to \in E => Cardinality(MayTake') = Cardinality(MayTake) + 1
      /\ pc[c] \notin F /\ to \in F => Cardinality(HaveTaken') = Cardinality(HaveTaken) + 1
  BY <1>0, AtEnter DEF MayTake, HaveTaken
<1>3. /\ pc[c] \in E /\ to \notin E => Cardinality(MayTake') = Cardinality(MayTake) - 1
      /\ pc[c] \in F /\ to \notin F => Cardinality(HaveTaken') = Cardinality(HaveTaken) - 1
  BY <1>0, AtLeave DEF MayTake, HaveTaken
<1>4. /\ (pc[c] \in E <=> to \in E) => MayTake' = MayTake
      /\ (pc[c] \in F <=> to \in F) => HaveTaken' = HaveTaken
  BY <1>0, AtSame DEF MayTake, HaveTaken
<1> QED BY <1>1, <1>2, <1>3, <1>4

LEMMA CountsNat == /\ Cardinality(MayFill) \in Nat /\ Cardinality(HaveFilled) \in Nat
                   /\ Cardinality(MayTake) \in Nat /\ Cardinality(HaveTaken) \in Nat
BY AtFinite DEF MayFill, HaveFilled, MayTake, HaveTaken

\* A producer entitled to a slot has one: the ring is not full. A consumer
\* entitled to an item before the last has one.
LEMMA Entitled ==
  ASSUME IndInv
  PROVE  /\ pIndex <= cIndex + NBUFF
         /\ \A p \in Producers : pc[p] = "entitled" => pIndex < cIndex + NBUFF
         /\ \A p \in Producers : pc[p] = "filled" => pIndex < cIndex + NBUFF
         /\ \A c \in Consumers : pc[c] \in {"entitled", "checked"} /\ cIndex < cycleTimes
                                   => cIndex < pIndex
<1> USE DEF IndInv
<1>1. pIndex <= cIndex + NBUFF
  BY CountsNat, SizesAssumption DEF EmptyConserved, TypeOK
<1>2. ASSUME NEW p \in Producers, pc[p] \in {"entitled", "filled"} PROVE pIndex < cIndex + NBUFF
  <2>1. Cardinality(MayFill) >= 1
    BY <1>2, AtPositive DEF MayFill
  <2> QED BY <2>1, CountsNat, SizesAssumption DEF EmptyConserved, TypeOK
<1>3. ASSUME NEW c \in Consumers, pc[c] \in {"entitled", "checked"}, cIndex < cycleTimes
      PROVE  cIndex < pIndex
  <2>1. Cardinality(MayTake) >= 1
    BY <1>3, AtPositive DEF MayTake
  <2> QED BY <1>3, <2>1, CountsNat, SizesAssumption DEF StoreConserved, TypeOK
<1> QED BY <1>1, <1>2, <1>3

-----------------------------------------------------------------------------
LEMMA InitInd == Init => IndInv
<1> SUFFICES ASSUME Init PROVE IndInv
  OBVIOUS
<1>1. TypeOK /\ PcOK /\ NeverWrong
  BY SizesAssumption DEF Init, TypeOK, PcOK, NeverWrong, Locations, Threads
<1>2. MutexOK /\ RingOK /\ InsideOK
  BY DEF Init, MutexOK, RingOK, InsideOK, Inside, Threads
<1>3. MayFill = {} /\ HaveFilled = {} /\ MayTake = {} /\ HaveTaken = {}
  BY DEF Init, MayFill, HaveFilled, MayTake, HaveTaken, At, Threads
<1>4. EmptyConserved /\ StoreConserved
  BY <1>3, FS_EmptySet, SizesAssumption DEF Init, EmptyConserved, StoreConserved
<1> QED BY <1>1, <1>2, <1>4 DEF IndInv

\* A step that only moves a thread outside the critical section keeps all but
\* the two conservation laws.
LEMMA Quiet ==
  ASSUME IndInv, NEW t \in Threads, NEW from \in Locations \ Inside,
         NEW to \in Locations \ Inside, Goto(t, from, to),
         t \in Producers => to \in {"start", "entitled", "stored", "returning", "done"},
         t \in Consumers => to \in {"start", "entitled", "taken", "returning", "done"},
         UNCHANGED <<indices, buff, semMu, outcome>>, semEmpty' \in Nat, semStore' \in Nat
  PROVE  TypeOK' /\ PcOK' /\ MutexOK' /\ RingOK' /\ InsideOK' /\ NeverWrong'
<1> USE DEF IndInv, indices
<1>1. TypeOK' /\ PcOK'
  BY DEF TypeOK, PcOK, Goto, Threads
<1>2. MutexOK' /\ InsideOK'
  BY DEF TypeOK, MutexOK, InsideOK, Goto, Inside, Threads
<1>3. RingOK' /\ NeverWrong'
  BY DEF RingOK, NeverWrong
<1> QED BY <1>1, <1>2, <1>3

LEMMA WaitEmptyInd == ASSUME IndInv, NEW p \in Producers, WaitEmpty(p) PROVE IndInv'
<1> USE DEF WaitEmpty, sem_wait
<1>1. /\ Goto(p, "start", "entitled") /\ p \in Threads /\ p \notin Consumers
      /\ semEmpty' \in Nat /\ semStore' \in Nat
  BY ThreadsAssumption DEF IndInv, TypeOK, Threads
<1>2. TypeOK' /\ PcOK' /\ MutexOK' /\ RingOK' /\ InsideOK' /\ NeverWrong'
  BY <1>1, Quiet DEF IndInv, TypeOK, Locations, Inside
<1>3. /\ Cardinality(MayFill') = Cardinality(MayFill) + 1
      /\ HaveFilled' = HaveFilled /\ MayTake' = MayTake /\ HaveTaken' = HaveTaken
  BY <1>1, ProducerCounts DEF Goto, Locations
<1>4. EmptyConserved' /\ StoreConserved'
  BY <1>3, CountsNat DEF IndInv, TypeOK, EmptyConserved, StoreConserved, indices
<1> QED BY <1>2, <1>4 DEF IndInv

LEMMA ProducerLeaveInd == ASSUME IndInv, NEW p \in Producers, ProducerLeave(p) PROVE IndInv'
<1> USE DEF ProducerLeave
<1>1. /\ Goto(p, "entitled", "returning") /\ p \in Threads /\ p \notin Consumers
      /\ semEmpty' \in Nat /\ semStore' \in Nat
  BY ThreadsAssumption DEF IndInv, TypeOK, Threads
<1>2. TypeOK' /\ PcOK' /\ MutexOK' /\ RingOK' /\ InsideOK' /\ NeverWrong'
  BY <1>1, Quiet DEF IndInv, TypeOK, Locations, Inside
<1>3. EmptyConserved' /\ StoreConserved'
  BY <1>1, ProducerCounts, CountsNat
  DEF IndInv, TypeOK, EmptyConserved, StoreConserved, Goto, Locations, indices
<1> QED BY <1>2, <1>3 DEF IndInv

LEMMA ProducerReturnInd == ASSUME IndInv, NEW p \in Producers, ProducerReturn(p) PROVE IndInv'
<1> USE DEF ProducerReturn, sem_post
<1>1. /\ Goto(p, "returning", "done") /\ p \in Threads /\ p \notin Consumers
      /\ semEmpty' \in Nat /\ semStore' \in Nat
  BY ThreadsAssumption DEF IndInv, TypeOK, Threads
<1>2. TypeOK' /\ PcOK' /\ MutexOK' /\ RingOK' /\ InsideOK' /\ NeverWrong'
  BY <1>1, Quiet DEF IndInv, TypeOK, Locations, Inside
<1>3. /\ Cardinality(MayFill') = Cardinality(MayFill) - 1
      /\ HaveFilled' = HaveFilled /\ MayTake' = MayTake /\ HaveTaken' = HaveTaken
  BY <1>1, ProducerCounts DEF Goto, Locations
<1>4. EmptyConserved' /\ StoreConserved'
  BY <1>3, CountsNat DEF IndInv, TypeOK, EmptyConserved, StoreConserved, indices
<1> QED BY <1>2, <1>4 DEF IndInv

LEMMA PostStoreInd == ASSUME IndInv, NEW p \in Producers, PostStore(p) PROVE IndInv'
<1> USE DEF PostStore, sem_post
<1>1. /\ Goto(p, "stored", "start") /\ p \in Threads /\ p \notin Consumers
      /\ semEmpty' \in Nat /\ semStore' \in Nat
  BY ThreadsAssumption DEF IndInv, TypeOK, Threads
<1>2. TypeOK' /\ PcOK' /\ MutexOK' /\ RingOK' /\ InsideOK' /\ NeverWrong'
  BY <1>1, Quiet DEF IndInv, TypeOK, Locations, Inside
<1>3. /\ Cardinality(HaveFilled') = Cardinality(HaveFilled) - 1
      /\ MayFill' = MayFill /\ MayTake' = MayTake /\ HaveTaken' = HaveTaken
  BY <1>1, ProducerCounts DEF Goto, Locations
<1>4. EmptyConserved' /\ StoreConserved'
  BY <1>3, CountsNat DEF IndInv, TypeOK, EmptyConserved, StoreConserved, indices
<1> QED BY <1>2, <1>4 DEF IndInv

LEMMA WaitStoreInd == ASSUME IndInv, NEW c \in Consumers, WaitStore(c) PROVE IndInv'
<1> USE DEF WaitStore, sem_wait
<1>1. /\ Goto(c, "start", "entitled") /\ c \in Threads /\ c \notin Producers
      /\ semEmpty' \in Nat /\ semStore' \in Nat
  BY ThreadsAssumption DEF IndInv, TypeOK, Threads
<1>2. TypeOK' /\ PcOK' /\ MutexOK' /\ RingOK' /\ InsideOK' /\ NeverWrong'
  BY <1>1, Quiet DEF IndInv, TypeOK, Locations, Inside
<1>3. /\ Cardinality(MayTake') = Cardinality(MayTake) + 1
      /\ MayFill' = MayFill /\ HaveFilled' = HaveFilled /\ HaveTaken' = HaveTaken
  BY <1>1, ConsumerCounts DEF Goto, Locations
<1>4. EmptyConserved' /\ StoreConserved'
  BY <1>3, CountsNat DEF IndInv, TypeOK, EmptyConserved, StoreConserved, indices
<1> QED BY <1>2, <1>4 DEF IndInv

LEMMA ConsumerLeaveInd == ASSUME IndInv, NEW c \in Consumers, ConsumerLeave(c) PROVE IndInv'
<1> USE DEF ConsumerLeave
<1>1. /\ Goto(c, "entitled", "returning") /\ c \in Threads /\ c \notin Producers
      /\ semEmpty' \in Nat /\ semStore' \in Nat
  BY ThreadsAssumption DEF IndInv, TypeOK, Threads
<1>2. TypeOK' /\ PcOK' /\ MutexOK' /\ RingOK' /\ InsideOK' /\ NeverWrong'
  BY <1>1, Quiet DEF IndInv, TypeOK, Locations, Inside
<1>3. EmptyConserved' /\ StoreConserved'
  BY <1>1, ConsumerCounts, CountsNat
  DEF IndInv, TypeOK, EmptyConserved, StoreConserved, Goto, Locations, indices
<1> QED BY <1>2, <1>3 DEF IndInv

LEMMA ConsumerReturnInd == ASSUME IndInv, NEW c \in Consumers, ConsumerReturn(c) PROVE IndInv'
<1> USE DEF ConsumerReturn, sem_post
<1>1. /\ Goto(c, "returning", "done") /\ c \in Threads /\ c \notin Producers
      /\ semEmpty' \in Nat /\ semStore' \in Nat
  BY ThreadsAssumption DEF IndInv, TypeOK, Threads
<1>2. TypeOK' /\ PcOK' /\ MutexOK' /\ RingOK' /\ InsideOK' /\ NeverWrong'
  BY <1>1, Quiet DEF IndInv, TypeOK, Locations, Inside
<1>3. /\ Cardinality(MayTake') = Cardinality(MayTake) - 1
      /\ MayFill' = MayFill /\ HaveFilled' = HaveFilled /\ HaveTaken' = HaveTaken
  BY <1>1, ConsumerCounts DEF Goto, Locations
<1>4. EmptyConserved' /\ StoreConserved'
  BY <1>3, CountsNat DEF IndInv, TypeOK, EmptyConserved, StoreConserved, indices
<1> QED BY <1>2, <1>4 DEF IndInv

LEMMA PostEmptyInd == ASSUME IndInv, NEW c \in Consumers, PostEmpty(c) PROVE IndInv'
<1> USE DEF PostEmpty, sem_post
<1>1. /\ Goto(c, "taken", "start") /\ c \in Threads /\ c \notin Producers
      /\ semEmpty' \in Nat /\ semStore' \in Nat
  BY ThreadsAssumption DEF IndInv, TypeOK, Threads
<1>2. TypeOK' /\ PcOK' /\ MutexOK' /\ RingOK' /\ InsideOK' /\ NeverWrong'
  BY <1>1, Quiet DEF IndInv, TypeOK, Locations, Inside
<1>3. /\ Cardinality(HaveTaken') = Cardinality(HaveTaken) - 1
      /\ MayFill' = MayFill /\ HaveFilled' = HaveFilled /\ MayTake' = MayTake
  BY <1>1, ConsumerCounts DEF Goto, Locations
<1>4. EmptyConserved' /\ StoreConserved'
  BY <1>3, CountsNat DEF IndInv, TypeOK, EmptyConserved, StoreConserved, indices
<1> QED BY <1>2, <1>4 DEF IndInv

\* The stored item goes into a slot that no unread item occupies.
LEMMA FillInd == ASSUME IndInv, NEW p \in Producers, Fill(p) PROVE IndInv'
<1> USE DEF Fill, sem_wait
<1>1. /\ Goto(p, "entitled", "filled") /\ p \in Threads /\ p \notin Consumers
      /\ semMu = 1 /\ semMu' = 0
  BY ThreadsAssumption DEF IndInv, TypeOK, Threads
<1>2. pIndex \in Nat /\ pIndex % NBUFF \in 0 .. NBUFF - 1 /\ pIndex < cIndex + NBUFF
  <2>1. pIndex \in Nat
    BY SizesAssumption DEF IndInv, TypeOK
  <2>2. pIndex < cIndex + NBUFF
    BY <1>1, Entitled DEF Goto
  <2> QED BY <2>1, <2>2, SlotType
<1>3. TypeOK' /\ PcOK'
  <2>1. buff' \in [0 .. NBUFF - 1 -> 0 .. cycleTimes]
    BY <1>2 DEF IndInv, TypeOK
  <2> QED BY <1>1, <2>1 DEF IndInv, TypeOK, PcOK, Goto, Locations, Threads, indices
<1>4. MutexOK'
  BY <1>1 DEF IndInv, TypeOK, MutexOK, Goto, Inside
<1>5. RingOK'
  <2>1. ASSUME NEW k \in Nat, cIndex <= k, k < pIndex PROVE buff'[k % NBUFF] = k
    <3>1. k % NBUFF # pIndex % NBUFF
      <4>1. pIndex < k + NBUFF
        BY <1>2, <2>1, SizesAssumption DEF IndInv, TypeOK
      <4> QED BY <1>2, <2>1, <4>1, DistinctSlots
    <3>2. k % NBUFF \in 0 .. NBUFF - 1 /\ buff[k % NBUFF] = k
      BY <2>1, SlotType DEF IndInv, RingOK
    <3> QED BY <3>1, <3>2 DEF IndInv, TypeOK
  <2> QED BY <2>1 DEF IndInv, RingOK, indices
<1>6. InsideOK'
  <2>1. buff'[pIndex % NBUFF] = pIndex
    BY <1>2 DEF IndInv, TypeOK, RingOK
  <2>2. \A t \in Threads : pc'[t] \in Inside => t = p
    BY <1>1 DEF IndInv, TypeOK, MutexOK, Goto
  <2> QED BY <1>1, <2>1, <2>2 DEF InsideOK, Inside, Threads, indices
<1>7. MayFill' = MayFill /\ HaveFilled' = HaveFilled /\ MayTake' = MayTake /\ HaveTaken' = HaveTaken
  BY <1>1, ProducerCounts DEF Goto, Locations
<1>8. EmptyConserved' /\ StoreConserved' /\ NeverWrong'
  BY <1>7 DEF IndInv, EmptyConserved, StoreConserved, NeverWrong, indices
<1> QED BY <1>3, <1>4, <1>5, <1>6, <1>8 DEF IndInv

LEMMA AdvanceInd == ASSUME IndInv, NEW p \in Producers, Advance(p) PROVE IndInv'
<1> USE DEF Advance, sem_post
<1>1. /\ Goto(p, "filled", "stored") /\ p \in Threads /\ p \notin Consumers
      /\ semMu = 0 /\ semMu' = 1
      /\ pIndex < cycleTimes /\ buff[pIndex % NBUFF] = pIndex
  BY ThreadsAssumption DEF IndInv, TypeOK, MutexOK, InsideOK, Goto, Inside, Threads
<1>2. TypeOK' /\ PcOK'
  BY <1>1, SizesAssumption DEF IndInv, TypeOK, PcOK, RingOK, Goto, Locations, Threads
<1>3. \A t \in Threads : pc'[t] \notin Inside
  BY <1>1 DEF IndInv, TypeOK, MutexOK, Goto, Inside
<1>4. MutexOK' /\ InsideOK'
  BY <1>3 DEF MutexOK, InsideOK, Inside, Threads
<1>5. RingOK'
  BY <1>1 DEF IndInv, TypeOK, RingOK
<1>6. /\ Cardinality(MayFill') = Cardinality(MayFill) - 1
      /\ Cardinality(HaveFilled') = Cardinality(HaveFilled) + 1
      /\ MayTake' = MayTake /\ HaveTaken' = HaveTaken
  BY <1>1, ProducerCounts DEF Goto, Locations
<1>7. EmptyConserved' /\ StoreConserved'
  <2>1. semEmpty' = semEmpty /\ semStore' = semStore /\ cIndex' = cIndex /\ pIndex' = pIndex + 1
    OBVIOUS
  <2>2. /\ semEmpty \in Nat /\ semStore \in Nat /\ pIndex \in Nat /\ cIndex \in Nat
        /\ NBUFF \in Nat /\ EmptyConserved /\ StoreConserved
    BY SizesAssumption DEF IndInv, TypeOK
  <2>3. EmptyConserved'
    <3>1. semEmpty + Cardinality(MayFill) + Cardinality(HaveTaken) + pIndex = NBUFF + cIndex
      BY <2>2 DEF EmptyConserved
    <3>2. SUFFICES semEmpty' + Cardinality(MayFill') + Cardinality(HaveTaken') + pIndex'
                     = NBUFF + cIndex'
      BY DEF EmptyConserved
    <3>3. /\ Cardinality(MayFill') = Cardinality(MayFill) - 1
          /\ Cardinality(HaveTaken') = Cardinality(HaveTaken)
          /\ Cardinality(MayFill) \in Nat /\ Cardinality(HaveTaken) \in Nat
      BY <1>6, CountsNat
    <3> HIDE DEF Advance
    <3> QED BY <2>1, <2>2, <3>1, <3>3
  <2>4. StoreConserved'
    <3> DEFINE extra == IF cIndex >= cycleTimes THEN 1 ELSE 0
    <3>1. extra \in Nat /\ extra' = extra
      BY <2>1
    <3>2. semStore + Cardinality(HaveFilled) + Cardinality(MayTake) + cIndex = pIndex + extra
      BY <2>2 DEF StoreConserved
    <3>3. SUFFICES semStore' + Cardinality(HaveFilled') + Cardinality(MayTake') + cIndex'
                     = pIndex' + extra'
      BY DEF StoreConserved
    <3> HIDE DEF extra
    <3> QED BY <1>6, <2>1, <2>2, <3>1, <3>2, CountsNat
  <2> QED BY <2>3, <2>4
<1>8. NeverWrong'
  BY DEF IndInv, NeverWrong
<1> QED BY <1>2, <1>4, <1>5, <1>7, <1>8 DEF IndInv

\* The consumer's slot holds its item: the failing branch of Check is dead.
LEMMA CheckInd == ASSUME IndInv, NEW c \in Consumers, Check(c) PROVE IndInv'
<1> USE DEF Check, sem_wait
<1>0. pc[c] = "entitled"
  BY DEF Goto
<1>1. buff[cIndex % NBUFF] = cValue
  BY <1>0, Entitled DEF IndInv, TypeOK, RingOK
<1>2. /\ Goto(c, "entitled", "checked") /\ c \in Threads /\ c \notin Producers
      /\ semMu = 1 /\ semMu' = 0 /\ outcome' = outcome
  BY <1>1, ThreadsAssumption DEF IndInv, TypeOK, Threads
<1>3. TypeOK' /\ PcOK'
  BY <1>2 DEF IndInv, TypeOK, PcOK, Goto, Locations, Threads, indices
<1>4. \A t \in Threads : pc'[t] \in Inside => t = c
  BY <1>2 DEF IndInv, TypeOK, MutexOK, Goto
<1>5. MutexOK' /\ InsideOK'
  BY <1>2, <1>4 DEF MutexOK, InsideOK, Inside, Threads, indices
<1>6. RingOK' /\ NeverWrong'
  BY <1>2 DEF IndInv, RingOK, NeverWrong, indices
<1>7. MayFill' = MayFill /\ HaveFilled' = HaveFilled /\ MayTake' = MayTake /\ HaveTaken' = HaveTaken
  BY <1>2, ConsumerCounts DEF Goto, Locations
<1>8. EmptyConserved' /\ StoreConserved'
  BY <1>7 DEF IndInv, EmptyConserved, StoreConserved, indices
<1> QED BY <1>3, <1>5, <1>6, <1>8 DEF IndInv

LEMMA TakeInd == ASSUME IndInv, NEW c \in Consumers, Take(c) PROVE IndInv'
<1> USE DEF Take, sem_post
<1>1. /\ Goto(c, "checked", "taken") /\ c \in Threads /\ c \notin Producers
      /\ semMu = 0 /\ semMu' = 1
      /\ cIndex < cycleTimes
  BY ThreadsAssumption DEF IndInv, TypeOK, MutexOK, InsideOK, Goto, Inside, Threads
<1>2. cIndex < pIndex
  BY <1>1, Entitled DEF Goto
<1>3. TypeOK' /\ PcOK'
  BY <1>1, SizesAssumption DEF IndInv, TypeOK, PcOK, RingOK, Goto, Locations, Threads
<1>4. \A t \in Threads : pc'[t] \notin Inside
  BY <1>1 DEF IndInv, TypeOK, MutexOK, Goto, Inside
<1>5. MutexOK' /\ InsideOK'
  BY <1>4 DEF MutexOK, InsideOK, Inside, Threads
<1>6. RingOK'
  BY <1>2 DEF IndInv, TypeOK, RingOK
<1>7. /\ Cardinality(MayTake') = Cardinality(MayTake) - 1
      /\ Cardinality(HaveTaken') = Cardinality(HaveTaken) + 1
      /\ MayFill' = MayFill /\ HaveFilled' = HaveFilled
  BY <1>1, ConsumerCounts DEF Goto, Locations
<1>8. EmptyConserved' /\ StoreConserved'
  <2>1. semEmpty' = semEmpty /\ pIndex' = pIndex /\ cIndex' = cIndex + 1
    OBVIOUS
  <2>2. /\ semEmpty \in Nat /\ semStore \in Nat /\ pIndex \in Nat /\ cIndex \in Nat
        /\ NBUFF \in Nat /\ cycleTimes \in Nat /\ EmptyConserved /\ StoreConserved
    BY SizesAssumption DEF IndInv, TypeOK
  <2>3. EmptyConserved'
    BY <1>7, <2>1, <2>2, CountsNat DEF EmptyConserved
  <2>4. StoreConserved'
    <3>1. semStore' = semStore + (IF cIndex' >= cycleTimes THEN 1 ELSE 0)
      BY <2>2
    <3>2. semStore + Cardinality(HaveFilled) + Cardinality(MayTake) + cIndex = pIndex
      BY <1>1, <2>2 DEF StoreConserved
    <3> QED BY <1>7, <2>1, <2>2, <3>1, <3>2, CountsNat DEF StoreConserved
  <2> QED BY <2>3, <2>4
<1>9. NeverWrong'
  BY DEF IndInv, NeverWrong
<1> QED BY <1>3, <1>5, <1>6, <1>8, <1>9 DEF IndInv

LEMMA NextInd == IndInv /\ [Next]_vars => IndInv'
<1> SUFFICES ASSUME IndInv, [Next]_vars PROVE IndInv'
  OBVIOUS
<1>1. ASSUME NEW p \in Producers, producer(p) PROVE IndInv'
  BY <1>1, WaitEmptyInd, ProducerLeaveInd, ProducerReturnInd, FillInd, AdvanceInd, PostStoreInd
  DEF producer
<1>2. ASSUME NEW c \in Consumers, consumer(c) PROVE IndInv'
  BY <1>2, WaitStoreInd, ConsumerLeaveInd, ConsumerReturnInd, CheckInd, TakeInd, PostEmptyInd
  DEF consumer
<1>3. ASSUME MainExit \/ Terminated \/ UNCHANGED vars PROVE IndInv'
  <2>1. /\ UNCHANGED <<indices, buff, semMu, semEmpty, semStore, pc>>
        /\ outcome' \in {outcome, "exit0"}
    BY <1>3 DEF MainExit, Terminated, vars
  <2>2. TypeOK' /\ PcOK' /\ NeverWrong'
    BY <2>1 DEF IndInv, TypeOK, PcOK, NeverWrong, indices
  <2>3. MutexOK' /\ RingOK' /\ InsideOK'
    BY <2>1 DEF IndInv, MutexOK, RingOK, InsideOK, indices
  <2>4. MayFill' = MayFill /\ HaveFilled' = HaveFilled /\ MayTake' = MayTake /\ HaveTaken' = HaveTaken
    BY <2>1 DEF MayFill, HaveFilled, MayTake, HaveTaken, At
  <2>5. EmptyConserved' /\ StoreConserved'
    BY <2>1, <2>4 DEF IndInv, EmptyConserved, StoreConserved, indices
  <2> QED BY <2>2, <2>3, <2>5 DEF IndInv
<1> QED BY <1>1, <1>2, <1>3 DEF Next

-----------------------------------------------------------------------------
LEMMA Invariance == Spec => []IndInv
BY InitInd, NextInd, PTL DEF Spec

\* The indices of SemMultiprodMulticons.c stay within the run and semMu is
\* binary, for any numbers of threads, slots and items.
THEOREM TypeCorrect == Spec => []TypeOK
<1>1. IndInv => TypeOK
  BY DEF IndInv
<1> QED BY <1>1, Invariance, PTL

\* No unit of semEmpty or semStore is lost or made, on the return paths included,
\* and exactly one extra unit of semStore circulates after the end.
THEOREM UnitsAlwaysConserved == Spec => []UnitsConserved
<1>1. IndInv => UnitsConserved
  BY DEF IndInv, UnitsConserved
<1> QED BY <1>1, Invariance, PTL

\* No consumer ever finds its slot empty, overwritten or stale.
THEOREM ConsumersNeverWrong == Spec => []NeverWrong
<1>1. IndInv => NeverWrong
  BY DEF IndInv
<1> QED BY <1>1, Invariance, PTL

-----------------------------------------------------------------------------
\* main joins every thread only after the last item: a consumer that returns
\* has seen cIndex at the end.
ReturnOK == \A c \in Consumers : pc[c] \in {"returning", "done"} => cIndex >= cycleTimes

LEMMA ReturnInvariance == Spec => [](IndInv => ReturnOK)
<1>1. Init => (IndInv => ReturnOK)
  BY DEF Init, ReturnOK, Threads
<1>2. IndInv /\ (IndInv => ReturnOK) /\ [Next]_vars => (IndInv => ReturnOK)'
  <2> SUFFICES ASSUME IndInv, ReturnOK, [Next]_vars PROVE ReturnOK'
    OBVIOUS
  <2>0. /\ pc \in [Threads -> Locations] /\ cIndex \in Nat
        /\ Producers \cap Consumers = {} /\ cycleTimes \in Nat
    BY ThreadsAssumption, SizesAssumption DEF IndInv, TypeOK
  <2>1. ASSUME NEW p \in Producers, producer(p) PROVE ReturnOK'
    BY <2>0, <2>1 DEF ReturnOK, producer, WaitEmpty, ProducerLeave, ProducerReturn, Fill,
                      Advance, PostStore, Goto, indices, Threads
  <2>2. ASSUME NEW c \in Consumers, consumer(c) PROVE ReturnOK'
    <3>1. CASE Check(c)
      <4>1. buff[cIndex % NBUFF] = cValue
        BY <3>1, Entitled DEF Check, Goto, IndInv, TypeOK, RingOK
      <4> QED BY <2>0, <3>1, <4>1 DEF ReturnOK, Check, Goto, indices, Threads
    <3> QED BY <2>0, <2>2, <3>1 DEF ReturnOK, consumer, WaitStore, ConsumerLeave,
                                    ConsumerReturn, Take, PostEmpty, Goto, indices, Threads
  <2>3. ASSUME MainExit \/ Terminated \/ UNCHANGED vars PROVE ReturnOK'
    BY <2>3 DEF ReturnOK, MainExit, Terminated, vars, indices
  <2> QED BY <2>1, <2>2, <2>3 DEF Next
<1> QED BY <1>1, <1>2, Invariance, PTL DEF Spec

LEMMA StepRefines ==
  ASSUME Consumers # {}
  PROVE  IndInv /\ ReturnOK /\ [Next]_vars => [Contract!Next]_(Contract!vars)
<1> SUFFICES ASSUME IndInv, ReturnOK, [Next]_vars
             PROVE  Contract!Next \/ UNCHANGED <<pIndex, cIndex, outcome>>
  BY DEF Contract!vars
<1> USE DEF indices
<1>1. ASSUME NEW p \in Producers, producer(p)
      PROVE  Contract!Produce \/ UNCHANGED <<pIndex, cIndex, outcome>>
  <2>1. CASE Advance(p)
    <3>1. pIndex < cycleTimes /\ pIndex < cIndex + NBUFF
      BY <2>1, Entitled DEF Advance, Goto, IndInv, InsideOK
    <3>2. pIndex - cIndex < NBUFF
      BY <3>1, SizesAssumption DEF IndInv, TypeOK
    <3> QED BY <2>1, <3>1, <3>2 DEF Advance, Goto, Contract!Produce
  <2> QED BY <1>1, <2>1 DEF producer, WaitEmpty, ProducerLeave, ProducerReturn, Fill, PostStore
<1>2. ASSUME NEW c \in Consumers, consumer(c)
      PROVE  Contract!Consume \/ UNCHANGED <<pIndex, cIndex, outcome>>
  <2>1. CASE Take(c)
    BY <2>1, Entitled DEF Take, Goto, IndInv, InsideOK, Contract!Consume
  <2>2. CASE Check(c)
    <3>1. buff[cIndex % NBUFF] = cValue
      BY <2>2, Entitled DEF Check, Goto, IndInv, TypeOK, RingOK
    <3> QED BY <2>2, <3>1 DEF Check
  <2> QED BY <1>2, <2>1, <2>2
          DEF consumer, WaitStore, ConsumerLeave, ConsumerReturn, PostEmpty
<1>3. ASSUME MainExit PROVE Contract!Finish
  <2>1. cIndex >= cycleTimes
    BY <1>3 DEF MainExit, ReturnOK, Threads
  <2>2. cIndex = cycleTimes
    BY <2>1, SizesAssumption DEF IndInv, TypeOK
  <2> QED BY <1>3, <2>2 DEF MainExit, Contract!Finish
<1>4. ASSUME Terminated \/ UNCHANGED vars PROVE UNCHANGED <<pIndex, cIndex, outcome>>
  BY <1>4 DEF Terminated, vars
<1> QED BY <1>1, <1>2, <1>3, <1>4 DEF Next, Contract!Next

\* With at least one consumer, the ring hands over the items once each, in
\* order, never more than NBUFF ahead, and the process exits only after the
\* last one: the safety part of ImplementsStream.
THEOREM RefinesStream ==
  ASSUME Consumers # {}
  PROVE  Spec => Contract!Safety
<1>1. Init => Contract!Init
  BY DEF Init, Contract!Init
<1>2. IndInv /\ ReturnOK /\ [Next]_vars => [Contract!Next]_(Contract!vars)
  BY StepRefines
<1> QED BY <1>1, <1>2, Invariance, ReturnInvariance, PTL DEF Spec, Contract!Safety

-----------------------------------------------------------------------------
(* SeqFile: the inductive invariant. *)

\* Between mylock and myunlock; a killed process is not, the kernel has let go
\* of what it held.
InCS(p) == loc[p] \in {"read", "write", "unlock"}
Holds(p) == p \notin killed /\ InCS(p)

\* The names of the object and of its semaphore are bound to some generation,
\* or to none.
NamesOK == shmName \in Gens \cup {Gone} /\ semName \in Gens \cup {Gone}

\* Nobody loops beyond the number of times.
LoopOK == \A p \in Procs : loc[p] # "done" => i[p] < Times

\* Which of the programs comes to which places, and what it has opened there.
PlacesOK ==
    /\ kind # "shmobj" => /\ \A p \in Procs : mem[p] = 1 /\ loc[p] \notin {"shmopen", "semopen"}
                          /\ srv = "off"
    /\ kind # "sysv" => \A p \in Procs : loc[p] \notin {"semget", "setval", "otime"} /\ undo[p] = 0
    /\ \A p \in Procs : /\ lockOf[p] = Gone <=> loc[p] \in {"start", "shmopen", "semopen"}
                        /\ loc[p] = "start" => kind \in Forking
                        /\ loc[p] = "shmopen" => mem[p] = Gone /\ i[p] = 0
                        /\ loc[p] = "semopen" => i[p] = 0
                        /\ loc[p] \in {"write", "unlock"} => mem[p] # Gone

\* Who is inside has the record lock ...
FcntlOK == kind = "fcntl" => \A p \in Procs : Holds(p) => flock = p

\* ... or has taken the System V semaphore, which is 1 only after its creator
\* has set it and marked by otime only once it was taken ...
SysvOK == kind = "sysv" =>
    /\ sem[1].val <= 1
    /\ \A p \in Procs : /\ undo[p] = IF Holds(p) THEN 1 ELSE 0
                        /\ Holds(p) => sem[1].val = 0
                        /\ loc[p] = "setval" => sem[1].creator = p /\ sem[1].otime = 0
                        /\ sem[1].otime = 0 => \/ loc[p] \in {"semget", "setval", "otime"}
                                               \/ loc[p] = "lock" /\ sem[1].creator = p
                        /\ sem[1].creator = None => sem[1].otime = 0 /\ loc[p] = "semget"
    /\ \A p, q \in Procs : Holds(p) /\ Holds(q) => p = q

\* ... or has taken the Posix semaphore, of the generation it has opened, unless
\* that is one in memory and was written over.
Sound == kind \in PosixKinds /\ ~(kind = "memsem" /\ 1 \in cleared)
PosixOK == Sound =>
    /\ \A g \in Gens : sem[g].val <= 1
    /\ \A p \in Procs : InCS(p) => sem[lockOf[p]].val = 0
    /\ \A p, q \in Procs : InCS(p) /\ InCS(q) /\ lockOf[p] = lockOf[q] => p = q

\* Between Read and Write the copy is up to date.
CopyOK == kind # "none" =>
    \A p \in Procs : p \notin killed /\ loc[p] = "write" /\ OneLock(mem[p]) => seqNum[p] = file[mem[p]]

SeqInv == /\ SeqTypeOK /\ NamesOK /\ LoopOK /\ PlacesOK
          /\ FcntlOK /\ SysvOK /\ PosixOK /\ CopyOK /\ NoLostUpdate

-----------------------------------------------------------------------------
(* The sum of a function. What SumFunction computes is shown by the least
   counterexample: a smallest set for which a claim fails. *)

\* The equation that the sum over every subset of S satisfies.
Pick(s) == CHOOSE x \in s : TRUE
Sums(f, S, g) == g = [s \in SUBSET S |-> IF s = {} THEN 0 ELSE f[Pick(s)] + g[s \ {Pick(s)}]]

\* Any set of subsets of a finite set has a smallest one.
LEMMA SmallestSet ==
  ASSUME NEW S, IsFiniteSet(S), NEW T, T \subseteq SUBSET S, T # {}
  PROVE  \E s \in T : \A u \in T : u \subseteq s => u = s
<1>1. FiniteSubsetsOf(S) = SUBSET S
  BY FS_FiniteSubsetsOfFinite
<1> DEFINE R == StrictSubsetOrdering(S)
<1>2. IsWellFoundedOn(R, SUBSET S)
  BY <1>1, FS_StrictSubsetOrderingWellFounded
<1> HIDE DEF R
<1>3. \E s \in T : \A u \in T : ~(<<u, s>> \in R)
  BY <1>2, WFMin
<1>4. PICK s \in T : \A u \in T : ~(<<u, s>> \in R)
  BY <1>3
<1>5. ASSUME NEW u \in T, u \subseteq s, u # s PROVE FALSE
  <2>1. <<u, s>> \in R
    BY <1>5 DEF R, StrictSubsetOrdering
  <2> QED BY <2>1, <1>4
<1> QED BY <1>5

\* Any set of numbers has a least one.
LEMMA NatMin ==
  ASSUME NEW T, T \subseteq Nat, T # {}
  PROVE  \E n \in T : \A m \in T : ~(m < n)
<1> DEFINE R == OpToRel(<, Nat)
<1>1. IsWellFoundedOn(R, Nat)
  BY NatLessThanWellFounded
<1>2. \A m, n \in Nat : m < n => <<m, n>> \in R
  BY DEF OpToRel
<1> HIDE DEF R
<1>3. PICK n \in T : \A m \in T : ~(<<m, n>> \in R)
  BY <1>1, WFMin
<1> QED BY <1>2, <1>3

\* The library's sum is the solution of that equation, if there is one.
LEMMA SumIsIter ==
  ASSUME NEW f
  PROVE  SumFunction(f) = (CHOOSE g : Sums(f, DOMAIN f, g))[DOMAIN f]
BY DEF SumFunction, SumFunctionOnSet, FoldFunctionOnSet, MapThenFoldSet, Sums, Pick

\* Taking one element out of a subset.
LEMMA PickFact ==
  ASSUME NEW S, IsFiniteSet(S), NEW s \in SUBSET S, s # {}
  PROVE  /\ Pick(s) \in s /\ s \ {Pick(s)} \in SUBSET S
         /\ IsFiniteSet(s) /\ Cardinality(s) \in Nat
         /\ Cardinality(s \ {Pick(s)}) = Cardinality(s) - 1
<1>1. Pick(s) \in s
  BY DEF Pick
<1>2. IsFiniteSet(s)
  BY FS_Subset
<1>3. Cardinality(s) \in Nat
  BY <1>2, FS_CardinalityType
<1> DEFINE x == Pick(s)
<1> HIDE DEF x
<1>4. Cardinality(s \ {x}) = IF x \in s THEN Cardinality(s) - 1 ELSE Cardinality(s)
  BY <1>2, FS_RemoveElement
<1> QED BY <1>1, <1>2, <1>3, <1>4 DEF x

\* The subsets of at most n elements.
UpTo(S, n) == {s \in SUBSET S : Cardinality(s) <= n}
SumsUpTo(f, S, n, g) ==
    g = [s \in UpTo(S, n) |-> IF s = {} THEN 0 ELSE f[Pick(s)] + g[s \ {Pick(s)}]]

\* The equation has a solution for the subsets of at most n elements, by one
\* step from n to n + 1 ...
LEMMA SumsStep ==
  ASSUME NEW S, IsFiniteSet(S), NEW f, NEW n \in Nat, NEW g, SumsUpTo(f, S, n, g)
  PROVE  \E h : SumsUpTo(f, S, n + 1, h)
<1> DEFINE h == [s \in UpTo(S, n + 1) |-> IF s = {} THEN 0 ELSE f[Pick(s)] + g[s \ {Pick(s)}]]
<1>1. ASSUME NEW s \in UpTo(S, n + 1), s # {}
      PROVE  h[s \ {Pick(s)}] = g[s \ {Pick(s)}]
  <2> DEFINE u == s \ {Pick(s)}
  <2>1. s \in SUBSET S /\ Cardinality(s) <= n + 1
    BY DEF UpTo
  <2>2. /\ u \in SUBSET S
        /\ Cardinality(s) \in Nat /\ Cardinality(u) = Cardinality(s) - 1
    BY <2>1, <1>1, PickFact
  <2>3. Cardinality(u) <= n /\ Cardinality(u) <= n + 1
    BY <2>1, <2>2
  <2>4. u \in UpTo(S, n) /\ u \in UpTo(S, n + 1)
    BY <2>2, <2>3 DEF UpTo
  <2> HIDE DEF u
  <2>5. g[u] = IF u = {} THEN 0 ELSE f[Pick(u)] + g[u \ {Pick(u)}]
    BY <2>4 DEF SumsUpTo
  <2>6. h[u] = IF u = {} THEN 0 ELSE f[Pick(u)] + g[u \ {Pick(u)}]
    BY <2>4
  <2> QED BY <2>5, <2>6 DEF u
<1>2. SumsUpTo(f, S, n + 1, h)
  BY <1>1 DEF SumsUpTo
<1> QED BY <1>2

\* ... hence for every n ...
LEMMA SumsUpToExist ==
  ASSUME NEW S, IsFiniteSet(S), NEW f, NEW n \in Nat
  PROVE  \E g : SumsUpTo(f, S, n, g)
<1> DEFINE bad == {k \in Nat : ~(\E g : SumsUpTo(f, S, k, g))}
<1>1. SUFFICES ASSUME bad # {} PROVE FALSE
  OBVIOUS
<1> HIDE DEF bad
<1>2. PICK k \in bad : \A j \in bad : ~(j < k)
  <2>1. bad \subseteq Nat
    BY DEF bad
  <2> QED BY <2>1, <1>1, NatMin
<1>3. k \in Nat
  BY <1>2 DEF bad
<1>4. CASE k = 0
  <2> DEFINE g == [s \in UpTo(S, 0) |-> 0]
  <2>1. ASSUME NEW s \in UpTo(S, 0) PROVE s = {}
    <3>1. IsFiniteSet(s) /\ Cardinality(s) <= 0
      BY FS_Subset DEF UpTo
    <3>2. Cardinality(s) = 0
      BY <3>1, FS_CardinalityType
    <3> QED BY <3>1, <3>2, FS_EmptySet
  <2>2. SumsUpTo(f, S, 0, g)
    BY <2>1 DEF SumsUpTo
  <2> QED BY <2>2, <1>2, <1>4 DEF bad
<1>5. CASE k # 0
  <2>1. k - 1 \in Nat /\ k - 1 < k /\ (k - 1) + 1 = k
    BY <1>3, <1>5
  <2>2. k - 1 \notin bad
    BY <2>1, <1>2
  <2>3. \E g : SumsUpTo(f, S, k - 1, g)
    BY <2>1, <2>2 DEF bad
  <2>4. \E h : SumsUpTo(f, S, (k - 1) + 1, h)
    BY <2>1, <2>3, SumsStep
  <2>5. \E h : SumsUpTo(f, S, k, h)
    BY <2>1, <2>4
  <2> QED BY <2>5, <1>2 DEF bad
<1> QED BY <1>4, <1>5

\* ... hence for all subsets.
LEMMA SumsExist ==
  ASSUME NEW S, IsFiniteSet(S), NEW f
  PROVE  \E g : Sums(f, S, g)
<1> DEFINE n == Cardinality(S)
<1>1. n \in Nat
  BY FS_CardinalityType
<1>2. UpTo(S, n) = SUBSET S
  BY FS_Subset DEF UpTo
<1> HIDE DEF n
<1>3. PICK g : SumsUpTo(f, S, n, g)
  BY <1>1, SumsUpToExist
<1>4. Sums(f, S, g)
  BY <1>2, <1>3 DEF Sums, SumsUpTo
<1> QED BY <1>4

\* What a solution of the equation says about one subset.
LEMMA SumsEmpty ==
  ASSUME NEW S, NEW f, NEW g, Sums(f, S, g)
  PROVE  g[{}] = 0
<1>1. {} \in SUBSET S
  OBVIOUS
<1> QED BY <1>1 DEF Sums

LEMMA SumsAt ==
  ASSUME NEW S, NEW f, NEW g, Sums(f, S, g), NEW s \in SUBSET S, s # {}
  PROVE  g[s] = f[Pick(s)] + g[s \ {Pick(s)}]
BY DEF Sums

\* Sums of numbers are numbers.
LEMMA SumsType ==
  ASSUME NEW S, IsFiniteSet(S), NEW f \in [S -> Nat], NEW g, Sums(f, S, g)
  PROVE  \A s \in SUBSET S : g[s] \in Nat
<1> DEFINE bad == {s \in SUBSET S : g[s] \notin Nat}
<1>1. SUFFICES ASSUME bad # {} PROVE FALSE
  OBVIOUS
<1> HIDE DEF bad
<1>2. PICK s \in bad : \A u \in bad : u \subseteq s => u = s
  <2>1. bad \subseteq SUBSET S
    BY DEF bad
  <2> QED BY <2>1, <1>1, SmallestSet
<1>3. s \in SUBSET S /\ g[s] \notin Nat
  BY <1>2 DEF bad
<1>4. s # {}
  <2>1. g[{}] = 0
    BY SumsEmpty
  <2> QED BY <2>1, <1>3
<1>5. Pick(s) \in s /\ s \ {Pick(s)} \in SUBSET S
  BY <1>3, <1>4, PickFact
<1>6. g[s \ {Pick(s)}] \in Nat
  BY <1>5, <1>2 DEF bad
<1>7. g[s] = f[Pick(s)] + g[s \ {Pick(s)}]
  BY <1>3, <1>4, SumsAt
<1>8. f[Pick(s)] \in Nat
  BY <1>3, <1>5
<1> QED BY <1>3, <1>6, <1>7, <1>8

\* Any element can be taken out first.
LEMMA SumsAnyFirst ==
  ASSUME NEW S, IsFiniteSet(S), NEW f \in [S -> Nat], NEW g, Sums(f, S, g)
  PROVE  \A s \in SUBSET S : \A x \in s : g[s] = f[x] + g[s \ {x}]
<1> DEFINE bad == {s \in SUBSET S : \E x \in s : g[s] # f[x] + g[s \ {x}]}
<1>1. SUFFICES ASSUME bad # {} PROVE FALSE
  OBVIOUS
<1> HIDE DEF bad
<1>2. PICK s \in bad : \A u \in bad : u \subseteq s => u = s
  <2>1. bad \subseteq SUBSET S
    BY DEF bad
  <2> QED BY <2>1, <1>1, SmallestSet
<1>3. s \in SUBSET S
  BY <1>2 DEF bad
<1>4. PICK x \in s : g[s] # f[x] + g[s \ {x}]
  BY <1>2 DEF bad
<1> DEFINE c == Pick(s)
<1>5. c \in s /\ g[s] = f[c] + g[s \ {c}]
  <2>1. s # {}
    OBVIOUS
  <2>2. c \in s
    BY <2>1, <1>3, PickFact
  <2>3. g[s] = f[Pick(s)] + g[s \ {Pick(s)}]
    BY <2>1, <1>3, SumsAt
  <2> QED BY <2>2, <2>3
<1> HIDE DEF c
<1>6. c # x
  BY <1>4, <1>5
<1>7. g[s \ {c}] = f[x] + g[(s \ {c}) \ {x}]
  <2>1. s \ {c} \in SUBSET S /\ s \ {c} \subseteq s /\ s \ {c} # s /\ x \in s \ {c}
    BY <1>3, <1>5, <1>6
  <2>2. s \ {c} \notin bad
    BY <2>1, <1>2
  <2> QED BY <2>1, <2>2 DEF bad
<1>8. g[s \ {x}] = f[c] + g[(s \ {x}) \ {c}]
  <2>1. s \ {x} \in SUBSET S /\ s \ {x} \subseteq s /\ s \ {x} # s /\ c \in s \ {x}
    BY <1>3, <1>5, <1>6
  <2>2. s \ {x} \notin bad
    BY <2>1, <1>2
  <2> QED BY <2>1, <2>2 DEF bad
<1> DEFINE r == (s \ {c}) \ {x}
<1>9. (s \ {x}) \ {c} = r /\ r \in SUBSET S
  BY <1>3
<1> HIDE DEF r
<1>10. g[r] \in Nat
  BY <1>9, SumsType
<1>11. f[c] \in Nat /\ f[x] \in Nat
  BY <1>3, <1>5
<1>12. g[s \ {c}] = f[x] + g[r] /\ g[s \ {x}] = f[c] + g[r]
  BY <1>7, <1>8, <1>9 DEF r
<1>13. g[s] = f[x] + g[s \ {x}]
  BY <1>5, <1>10, <1>11, <1>12
<1> QED BY <1>4, <1>13

\* Functions that agree on a set have the same sums of it, whatever they are
\* outside.
LEMMA SumsAgree ==
  ASSUME NEW S, NEW U, IsFiniteSet(S), IsFiniteSet(U), NEW f, NEW e, NEW g, NEW h,
         Sums(f, S, g), Sums(e, U, h), U \subseteq S, \A x \in U : f[x] = e[x]
  PROVE  \A s \in SUBSET U : g[s] = h[s]
<1> DEFINE bad == {s \in SUBSET U : g[s] # h[s]}
<1>1. SUFFICES ASSUME bad # {} PROVE FALSE
  OBVIOUS
<1> HIDE DEF bad
<1>2. PICK s \in bad : \A u \in bad : u \subseteq s => u = s
  <2>1. bad \subseteq SUBSET U
    BY DEF bad
  <2> QED BY <2>1, <1>1, SmallestSet
<1>3. s \in SUBSET U /\ s \in SUBSET S /\ g[s] # h[s]
  BY <1>2 DEF bad
<1>4. s # {}
  <2>1. g[{}] = 0
    BY SumsEmpty
  <2>2. h[{}] = 0
    BY SumsEmpty
  <2> QED BY <2>1, <2>2, <1>3
<1>5. Pick(s) \in s /\ s \ {Pick(s)} \in SUBSET U
  BY <1>3, <1>4, PickFact
<1>6. g[s \ {Pick(s)}] = h[s \ {Pick(s)}]
  BY <1>5, <1>2 DEF bad
<1>7. g[s] = f[Pick(s)] + g[s \ {Pick(s)}] /\ h[s] = e[Pick(s)] + h[s \ {Pick(s)}]
  <2>1. g[s] = f[Pick(s)] + g[s \ {Pick(s)}]
    <3>1. s \in SUBSET S /\ s # {} /\ Sums(f, S, g)
      BY <1>3, <1>4
    <3> QED BY ONLY <3>1, SumsAt
  <2>2. h[s] = e[Pick(s)] + h[s \ {Pick(s)}]
    <3>1. s \in SUBSET U /\ s # {} /\ Sums(e, U, h)
      BY <1>3, <1>4
    <3> QED BY ONLY <3>1, SumsAt
  <2> QED BY <2>1, <2>2
<1>8. f[Pick(s)] = e[Pick(s)]
  BY <1>3, <1>5
<1> QED BY <1>3, <1>6, <1>7, <1>8

\* The library's sum satisfies the equation.
LEMMA SumBySums ==
  ASSUME NEW S, IsFiniteSet(S), NEW f, DOMAIN f = S
  PROVE  \E g : Sums(f, S, g) /\ SumFunction(f) = g[S]
<1> DEFINE g == CHOOSE h : Sums(f, S, h)
<1>1. Sums(f, S, g)
  BY SumsExist
<1>2. SumFunction(f) = g[S]
  BY SumIsIter
<1> QED BY <1>1, <1>2

\* What the proofs below use: the sum is a number; an element can be taken
\* out of it; a sum of zeros is zero.
LEMMA SumNat ==
  ASSUME NEW S, IsFiniteSet(S), NEW f \in [S -> Nat]
  PROVE  SumFunction(f) \in Nat
<1>1. PICK g : Sums(f, S, g) /\ SumFunction(f) = g[S]
  BY SumBySums
<1>2. S \in SUBSET S
  OBVIOUS
<1> QED BY <1>1, <1>2, SumsType

LEMMA SumTake ==
  ASSUME NEW S, IsFiniteSet(S), NEW f \in [S -> Nat], NEW x \in S
  PROVE  SumFunction(f) = f[x] + SumFunction([y \in S \ {x} |-> f[y]])
<1> DEFINE U == S \ {x}
           e == [y \in U |-> f[y]]
<1>1. IsFiniteSet(U) /\ U \subseteq S /\ DOMAIN e = U
  BY FS_Subset
<1>2. PICK g : Sums(f, S, g) /\ SumFunction(f) = g[S]
  BY SumBySums
<1>3. PICK h : Sums(e, U, h) /\ SumFunction(e) = h[U]
  BY <1>1, SumBySums
<1>4. g[S] = f[x] + g[U]
  BY <1>2, SumsAnyFirst
<1>5. \A y \in U : f[y] = e[y]
  OBVIOUS
<1> HIDE DEF U, e
<1>6. \A s \in SUBSET U : g[s] = h[s]
  BY <1>1, <1>2, <1>3, <1>5, SumsAgree
<1>7. g[U] = h[U]
  BY <1>6
<1> QED BY <1>2, <1>3, <1>4, <1>7 DEF U, e

LEMMA SumZero ==
  ASSUME NEW S, IsFiniteSet(S), NEW f \in [S -> Nat], \A x \in S : f[x] = 0
  PROVE  SumFunction(f) = 0
<1>1. PICK g : Sums(f, S, g) /\ SumFunction(f) = g[S]
  BY SumBySums
<1> DEFINE bad == {s \in SUBSET S : g[s] # 0}
<1>2. SUFFICES ASSUME bad # {} PROVE FALSE
  BY <1>1
<1> HIDE DEF bad
<1>3. PICK s \in bad : \A u \in bad : u \subseteq s => u = s
  <2>1. bad \subseteq SUBSET S
    BY DEF bad
  <2> QED BY <2>1, <1>2, SmallestSet
<1>4. s \in SUBSET S /\ g[s] # 0
  BY <1>3 DEF bad
<1>5. s # {}
  BY <1>1, <1>4, SumsEmpty
<1>6. Pick(s) \in s /\ s \ {Pick(s)} \in SUBSET S
  BY <1>4, <1>5, PickFact
<1>7. g[s \ {Pick(s)}] = 0
  BY <1>6, <1>3 DEF bad
<1>8. g[s] = f[Pick(s)] + g[s \ {Pick(s)}] /\ f[Pick(s)] = 0
  BY <1>1, <1>4, <1>5, <1>6, SumsAt
<1> QED BY <1>4, <1>7, <1>8

\* One summand grows by one.
LEMMA SumIncrement ==
  ASSUME NEW S, IsFiniteSet(S), NEW f \in [S -> Nat], NEW e \in [S -> Nat], NEW x \in S,
         e[x] = f[x] + 1, \A y \in S \ {x} : e[y] = f[y]
  PROVE  SumFunction(e) = SumFunction(f) + 1
<1> DEFINE r == [y \in S \ {x} |-> f[y]]
<1>1. [y \in S \ {x} |-> e[y]] = r
  OBVIOUS
<1>2. SumFunction(f) = f[x] + SumFunction(r)
  BY SumTake
<1>3. SumFunction(e) = e[x] + SumFunction(r)
  BY <1>1, SumTake
<1>4. SumFunction(r) \in Nat
  <2>1. IsFiniteSet(S \ {x}) /\ r \in [S \ {x} -> Nat]
    BY FS_Subset
  <2> QED BY <2>1, SumNat
<1>5. f[x] \in Nat
  OBVIOUS
<1> HIDE DEF r
<1> QED BY <1>2, <1>3, <1>4, <1>5

\* A summand of zero makes no difference.
LEMMA SumAddZero ==
  ASSUME NEW S, IsFiniteSet(S), NEW f \in [S -> Nat], NEW x \in S, f[x] = 0
  PROVE  SumFunction(f) = SumFunction([y \in S \ {x} |-> f[y]])
<1> DEFINE r == [y \in S \ {x} |-> f[y]]
<1>1. SumFunction(f) = f[x] + SumFunction(r)
  BY SumTake
<1>2. SumFunction(r) \in Nat
  <2>1. IsFiniteSet(S \ {x}) /\ r \in [S \ {x} -> Nat]
    BY FS_Subset
  <2> QED BY <2>1, SumNat
<1> HIDE DEF r
<1>3. SumFunction(f) = SumFunction(r)
  BY <1>1, <1>2
<1> QED BY <1>3 DEF r

-----------------------------------------------------------------------------
(* What every step keeps of the types, the places and the locks *)

\* The first generation is one, and so is every one a rerun makes.
LEMMA OneInGens == 1 \in Gens /\ Gone \notin Gens /\ \A r \in 0 .. MaxReruns : 1 + r \in Gens
BY BoundsAssumption DEF Gens, Gone

SemTable == [Gens -> [creator : Procs \cup {None}, val : Nat, otime : {0, 1}]]

\* A semaphore of the table gets another value.
LEMMA SemSetVal ==
  ASSUME NEW s \in SemTable, NEW g \in Gens, NEW v \in Nat
  PROVE  [s EXCEPT ![g].val = v] \in SemTable
BY DEF SemTable

\* Every process loops at least once.
LEMMA TimesNat == SeqTypeOK => Times \in Nat \ {0}
BY BoundsAssumption DEF SeqTypeOK, Times

\* semget with IPC_CREAT and IPC_EXCL: this process is the creator.
LEMMA SemCreateKeeps ==
  ASSUME SeqInv, NEW p \in Procs, SemCreate(p)
  PROVE  SeqTypeOK' /\ NamesOK' /\ LoopOK' /\ PlacesOK' /\ FcntlOK' /\ SysvOK' /\ PosixOK'
<1> USE OneInGens DEF SeqInv
<1>1. SeqTypeOK'
  BY DEF SemCreate, ProcGoto, data, names, SeqTypeOK, Times
<1>2. NamesOK'
  BY DEF SemCreate, ProcGoto, data, names, NamesOK
<1>3. LoopOK'
  BY DEF SemCreate, ProcGoto, LoopOK, Times
<1>4. PlacesOK'
  BY DEF SemCreate, ProcGoto, data, names, PlacesOK
<1>5. FcntlOK'
  BY DEF SemCreate, ProcGoto, FcntlOK, Holds, InCS
<1>6. SysvOK'
  BY ProcsAssumption DEF SemCreate, ProcGoto, SysvOK, Holds, InCS, SeqTypeOK
<1>7. PosixOK'
  BY DEF SemCreate, ProcGoto, PosixOK, PlacesOK, Sound, names, PosixKinds, Forking
<1> QED BY <1>1, <1>2, <1>3, <1>4, <1>5, <1>6, <1>7

\* semctl SETVAL comes before anybody has seen otime set.
LEMMA SetValKeeps ==
  ASSUME SeqInv, NEW p \in Procs, SetVal(p)
  PROVE  SeqTypeOK' /\ NamesOK' /\ LoopOK' /\ PlacesOK' /\ FcntlOK' /\ SysvOK' /\ PosixOK'
<1> USE OneInGens DEF SeqInv
<1>1. SeqTypeOK'
  <2>1. sem' \in [Gens -> [creator : Procs \cup {None}, val : Nat, otime : {0, 1}]]
    <3>1. sem \in SemTable
      BY DEF SeqTypeOK, SemTable
    <3>2. sem' = [sem EXCEPT ![1].val = 1]
      BY DEF SetVal
    <3>3. sem' \in SemTable
      BY <3>1, <3>2, SemSetVal
    <3> QED BY <3>3 DEF SemTable
  <2> QED BY DEF SetVal, ProcGoto, data, names, SeqTypeOK, Times
<1>2. NamesOK'
  BY DEF SetVal, ProcGoto, data, names, NamesOK
<1>3. LoopOK'
  BY DEF SetVal, ProcGoto, LoopOK, Times
<1>4. PlacesOK'
  BY DEF SetVal, ProcGoto, data, names, PlacesOK
<1>5. FcntlOK'
  BY DEF SetVal, ProcGoto, FcntlOK, Holds, InCS
<1>6. SysvOK'
  BY DEF SetVal, ProcGoto, SysvOK, Holds, InCS
<1>7. PosixOK'
  BY DEF SetVal, ProcGoto, PosixOK, PlacesOK, Sound, names, PosixKinds, Forking
<1> QED BY <1>1, <1>2, <1>3, <1>4, <1>5, <1>6, <1>7

\* semget by a process that is not the creator.
LEMMA SemAttachKeeps ==
  ASSUME SeqInv, NEW p \in Procs, SemAttach(p)
  PROVE  SeqTypeOK' /\ NamesOK' /\ LoopOK' /\ PlacesOK' /\ FcntlOK' /\ SysvOK' /\ PosixOK'
<1> USE OneInGens DEF SeqInv
<1>1. SeqTypeOK'
  BY DEF SemAttach, ProcGoto, data, names, SeqTypeOK, Times
<1>2. NamesOK'
  BY DEF SemAttach, ProcGoto, data, names, NamesOK
<1>3. LoopOK'
  BY DEF SemAttach, ProcGoto, LoopOK, Times
<1>4. PlacesOK'
  BY DEF SemAttach, ProcGoto, data, names, PlacesOK
<1>5. FcntlOK'
  BY DEF SemAttach, ProcGoto, FcntlOK, Holds, InCS
<1>6. SysvOK'
  BY DEF SemAttach, ProcGoto, SysvOK, Holds, InCS
<1>7. PosixOK'
  BY DEF SemAttach, ProcGoto, data, PosixOK, InCS, Sound, names
<1> QED BY <1>1, <1>2, <1>3, <1>4, <1>5, <1>6, <1>7

\* It waits until the creator's first semop.
LEMMA SeeOtimeKeeps ==
  ASSUME SeqInv, NEW p \in Procs, SeeOtime(p)
  PROVE  SeqTypeOK' /\ NamesOK' /\ LoopOK' /\ PlacesOK' /\ FcntlOK' /\ SysvOK' /\ PosixOK'
<1> USE OneInGens DEF SeqInv
<1>1. SeqTypeOK'
  BY DEF SeeOtime, ProcGoto, data, names, SeqTypeOK, Times
<1>2. NamesOK'
  BY DEF SeeOtime, ProcGoto, data, names, NamesOK
<1>3. LoopOK'
  BY DEF SeeOtime, ProcGoto, LoopOK, Times
<1>4. PlacesOK'
  BY DEF SeeOtime, ProcGoto, data, names, PlacesOK
<1>5. FcntlOK'
  BY DEF SeeOtime, ProcGoto, FcntlOK, Holds, InCS
<1>6. SysvOK'
  BY DEF SeeOtime, ProcGoto, SysvOK, Holds, InCS
<1>7. PosixOK'
  BY DEF SeeOtime, ProcGoto, data, PosixOK, InCS, Sound, names
<1> QED BY <1>1, <1>2, <1>3, <1>4, <1>5, <1>6, <1>7

\* mylock lets one process in, whichever lock it is.
LEMMA MylockKeeps ==
  ASSUME SeqInv, NEW p \in Procs, mylock(p)
  PROVE  SeqTypeOK' /\ NamesOK' /\ LoopOK' /\ PlacesOK' /\ FcntlOK' /\ SysvOK' /\ PosixOK'
<1> USE OneInGens DEF SeqInv
<1>1. SeqTypeOK'
  <2>1. lockOf[p] \in Gens
    BY DEF mylock, ProcGoto, SeqTypeOK, PlacesOK
  <2>2. sem' \in [Gens -> [creator : Procs \cup {None}, val : Nat, otime : {0, 1}]]
    <3>1. CASE sem' = sem
      BY <3>1 DEF SeqTypeOK
    <3>2. CASE LockSysv(p)
      <4>1. sem[1].val - 1 \in Nat
        BY <3>2 DEF SeqTypeOK, LockSysv
      <4> DEFINE T == [Gens -> [creator : Procs \cup {None}, val : Nat, otime : {0, 1}]]
                 s == [sem EXCEPT ![1].val = @ - 1]
      <4>2. s \in T
        BY <4>1 DEF SeqTypeOK
      <4>3. sem' = [s EXCEPT ![1].otime = 1]
        BY <3>2 DEF LockSysv
      <4> HIDE DEF s
      <4> QED BY <4>2, <4>3
    <3>3. CASE LockPosix(p)
      BY <3>3, <2>1 DEF SeqTypeOK, LockPosix
    <3> QED BY <3>1, <3>2, <3>3 DEF mylock, NoLock, LockFcntl
  <2>3. undo' \in [Procs -> {0, 1}]
    <3>1. CASE undo' = undo
      BY <3>1 DEF SeqTypeOK
    <3>2. CASE kind = "sysv" /\ LockSysv(p)
      <4>1. undo[p] = 0
        BY <3>2 DEF SysvOK, Holds, InCS, mylock, ProcGoto
      <4> QED BY <4>1, <3>2 DEF SeqTypeOK, LockSysv
    <3> QED BY <3>1, <3>2 DEF mylock, NoLock, LockFcntl, LockPosix
  <2> QED BY <2>2, <2>3 DEF SeqTypeOK, mylock, ProcGoto, NoLock, LockFcntl, LockSysv, LockPosix, data, names,
      Times
<1>2. NamesOK'
  BY DEF mylock, ProcGoto, data, names, NamesOK
<1>3. LoopOK'
  BY DEF mylock, ProcGoto, LoopOK, Times
<1>4. PlacesOK'
  BY DEF mylock, ProcGoto, data, names, NoLock, LockFcntl, LockPosix, PlacesOK
<1>5. FcntlOK'
  BY ProcsAssumption DEF mylock, ProcGoto, LockFcntl, FcntlOK, Holds, InCS, PosixKinds, Forking
<1>6. SysvOK'
  BY DEF mylock, ProcGoto, LockSysv, SysvOK, Holds, InCS, SeqTypeOK, PosixKinds, Forking
<1>7. PosixOK'
  <2>1. SUFFICES ASSUME Sound PROVE PosixOK'
    BY DEF Sound, PosixOK, mylock, ProcGoto, names
  <2>2. lockOf[p] \in Gens
    BY DEF mylock, ProcGoto, SeqTypeOK, PlacesOK
  <2>3. LockPosix(p)
    BY <2>1 DEF Sound, PosixKinds, Forking, mylock
  <2>4. \A g \in Gens : sem'[g].val = IF g = lockOf[p] THEN sem[g].val - 1 ELSE sem[g].val
    BY <2>3 DEF LockPosix, SeqTypeOK
  <2>5. sem[lockOf[p]].val = 1 /\ sem'[lockOf[p]].val = 0
    BY <2>1, <2>2, <2>3 DEF LockPosix, SeqTypeOK, PosixOK
  <2>6. \A q \in Procs : InCS(q) => lockOf[q] # lockOf[p]
    BY <2>1, <2>5 DEF PosixOK
  <2>7. lockOf' = lockOf /\ \A q \in Procs : InCS(q)' <=> InCS(q) \/ q = p
    BY DEF mylock, ProcGoto, data, InCS, SeqTypeOK
  <2>8. \A g \in Gens : sem'[g].val <= 1
    BY <2>1, <2>4 DEF PosixOK, SeqTypeOK
  <2>9. \A q \in Procs : InCS(q) => lockOf[q] \in Gens
    BY DEF InCS, SeqTypeOK, PlacesOK
  <2>10. ASSUME NEW q \in Procs, InCS(q)' PROVE sem'[lockOf[q]].val = 0
    <3>1. CASE q = p
      BY <3>1, <2>5
    <3>2. CASE q # p
      <4>1. InCS(q)
        BY <3>2, <2>7, <2>10
      <4>2. sem[lockOf[q]].val = 0
        BY <4>1, <2>1 DEF PosixOK
      <4> QED BY <4>1, <4>2, <2>4, <2>6, <2>9
    <3> QED BY <3>1, <3>2
  <2>11. \A q, r \in Procs : InCS(q)' /\ InCS(r)' /\ lockOf[q] = lockOf[r] => q = r
    BY <2>1, <2>6, <2>7 DEF PosixOK
  <2> QED BY <2>7, <2>8, <2>10, <2>11 DEF PosixOK
<1> QED BY <1>1, <1>2, <1>3, <1>4, <1>5, <1>6, <1>7

\* myunlock gives back what mylock took.
LEMMA MyunlockKeeps ==
  ASSUME SeqInv, NEW p \in Procs, myunlock(p)
  PROVE  SeqTypeOK' /\ NamesOK' /\ LoopOK' /\ PlacesOK' /\ FcntlOK' /\ SysvOK' /\ PosixOK'
<1> USE OneInGens DEF SeqInv
<1>1. SeqTypeOK'
  <2>1. lockOf[p] \in Gens
    BY DEF myunlock, Unlock, ProcGoto, SeqTypeOK, PlacesOK
  <2>2. sem' \in [Gens -> [creator : Procs \cup {None}, val : Nat, otime : {0, 1}]]
    <3>1. CASE sem' = sem
      BY <3>1 DEF SeqTypeOK
    <3>2. CASE UnlockSysv(p)
      <4>1. sem[1].val + 1 \in Nat
        BY DEF SeqTypeOK
      <4> DEFINE T == [Gens -> [creator : Procs \cup {None}, val : Nat, otime : {0, 1}]]
                 s == [sem EXCEPT ![1].val = @ + 1]
      <4>2. s \in T
        BY DEF SeqTypeOK
      <4>3. sem' = [s EXCEPT ![1].otime = 1]
        BY <3>2 DEF UnlockSysv
      <4> HIDE DEF s
      <4> QED BY <4>2, <4>3
    <3>3. CASE UnlockPosix(p)
      BY <3>3, <2>1 DEF SeqTypeOK, UnlockPosix
    <3> QED BY <3>1, <3>2, <3>3 DEF myunlock, Unlock, NoLock, UnlockFcntl
  <2>3. undo' \in [Procs -> {0, 1}]
    <3>1. CASE undo' = undo
      BY <3>1 DEF SeqTypeOK
    <3>2. CASE kind = "sysv" /\ UnlockSysv(p)
      <4>1. undo[p] = 1
        BY <3>2 DEF SysvOK, Holds, InCS, myunlock, Unlock, ProcGoto
      <4> QED BY <4>1, <3>2 DEF SeqTypeOK, UnlockSysv
    <3> QED BY <3>1, <3>2 DEF myunlock, Unlock, NoLock, UnlockFcntl, UnlockPosix
  <2>4. i' \in [Procs -> 0 .. Times']
    <3>1. Times' = Times /\ Times \in Nat
      BY TimesNat DEF Times, myunlock, Unlock, ProcGoto
    <3>2. i[p] + 1 \in 0 .. Times
      BY <3>1 DEF myunlock, Unlock, ProcGoto, LoopOK, SeqTypeOK
    <3> QED BY <3>1, <3>2 DEF myunlock, Unlock, SeqTypeOK
  <2>5. flock' \in Procs \cup {None}
    BY DEF myunlock, Unlock, SeqTypeOK, NoLock, UnlockFcntl, UnlockPosix, UnlockSysv
  <2> QED BY <2>2, <2>3, <2>4, <2>5 DEF SeqTypeOK, myunlock, Unlock, ProcGoto, data, names
<1>2. NamesOK'
  BY DEF myunlock, Unlock, ProcGoto, data, names, NamesOK
<1>3. LoopOK'
  BY TimesNat DEF myunlock, Unlock, ProcGoto, LoopOK, SeqTypeOK, Times
<1>4. PlacesOK'
  BY DEF myunlock, Unlock, ProcGoto, data, names, NoLock, UnlockFcntl, UnlockPosix, PlacesOK
<1>5. FcntlOK'
  BY DEF myunlock, Unlock, ProcGoto, FcntlOK, Holds, InCS, SeqTypeOK
<1>6. SysvOK'
  BY DEF myunlock, Unlock, ProcGoto, UnlockSysv, SysvOK, Holds, InCS, SeqTypeOK, PosixKinds, Forking
<1>7. PosixOK'
  <2>1. SUFFICES ASSUME Sound PROVE PosixOK'
    BY DEF Sound, PosixOK, myunlock, Unlock, ProcGoto, names
  <2>2. lockOf[p] \in Gens /\ InCS(p)
    BY DEF myunlock, Unlock, ProcGoto, SeqTypeOK, PlacesOK, InCS
  <2>3. UnlockPosix(p)
    BY <2>1 DEF Sound, PosixKinds, Forking, myunlock, Unlock
  <2>4. \A g \in Gens : sem'[g].val = IF g = lockOf[p] THEN sem[g].val + 1 ELSE sem[g].val
    BY <2>3 DEF UnlockPosix, SeqTypeOK
  <2>5. sem'[lockOf[p]].val = 1
    BY <2>1, <2>2, <2>4 DEF PosixOK
  <2>6. lockOf' = lockOf /\ \A q \in Procs : InCS(q)' <=> InCS(q) /\ q # p
    BY DEF myunlock, Unlock, ProcGoto, data, InCS, SeqTypeOK
  <2>7. \A q \in Procs : InCS(q)' => lockOf[q] # lockOf[p]
    BY <2>1, <2>2, <2>6 DEF PosixOK
  <2>8. \A g \in Gens : sem'[g].val <= 1
    BY <2>1, <2>4, <2>5 DEF PosixOK
  <2>9. \A q \in Procs : InCS(q) => lockOf[q] \in Gens
    BY DEF InCS, SeqTypeOK, PlacesOK
  <2>10. ASSUME NEW q \in Procs, InCS(q)' PROVE sem'[lockOf[q]].val = 0
    <3>1. InCS(q) /\ lockOf[q] # lockOf[p] /\ lockOf[q] \in Gens
      BY <2>6, <2>7, <2>9, <2>10
    <3>2. sem[lockOf[q]].val = 0
      BY <3>1, <2>1 DEF PosixOK
    <3> QED BY <3>1, <3>2, <2>4
  <2>11. \A q, r \in Procs : InCS(q)' /\ InCS(r)' /\ lockOf[q] = lockOf[r] => q = r
    BY <2>1, <2>6 DEF PosixOK
  <2> QED BY <2>6, <2>8, <2>10, <2>11 DEF PosixOK
<1> QED BY <1>1, <1>2, <1>3, <1>4, <1>5, <1>6, <1>7

\* The steps inside leave the locks alone.
LEMMA ReadKeeps ==
  ASSUME SeqInv, NEW p \in Procs, Read(p)
  PROVE  SeqTypeOK' /\ NamesOK' /\ LoopOK' /\ PlacesOK' /\ FcntlOK' /\ SysvOK' /\ PosixOK'
<1> USE OneInGens DEF SeqInv
<1>1. SeqTypeOK'
  BY DEF Read, ProcGoto, names, SeqTypeOK, Unmapped, Times
<1>2. NamesOK'
  BY DEF Read, ProcGoto, names, NamesOK
<1>3. LoopOK'
  BY DEF Read, ProcGoto, LoopOK, Times
<1>4. PlacesOK'
  BY DEF Read, ProcGoto, names, PlacesOK, Unmapped
<1>5. FcntlOK'
  BY DEF Read, ProcGoto, FcntlOK, Holds, InCS
<1>6. SysvOK'
  BY DEF Read, ProcGoto, SysvOK, Holds, InCS
<1>7. PosixOK'
  BY DEF Read, ProcGoto, PosixOK, InCS, Sound, names
<1> QED BY <1>1, <1>2, <1>3, <1>4, <1>5, <1>6, <1>7

LEMMA WriteKeeps ==
  ASSUME SeqInv, NEW p \in Procs, Write(p)
  PROVE  SeqTypeOK' /\ NamesOK' /\ LoopOK' /\ PlacesOK' /\ FcntlOK' /\ SysvOK' /\ PosixOK'
<1> USE OneInGens DEF SeqInv
<1>1. SeqTypeOK'
  BY DEF Write, ProcGoto, names, SeqTypeOK, PlacesOK, Times
<1>2. NamesOK'
  BY DEF Write, ProcGoto, names, NamesOK
<1>3. LoopOK'
  BY DEF Write, ProcGoto, LoopOK, Times
<1>4. PlacesOK'
  BY DEF Write, ProcGoto, names, PlacesOK
<1>5. FcntlOK'
  BY DEF Write, ProcGoto, FcntlOK, Holds, InCS
<1>6. SysvOK'
  BY DEF Write, ProcGoto, SysvOK, Holds, InCS
<1>7. PosixOK'
  BY DEF Write, ProcGoto, PosixOK, InCS, Sound, names
<1> QED BY <1>1, <1>2, <1>3, <1>4, <1>5, <1>6, <1>7

\* The two opens of a client of the object server.
LEMMA ShmOpenKeeps ==
  ASSUME SeqInv, NEW p \in Procs, ShmOpen(p)
  PROVE  SeqTypeOK' /\ NamesOK' /\ LoopOK' /\ PlacesOK' /\ FcntlOK' /\ SysvOK' /\ PosixOK'
<1> USE OneInGens DEF SeqInv
<1>1. SeqTypeOK'
  BY DEF ShmOpen, ProcGoto, names, SeqTypeOK, NamesOK, Times
<1>2. NamesOK'
  BY DEF ShmOpen, ProcGoto, names, NamesOK
<1>3. LoopOK'
  BY DEF ShmOpen, ProcGoto, LoopOK, Times
<1>4. PlacesOK'
  BY DEF ShmOpen, ProcGoto, PlacesOK, SeqTypeOK
<1>5. FcntlOK'
  BY DEF ShmOpen, ProcGoto, FcntlOK, Holds, InCS
<1>6. SysvOK'
  BY DEF ShmOpen, ProcGoto, SysvOK, Holds, InCS
<1>7. PosixOK'
  BY DEF ShmOpen, ProcGoto, PosixOK, InCS, Sound, names
<1> QED BY <1>1, <1>2, <1>3, <1>4, <1>5, <1>6, <1>7

LEMMA SemOpenKeeps ==
  ASSUME SeqInv, NEW p \in Procs, SemOpen(p)
  PROVE  SeqTypeOK' /\ NamesOK' /\ LoopOK' /\ PlacesOK' /\ FcntlOK' /\ SysvOK' /\ PosixOK'
<1> USE OneInGens DEF SeqInv
<1>1. SeqTypeOK'
  BY DEF SemOpen, ProcGoto, names, SeqTypeOK, NamesOK, Times
<1>2. NamesOK'
  BY DEF SemOpen, ProcGoto, names, NamesOK, SeqTypeOK
<1>3. LoopOK'
  BY DEF SemOpen, ProcGoto, LoopOK, Times
<1>4. PlacesOK'
  BY DEF SemOpen, ProcGoto, PlacesOK, SeqTypeOK
<1>5. FcntlOK'
  BY DEF SemOpen, ProcGoto, FcntlOK, Holds, InCS
<1>6. SysvOK'
  BY DEF SemOpen, ProcGoto, SysvOK, Holds, InCS
<1>7. PosixOK'
  BY DEF SemOpen, ProcGoto, PosixOK, InCS, Sound, names
<1> QED BY <1>1, <1>2, <1>3, <1>4, <1>5, <1>6, <1>7

\* A process that ends or is killed leaves a lock that the kernel releases
\* free, and a named semaphore taken for good.
LEMMA CrashKeeps ==
  ASSUME SeqInv, NEW p \in Procs, Crash(p)
  PROVE  SeqTypeOK' /\ NamesOK' /\ LoopOK' /\ PlacesOK' /\ FcntlOK' /\ SysvOK' /\ PosixOK'
<1> USE OneInGens DEF SeqInv
<1>1. SeqTypeOK'
  BY DEF Crash, data, names, SeqTypeOK, Times
<1>2. NamesOK'
  BY DEF Crash, data, names, NamesOK
<1>3. LoopOK'
  BY DEF Crash, LoopOK, Times
<1>4. PlacesOK'
  BY DEF Crash, data, names, PlacesOK
<1>5. FcntlOK'
  BY DEF Crash, FcntlOK, Holds, InCS
<1>6. SysvOK'
  BY DEF Crash, SysvOK, PlacesOK, Unmapped
<1>7. PosixOK'
  BY DEF Crash, data, PosixOK, InCS, Sound, names
<1> QED BY <1>1, <1>2, <1>3, <1>4, <1>5, <1>6, <1>7

LEMMA KillKeeps ==
  ASSUME SeqInv, NEW p \in Procs, Kill(p)
  PROVE  SeqTypeOK' /\ NamesOK' /\ LoopOK' /\ PlacesOK' /\ FcntlOK' /\ SysvOK' /\ PosixOK'
<1> USE OneInGens DEF SeqInv
<1>1. SeqTypeOK'
  <2>1. sem' \in SemTable
    <3>1. sem \in SemTable /\ sem[1].val + undo[p] \in Nat
      BY DEF SeqTypeOK, SemTable
    <3> DEFINE v == sem[1].val + undo[p]
    <3>2. sem' = [sem EXCEPT ![1].val = v]
      BY DEF Kill
    <3> HIDE DEF v
    <3> QED BY <3>1, <3>2, SemSetVal DEF v
  <2> QED BY <2>1 DEF Kill, data, names, SeqTypeOK, SemTable, Times
<1>2. NamesOK'
  BY DEF Kill, data, names, NamesOK
<1>3. LoopOK'
  BY DEF Kill, LoopOK, Times
<1>4. PlacesOK'
  BY DEF Kill, data, names, PlacesOK
<1>5. FcntlOK'
  BY DEF Kill, FcntlOK, Holds, InCS
<1>6. SysvOK'
  BY DEF Kill, SysvOK, Holds, InCS, SeqTypeOK
<1>7. PosixOK'
  BY DEF Kill, data, PosixOK, InCS, SeqTypeOK, PlacesOK, Sound, names, PosixKinds, Forking
<1> QED BY <1>1, <1>2, <1>3, <1>4, <1>5, <1>6, <1>7

\* The object server unlinks and creates objects; those who have the old ones
\* open keep them.
LEMMA ObjectServerKeeps ==
  ASSUME SeqInv, objectServer
  PROVE  SeqTypeOK' /\ NamesOK' /\ LoopOK' /\ PlacesOK' /\ FcntlOK' /\ SysvOK' /\ PosixOK'
<1> USE OneInGens DEF SeqInv
<1>1. SeqTypeOK'
  BY BoundsAssumption DEF objectServer, ServerGoto, ShmUnlink, ShmCreate, Ftruncate, StoreZero, SemUnlink,
     SemCreateNamed, SeqTypeOK, Times
<1>2. NamesOK'
  BY DEF objectServer, ShmUnlink, ShmCreate, Ftruncate, StoreZero, SemUnlink, SemCreateNamed, NamesOK,
     SeqTypeOK
<1>3. LoopOK'
  BY DEF objectServer, ServerGoto, ShmUnlink, ShmCreate, Ftruncate, StoreZero, SemUnlink, SemCreateNamed,
     LoopOK, Times
<1>4. PlacesOK'
  BY DEF objectServer, ServerGoto, ShmUnlink, ShmCreate, Ftruncate, StoreZero, SemUnlink, SemCreateNamed,
     PlacesOK
<1>5. FcntlOK'
  BY DEF objectServer, ServerGoto, ShmUnlink, ShmCreate, Ftruncate, StoreZero, SemUnlink, SemCreateNamed,
     FcntlOK
<1>6. SysvOK'
  BY DEF objectServer, ServerGoto, ShmUnlink, ShmCreate, Ftruncate, StoreZero, SemUnlink, SemCreateNamed,
     SysvOK
<1>7. PosixOK'
  BY DEF objectServer, ServerGoto, ShmUnlink, ShmCreate, Ftruncate, StoreZero, SemUnlink, SemCreateNamed,
     PosixOK, InCS, Sound, names
<1> QED BY <1>1, <1>2, <1>3, <1>4, <1>5, <1>6, <1>7

\* Another run of "posix" or "memsem" while some processes are inside.
LEMMA RerunKeeps ==
  ASSUME SeqInv, NEW Q \in SUBSET Procs, Rerun(Q)
  PROVE  SeqTypeOK' /\ NamesOK' /\ LoopOK' /\ PlacesOK' /\ FcntlOK' /\ SysvOK' /\ PosixOK'
<1> USE OneInGens DEF SeqInv
<1>0. /\ kind \in Forking /\ UNCHANGED <<kind, seqNum, mem, semName, shmName, srv, i, killed, flock, undo>>
      /\ \A p \in Procs : IF p \in Q THEN loc[p] = "start" /\ loc'[p] = "lock" ELSE loc'[p] = loc[p]
  BY DEF Rerun
<1>1. PICK g \in Gens : lockOf' = [p \in Procs |-> IF p \in Q THEN g ELSE lockOf[p]]
  <2>1. reruns \in Nat /\ MaxReruns \in Nat /\ reruns < MaxReruns
    BY BoundsAssumption DEF Rerun, SeqTypeOK
  <2>2. 1 .. 2 + reruns \subseteq Gens
    BY <2>1 DEF Gens
  <2> QED BY <2>2 DEF Rerun
<1>2. SeqTypeOK'
  <2>1. sem' \in SemTable
    <3>1. sem \in SemTable
      BY DEF SeqTypeOK, SemTable
    <3> QED BY <3>1, SemSetVal DEF Rerun
  <2>2. lockOf' \in [Procs -> Gens \cup {Gone}]
    BY <1>1 DEF SeqTypeOK
  <2>3. loc' \in [Procs -> {"start", "semget", "setval", "otime", "shmopen", "semopen", "lock",
                           "read", "write", "unlock", "done"}]
    BY DEF Rerun, SeqTypeOK
  <2>4. reruns' \in 0 .. MaxReruns /\ cleared' \subseteq Gens /\ file' \in [Gens -> Nat]
    BY BoundsAssumption DEF Rerun, SeqTypeOK
  <2> QED BY <1>0, <2>1, <2>2, <2>3, <2>4 DEF SeqTypeOK, SemTable, Times
<1>3. NamesOK'
  BY <1>0 DEF NamesOK
<1>4. LoopOK'
  BY <1>0 DEF LoopOK, Times
<1>5. PlacesOK'
  BY <1>0, <1>1 DEF PlacesOK, Forking
<1>6. FcntlOK' /\ SysvOK'
  BY <1>0 DEF FcntlOK, SysvOK, Forking
<1>7. PosixOK'
  <2>1. SUFFICES ASSUME Sound' PROVE PosixOK'
    BY DEF PosixOK
  <2>2. sem' = sem
    BY <2>1, <1>0 DEF Sound, Rerun
  <2>3. Sound
    BY <2>1, <1>0 DEF Sound, Rerun
  <2>4. \A p \in Procs : InCS(p)' => InCS(p) /\ lockOf'[p] = lockOf[p]
    BY <1>0, <1>1 DEF InCS
  <2> QED BY <2>2, <2>3, <2>4 DEF PosixOK
<1> QED BY <1>2, <1>3, <1>4, <1>5, <1>6, <1>7

-----------------------------------------------------------------------------
(* Two processes with the same object mapped, and one lock for it, are not   *)
(* both inside.                                                              *)
LEMMA OneInside ==
  ASSUME SeqInv, kind # "none", NEW p \in Procs, NEW q \in Procs, Holds(p), Holds(q),
         mem[p] = mem[q], OneLock(mem[p])
  PROVE  p = q
<1> USE DEF SeqInv
<1>1. kind \in {"fcntl", "sysv"} \cup PosixKinds
  BY KindsAssumption DEF SeqTypeOK, PosixKinds, Forking
<1>2. CASE kind = "fcntl"
  BY <1>2 DEF FcntlOK
<1>3. CASE kind = "sysv"
  BY <1>3 DEF SysvOK
<1>4. CASE kind \in PosixKinds
  <2>0. Sound
    <3>1. kind = "memsem" => mem[p] = 1
      BY DEF PlacesOK
    <3> QED BY <1>4, <3>1 DEF Sound, OneLock
  <2>1. InCS(p) /\ InCS(q) /\ lockOf[p] # Gone /\ lockOf[q] # Gone
    BY DEF Holds, InCS, PlacesOK
  <2>2. lockOf[p] = lockOf[q]
    BY <2>1 DEF OneLock
  <2> QED BY <2>0, <2>1, <2>2 DEF PosixOK
<1> QED BY <1>1, <1>2, <1>3, <1>4

\* What is mapped and opened stays so.
LEMMA OneLockBefore ==
  ASSUME cleared \subseteq cleared',
         \A p \in Procs : (mem[p] # Gone => mem'[p] = mem[p]) /\ (lockOf[p] # Gone => lockOf'[p] = lockOf[p]),
         NEW g \in Gens, OneLock(g)'
  PROVE  OneLock(g)
<1>1. g # Gone
  BY OneInGens
<1>2. ASSUME NEW p \in Procs, NEW q \in Procs, mem[p] = g, mem[q] = g, lockOf[p] # Gone, lockOf[q] # Gone
      PROVE  lockOf[p] = lockOf[q]
  <2>1. mem'[p] = g /\ mem'[q] = g /\ lockOf'[p] = lockOf[p] /\ lockOf'[q] = lockOf[q]
    BY <1>1, <1>2
  <2>2. Gone \in {lockOf'[p], lockOf'[q]} \/ lockOf'[p] = lockOf'[q]
    BY <2>1 DEF OneLock
  <2> QED BY <2>1, <2>2, <1>2
<1>3. g \notin cleared
  BY DEF OneLock
<1> QED BY <1>2, <1>3 DEF OneLock

\* Every step leaves what is mapped and opened as it is.
LEMMA MapsStay ==
  ASSUME SeqInv, [SeqNext]_seqVars
  PROVE  /\ kind' = kind /\ killed \subseteq killed' /\ cleared \subseteq cleared'
         /\ \A p \in Procs : /\ mem[p] # Gone => mem'[p] = mem[p]
                             /\ lockOf[p] # Gone => lockOf'[p] = lockOf[p]
<1> USE DEF SeqInv
<1>1. CASE UNCHANGED seqVars
  BY <1>1 DEF seqVars, data, names
<1>2. CASE objectServer
  BY <1>2 DEF objectServer, ServerGoto, ShmUnlink, ShmCreate, Ftruncate, StoreZero, SemUnlink, SemCreateNamed
<1>3. ASSUME NEW p \in Procs, Kill(p) \/ Crash(p)
      PROVE  kind' = kind /\ killed \subseteq killed' /\ UNCHANGED <<data, names>>
  BY <1>3 DEF Kill, Crash
<1>4. ASSUME NEW p \in Procs, SemCreate(p) \/ SetVal(p) \/ SemAttach(p) \/ SeeOtime(p) \/ mylock(p) \/ Read(p)
      \/ Write(p) \/ myunlock(p)
      PROVE  kind' = kind /\ killed' = killed /\ UNCHANGED <<mem, lockOf, cleared>>
  BY <1>4 DEF SemCreate, SetVal, SemAttach, SeeOtime, mylock, Read, Write, myunlock, Unlock, ProcGoto, data,
     names
<1>5. ASSUME NEW p \in Procs, ShmOpen(p)
      PROVE  /\ kind' = kind /\ killed' = killed /\ UNCHANGED <<lockOf, cleared>>
             /\ \A q \in Procs : mem[q] # Gone => mem'[q] = mem[q]
  BY <1>5 DEF ShmOpen, ProcGoto, names, PlacesOK, SeqTypeOK
<1>6. ASSUME NEW p \in Procs, SemOpen(p)
      PROVE  /\ kind' = kind /\ killed' = killed /\ UNCHANGED <<mem, cleared>>
             /\ \A q \in Procs : lockOf[q] # Gone => lockOf'[q] = lockOf[q]
  BY <1>6 DEF SemOpen, ProcGoto, names, PlacesOK, SeqTypeOK
<1>7. ASSUME NEW Q \in SUBSET Procs, Rerun(Q)
      PROVE  /\ kind' = kind /\ killed' = killed /\ UNCHANGED mem /\ cleared \subseteq cleared'
             /\ \A q \in Procs : lockOf[q] # Gone => lockOf'[q] = lockOf[q]
  BY <1>7 DEF Rerun, PlacesOK
<1> QED BY <1>1, <1>2, <1>3, <1>4, <1>5, <1>6, <1>7 DEF SeqNext, step, data, names

-----------------------------------------------------------------------------
(* The increments of those who have object g mapped. *)

Mappers(g) == {p \in Procs : mem[p] = g}
Counts(g) == [p \in Mappers(g) |-> Written(p)]

\* There are finitely many of them, and each has written a number of times.
LEMMA CountsType ==
  ASSUME SeqTypeOK, NEW g
  PROVE  IsFiniteSet(Mappers(g)) /\ Counts(g) \in [Mappers(g) -> Nat]
<1>1. Times \in Nat
  BY TimesNat
<1>2. \A p \in Procs : Written(p) \in Nat
  BY <1>1 DEF SeqTypeOK, Written
<1>3. Mappers(g) \in SUBSET Procs
  BY DEF Mappers
<1> QED BY <1>2, <1>3, ProcsAssumption, FS_Subset DEF Mappers, Counts

\* The property in terms of these counts.
LEMMA NoLostByCounts ==
  NoLostUpdate <=> (kind # "none" => \A g \in Gens : OneLock(g) => file[g] = SumFunction(Counts(g)))
BY DEF NoLostUpdate, Counts, Mappers

\* A step that changes neither the file nor what anybody has written.
LEMMA NothingWritten ==
  ASSUME SeqInv, [SeqNext]_seqVars, UNCHANGED <<mem, file>>, \A p \in Procs : Written(p)' = Written(p)
  PROVE  NoLostUpdate'
<1>1. SUFFICES ASSUME kind # "none", NEW g \in Gens, OneLock(g)'
               PROVE  file'[g] = SumFunction(Counts(g)')
  BY MapsStay DEF NoLostUpdate, Counts, Mappers
<1>2. OneLock(g)
  BY <1>1, MapsStay, OneLockBefore
<1>3. Counts(g)' = Counts(g)
  BY DEF Counts, Mappers
<1>4. file[g] = SumFunction(Counts(g))
  BY <1>1, <1>2, NoLostByCounts DEF SeqInv
<1> QED BY <1>3, <1>4

\* ... nor makes anybody take a copy.
LEMMA NothingRead ==
  ASSUME SeqInv, [SeqNext]_seqVars, UNCHANGED <<file, seqNum>>,
         \A p \in Procs : loc'[p] = "write" /\ p \notin killed' => loc[p] = "write"
  PROVE  CopyOK'
<1>1. SUFFICES ASSUME kind # "none", NEW p \in Procs, p \notin killed', loc'[p] = "write", OneLock(mem[p])'
               PROVE  seqNum[p] = file[mem'[p]]
  BY MapsStay DEF CopyOK
<1>2. loc[p] = "write" /\ p \notin killed
  BY <1>1, MapsStay
<1>3. mem[p] \in Gens /\ mem'[p] = mem[p]
  BY <1>2, MapsStay DEF SeqInv, SeqTypeOK, PlacesOK
<1>4. OneLock(mem[p])
  <2>1. PICK g \in Gens : g = mem[p]
    BY <1>3
  <2>2. OneLock(g)'
    BY <1>1, <1>3, <2>1 DEF OneLock
  <2>3. OneLock(g)
    BY <2>2, MapsStay, OneLockBefore
  <2> QED BY <2>1, <2>3
<1> QED BY <1>1, <1>2, <1>3, <1>4 DEF SeqInv, CopyOK

\* Write: the copy was up to date, and nobody else is inside.
LEMMA WriteCounts ==
  ASSUME SeqInv, NEW p \in Procs, Write(p)
  PROVE  NoLostUpdate' /\ CopyOK'
<1> USE DEF SeqInv
<1>1. SUFFICES ASSUME kind # "none" PROVE NoLostUpdate' /\ CopyOK'
  BY DEF NoLostUpdate, CopyOK, Write, ProcGoto
<1>2. PICK g \in Gens : g = mem[p]
  BY DEF Write, ProcGoto, SeqTypeOK, PlacesOK
<1>3. /\ p \notin killed /\ loc[p] = "write" /\ Holds(p)
      /\ UNCHANGED <<kind, killed, mem, lockOf, cleared, i>>
  BY DEF Write, ProcGoto, names, Holds, InCS
<1>4. \A h : OneLock(h)' <=> OneLock(h)
  BY <1>3 DEF OneLock
<1>5. OneLock(g) => seqNum[p] = file[g]
  BY <1>1, <1>2, <1>3 DEF CopyOK
<1>6. \A h \in Gens : file'[h] = IF h = g THEN seqNum[p] + 1 ELSE file[h]
  BY <1>2 DEF Write, SeqTypeOK
<1>7. \A q \in Procs : loc'[q] = IF q = p THEN "unlock" ELSE loc[q]
  BY DEF Write, ProcGoto, SeqTypeOK
<1>8. i[p] \in Nat /\ \A q \in Procs : Written(q)' = IF q = p THEN Written(q) + 1 ELSE Written(q)
  BY <1>3, <1>7, TimesNat DEF Written, SeqTypeOK
<1>9. ASSUME NEW h \in Gens, OneLock(h) PROVE file'[h] = SumFunction(Counts(h)')
  <2>1. file[h] = SumFunction(Counts(h))
    BY <1>1, <1>9, NoLostByCounts
  <2>2. Mappers(h)' = Mappers(h)
    BY <1>3 DEF Mappers
  <2>3. CASE h = g
    <3>1. p \in Mappers(h)
      BY <2>3, <1>2 DEF Mappers
    <3>2. IsFiniteSet(Mappers(h)) /\ Counts(h) \in [Mappers(h) -> Nat]
      BY CountsType
    <3>3. Counts(h)' = [q \in Mappers(h) |-> IF q = p THEN Written(q) + 1 ELSE Written(q)]
      BY <1>8, <2>2 DEF Counts, Mappers
    <3>4. \A q \in Mappers(h) : Counts(h)[q] = Written(q)
      BY DEF Counts
    <3>5. /\ Counts(h)' \in [Mappers(h) -> Nat]
          /\ Counts(h)'[p] = Counts(h)[p] + 1
          /\ \A q \in Mappers(h) \ {p} : Counts(h)'[q] = Counts(h)[q]
      BY <3>1, <3>2, <3>3, <3>4
    <3>6. SumFunction(Counts(h)') = SumFunction(Counts(h)) + 1
      BY <3>1, <3>2, <3>5, SumIncrement
    <3> QED BY <3>6, <2>1, <2>3, <1>5, <1>6, <1>9
  <2>4. CASE h # g
    <3>1. \A q \in Mappers(h) : q # p
      BY <2>4, <1>2 DEF Mappers
    <3>2. Counts(h)' = Counts(h)
      BY <3>1, <2>2, <1>8 DEF Counts, Mappers
    <3> QED BY <3>2, <2>1, <2>4, <1>6
  <2> QED BY <2>3, <2>4
<1>10. NoLostUpdate'
  BY <1>4, <1>9 DEF NoLostUpdate, Counts, Mappers
<1>11. CopyOK'
  <2>1. SUFFICES ASSUME NEW q \in Procs, q \notin killed, loc'[q] = "write", OneLock(mem[q])
                 PROVE  seqNum'[q] = file'[mem[q]]
    BY <1>3, <1>4 DEF CopyOK
  <2>2. q # p /\ loc[q] = "write"
    BY <1>7, <2>1
  <2>3. seqNum'[q] = seqNum[q]
    BY <2>2 DEF Write, SeqTypeOK
  <2>4. mem[q] \in Gens
    BY <2>2 DEF SeqTypeOK, PlacesOK
  <2>5. mem[q] # g
    <3>1. SUFFICES ASSUME mem[q] = g PROVE FALSE
      OBVIOUS
    <3>2. Holds(q)
      BY <2>1, <2>2 DEF Holds, InCS
    <3>3. mem[q] = mem[p]
      BY <3>1, <1>2
    <3>4. q = p
      BY <3>2, <3>3, <2>1, <1>1, <1>3, OneInside
    <3> QED BY <3>4, <2>2
  <2>6. file'[mem[q]] = file[mem[q]]
    BY <2>4, <2>5, <1>6
  <2>7. seqNum[q] = file[mem[q]]
    BY <2>1, <2>2, <1>1 DEF CopyOK
  <2> QED BY <2>3, <2>6, <2>7
<1> QED BY <1>10, <1>11

\* Read takes a copy that is up to date.
LEMMA ReadCopies ==
  ASSUME SeqInv, NEW p \in Procs, Read(p)
  PROVE  CopyOK'
<1> USE DEF SeqInv
<1>1. UNCHANGED <<kind, killed, mem, lockOf, cleared, file>>
  BY DEF Read, ProcGoto, names
<1>2. \A h : OneLock(h)' <=> OneLock(h)
  BY <1>1 DEF OneLock
<1>3. \A q \in Procs : /\ loc'[q] = IF q = p THEN "write" ELSE loc[q]
                       /\ seqNum'[q] = IF q = p THEN file[mem[q]] ELSE seqNum[q]
  BY DEF Read, ProcGoto, SeqTypeOK
<1> QED BY <1>1, <1>2, <1>3 DEF CopyOK

\* A client that maps the object has not written yet.
LEMMA ShmOpenCounts ==
  ASSUME SeqInv, [SeqNext]_seqVars, NEW p \in Procs, ShmOpen(p)
  PROVE  NoLostUpdate'
<1> USE DEF SeqInv
<1>1. SUFFICES ASSUME kind # "none", NEW g \in Gens, OneLock(g)'
               PROVE  file'[g] = SumFunction(Counts(g)')
  BY MapsStay DEF NoLostUpdate, Counts, Mappers
<1>2. OneLock(g)
  BY <1>1, MapsStay, OneLockBefore
<1>3. file[g] = SumFunction(Counts(g)) /\ file' = file
  BY <1>1, <1>2, NoLostByCounts DEF ShmOpen
<1>4. loc[p] = "shmopen" /\ mem[p] = Gone /\ i[p] = 0 /\ i' = i
  BY DEF ShmOpen, ProcGoto, PlacesOK
<1>5. \A q \in Procs : /\ loc'[q] = IF q = p THEN "semopen" ELSE loc[q]
                       /\ mem'[q] = IF q = p THEN shmName ELSE mem[q]
  BY DEF ShmOpen, ProcGoto, SeqTypeOK
<1>6. \A q \in Procs : Written(q)' = Written(q)
  BY <1>4, <1>5 DEF Written
<1>7. Written(p) = 0
  BY <1>4 DEF Written
<1>8. CASE shmName # g
  <2>1. Mappers(g)' = Mappers(g)
    BY <1>4, <1>5, <1>8, OneInGens DEF Mappers
  <2>2. Counts(g)' = Counts(g)
    BY <2>1, <1>6 DEF Counts, Mappers
  <2> QED BY <2>2, <1>3
<1>9. CASE shmName = g
  <2>1. p \notin Mappers(g) /\ Mappers(g)' = Mappers(g) \cup {p}
    BY <1>4, <1>5, <1>9, OneInGens DEF Mappers
  <2> DEFINE M == Mappers(g) \cup {p}
             f == [q \in M |-> Written(q)]
  <2>2. Counts(g)' = f
    BY <2>1, <1>6 DEF Counts, Mappers
  <2>3. Counts(g) = [q \in M \ {p} |-> f[q]]
    BY <2>1 DEF Counts
  <2>4. IsFiniteSet(M) /\ f \in [M -> Nat] /\ p \in M /\ f[p] = 0
    <3>1. IsFiniteSet(Mappers(g)) /\ Counts(g) \in [Mappers(g) -> Nat]
      BY CountsType
    <3>2. IsFiniteSet(M)
      BY <3>1, FS_AddElement
    <3>3. \A q \in Mappers(g) : Written(q) \in Nat
      BY <3>1 DEF Counts
    <3> QED BY <3>2, <3>3, <1>7
  <2> HIDE DEF M, f
  <2>5. SumFunction(f) = SumFunction([q \in M \ {p} |-> f[q]])
    BY <2>4, SumAddZero
  <2> QED BY <2>2, <2>3, <2>5, <1>3
<1> QED BY <1>8, <1>9

\* The server clears an object: either it was clear, or it is not one whose
\* users share a lock.
LEMMA ServerClears ==
  ASSUME SeqInv, objectServer
  PROVE  NoLostUpdate' /\ CopyOK'
<1> USE DEF SeqInv
<1>1. UNCHANGED <<kind, seqNum, mem, lockOf, i, loc, killed>>
  BY DEF objectServer, ServerGoto, ShmUnlink, ShmCreate, Ftruncate, StoreZero, SemUnlink, SemCreateNamed
<1>2. \A g \in Gens : file'[g] = file[g] \/ g \in cleared'
  BY OneInGens DEF objectServer, ServerGoto, ShmUnlink, ShmCreate, Ftruncate, StoreZero, SemUnlink,
     SemCreateNamed, SeqTypeOK
<1>3. cleared \subseteq cleared'
  BY DEF objectServer, ServerGoto, ShmUnlink, ShmCreate, Ftruncate, StoreZero, SemUnlink, SemCreateNamed
<1>4. \A g \in Gens : OneLock(g)' => OneLock(g) /\ file'[g] = file[g]
  BY <1>1, <1>2, <1>3 DEF OneLock
<1>5. \A g : Counts(g)' = Counts(g)
  BY <1>1 DEF Counts, Mappers, Written
<1>6. NoLostUpdate'
  <2>1. SUFFICES ASSUME kind # "none", NEW g \in Gens, OneLock(g)'
                 PROVE  file'[g] = SumFunction(Counts(g)')
    BY <1>1 DEF NoLostUpdate, Counts, Mappers
  <2>2. file[g] = SumFunction(Counts(g))
    BY <2>1, <1>4, NoLostByCounts
  <2> QED BY <2>1, <2>2, <1>4, <1>5
<1>7. CopyOK'
  <2>1. \A p \in Procs : loc[p] = "write" => mem[p] \in Gens
    BY DEF SeqTypeOK, PlacesOK
  <2> QED BY <2>1, <1>1, <1>4 DEF CopyOK
<1> QED BY <1>6, <1>7

\* Another run of "posix" or "memsem" sets the file to zero: either it was as at
\* the start, or its users are no longer held to their count.
LEMMA RerunClears ==
  ASSUME SeqInv, [SeqNext]_seqVars, NEW Q \in SUBSET Procs, Rerun(Q)
  PROVE  NoLostUpdate' /\ CopyOK'
<1> USE DEF SeqInv
<1>1. UNCHANGED <<kind, seqNum, mem, i, killed>>
  BY DEF Rerun
<1>2. \A g \in Gens : file'[g] = file[g] \/ g \in cleared'
  BY OneInGens DEF Rerun, SeqTypeOK
<1>3. \A p \in Procs : loc'[p] = loc[p] \/ (loc[p] = "start" /\ loc'[p] = "lock")
  BY DEF Rerun
<1>4. \A g \in Gens : OneLock(g)' => OneLock(g) /\ file'[g] = file[g]
  <2> SUFFICES ASSUME NEW g \in Gens, OneLock(g)' PROVE OneLock(g) /\ file'[g] = file[g]
    OBVIOUS
  <2>1. OneLock(g)
    BY MapsStay, OneLockBefore
  <2> QED BY <2>1, <1>2 DEF OneLock
<1>5. \A g : Counts(g)' = Counts(g)
  BY <1>1, <1>3 DEF Counts, Mappers, Written
<1>6. NoLostUpdate'
  <2>1. SUFFICES ASSUME kind # "none", NEW g \in Gens, OneLock(g)'
                 PROVE  file'[g] = SumFunction(Counts(g)')
    BY <1>1 DEF NoLostUpdate, Counts, Mappers
  <2>2. file[g] = SumFunction(Counts(g))
    BY <2>1, <1>4, NoLostByCounts
  <2> QED BY <2>1, <2>2, <1>4, <1>5
<1>7. CopyOK'
  <2> SUFFICES ASSUME kind # "none", NEW p \in Procs, p \notin killed, loc'[p] = "write", OneLock(mem[p])'
               PROVE  seqNum[p] = file'[mem[p]]
    BY <1>1 DEF CopyOK
  <2>1. loc[p] = "write" /\ mem[p] \in Gens
    BY <1>3 DEF SeqTypeOK, PlacesOK
  <2>2. PICK g \in Gens : g = mem[p] /\ mem'[p] = g
    BY <1>1, <2>1
  <2>3. OneLock(g)'
    BY <1>1, <2>2 DEF OneLock
  <2>4. OneLock(g) /\ file'[g] = file[g]
    BY <1>4, <2>3
  <2> QED BY <2>1, <2>2, <2>4 DEF CopyOK
<1> QED BY <1>6, <1>7

-----------------------------------------------------------------------------
\* The inductive invariant, at the start and over every step.
LEMMA SeqInvInit == SeqInit => SeqInv
<1> SUFFICES ASSUME SeqInit PROVE SeqInv
  OBVIOUS
<1> USE OneInGens
<1>0. PICK first \in SUBSET Procs :
        loc = [p \in Procs |-> CASE kind = "sysv" -> "semget" [] kind = "shmobj" -> "shmopen"
                                  [] kind \in Forking /\ p \notin first -> "start"
                                  [] OTHER -> "lock"]
  BY DEF SeqInit
<1>1. \A p \in Procs : /\ loc[p] \in {"start", "semget", "shmopen", "lock"} /\ i[p] = 0
                       /\ kind = "sysv" <=> loc[p] = "semget"
                       /\ kind = "shmobj" <=> loc[p] = "shmopen"
                       /\ loc[p] = "start" => kind \in Forking
  BY <1>0 DEF SeqInit, Forking
<1>2. sem \in SemTable
  BY DEF SeqInit, NoSem, SemTable
<1>3. SeqTypeOK
  <2>1. Times \in Nat \ {0}
    BY BoundsAssumption DEF Times
  <2>2. i \in [Procs -> 0 .. Times] /\ mem \in [Procs -> Gens \cup {Gone}]
        /\ lockOf \in [Procs -> Gens \cup {Gone}]
    BY <2>1 DEF SeqInit
  <2>3. loc \in [Procs -> {"start", "semget", "setval", "otime", "shmopen", "semopen", "lock", "read", "write",
        "unlock", "done"}]
    BY <1>0
  <2>4. reruns \in 0 .. MaxReruns
    BY BoundsAssumption DEF SeqInit
  <2> QED BY <1>2, <2>2, <2>3, <2>4 DEF SeqInit, SeqTypeOK, SemTable
<1>4. NamesOK
  BY DEF SeqInit, NamesOK
<1>5. LoopOK
  BY <1>1, <1>3, TimesNat DEF LoopOK
<1>6. PlacesOK
  BY <1>1 DEF SeqInit, PlacesOK
<1>7. FcntlOK
  BY <1>1 DEF FcntlOK, Holds, InCS
<1>8. SysvOK
  <2>1. SUFFICES ASSUME kind = "sysv" PROVE SysvOK
    BY DEF SysvOK
  <2>2. sem[1] = NoSem
    BY <2>1 DEF SeqInit, PosixKinds, Forking
  <2>3. sem[1].val = 0 /\ sem[1].creator = None /\ sem[1].otime = 0
    BY <2>2 DEF NoSem
  <2>4. \A p \in Procs : loc[p] = "semget" /\ undo[p] = 0
    BY <1>1, <2>1 DEF SeqInit
  <2> QED BY <2>3, <2>4 DEF SysvOK, Holds, InCS
<1>9. PosixOK
  <2>1. SUFFICES ASSUME kind \in PosixKinds PROVE PosixOK
    BY DEF PosixOK, Sound
  <2>2. \A g \in Gens : sem[g].val = 1
    BY <2>1 DEF SeqInit, NoSem
  <2> QED BY <1>1, <2>2 DEF PosixOK, InCS
<1>10. CopyOK
  BY <1>1 DEF CopyOK
<1>11. NoLostUpdate
  <2>1. SUFFICES ASSUME NEW g \in Gens PROVE file[g] = SumFunction(Counts(g))
    BY NoLostByCounts
  <2>2. IsFiniteSet(Mappers(g)) /\ Counts(g) \in [Mappers(g) -> Nat]
    BY <1>3, CountsType
  <2>3. \A p \in Mappers(g) : Counts(g)[p] = 0
    BY <1>1 DEF Counts, Mappers, Written
  <2>4. SumFunction(Counts(g)) = 0
    BY <2>2, <2>3, SumZero
  <2> QED BY <2>4 DEF SeqInit
<1> QED BY <1>3, <1>4, <1>5, <1>6, <1>7, <1>8, <1>9, <1>10, <1>11 DEF SeqInv

\* The file and what everybody has written are left alone by most steps.
LEMMA CopiesAndCounts ==
  ASSUME SeqInv, [SeqNext]_seqVars
  PROVE  NoLostUpdate' /\ CopyOK'
<1>1. CASE UNCHANGED seqVars
  <2>1. UNCHANGED <<mem, file, seqNum, loc, i, killed>>
    BY <1>1 DEF seqVars, data, names
  <2>2. \A p \in Procs : Written(p)' = Written(p)
    BY <2>1 DEF Written
  <2> QED BY <2>1, <2>2, NothingWritten, NothingRead
<1>2. CASE objectServer
  BY <1>2, ServerClears
<1>3. ASSUME NEW p \in Procs, Kill(p) \/ Crash(p) PROVE NoLostUpdate' /\ CopyOK'
  <2>1. UNCHANGED <<mem, file, seqNum, loc, i>>
    BY <1>3 DEF Kill, Crash, data
  <2>2. \A q \in Procs : Written(q)' = Written(q)
    BY <2>1 DEF Written
  <2> QED BY <2>1, <2>2, NothingWritten, NothingRead
<1>4. ASSUME NEW p \in Procs, SemCreate(p) \/ SetVal(p) \/ SemAttach(p) \/ SeeOtime(p) \/ mylock(p)
      \/ SemOpen(p)
      PROVE  NoLostUpdate' /\ CopyOK'
  <2>1. /\ UNCHANGED <<mem, file, seqNum, i>> /\ loc[p] \notin {"write", "unlock"}
        /\ \E to \in {"setval", "lock", "otime", "read"} : loc' = [loc EXCEPT ![p] = to]
    BY <1>4 DEF SemCreate, SetVal, SemAttach, SeeOtime, mylock, SemOpen, ProcGoto, data
  <2>2. \A q \in Procs : (loc'[q] = "write" <=> loc[q] = "write")
        /\ (loc'[q] = "unlock" <=> loc[q] = "unlock")
    BY <2>1 DEF SeqInv, SeqTypeOK
  <2>3. \A q \in Procs : Written(q)' = Written(q)
    BY <2>1, <2>2 DEF Written
  <2> QED BY <2>1, <2>2, <2>3, NothingWritten, NothingRead
<1>5. ASSUME NEW p \in Procs, ShmOpen(p) PROVE NoLostUpdate' /\ CopyOK'
  <2>1. UNCHANGED <<file, seqNum>> /\ loc' = [loc EXCEPT ![p] = "semopen"]
    BY <1>5 DEF ShmOpen, ProcGoto
  <2>2. \A q \in Procs : loc'[q] = "write" => loc[q] = "write"
    BY <2>1 DEF SeqInv, SeqTypeOK
  <2> QED BY <2>1, <2>2, <1>5, ShmOpenCounts, NothingRead
<1>6. ASSUME NEW p \in Procs, Read(p) PROVE NoLostUpdate' /\ CopyOK'
  <2>1. UNCHANGED <<mem, file, i>> /\ loc[p] = "read" /\ loc' = [loc EXCEPT ![p] = "write"]
    BY <1>6 DEF Read, ProcGoto
  <2>2. \A q \in Procs : Written(q)' = Written(q)
    BY <2>1 DEF Written, SeqInv, SeqTypeOK
  <2> QED BY <2>1, <2>2, <1>6, NothingWritten, ReadCopies
<1>7. ASSUME NEW p \in Procs, Write(p) PROVE NoLostUpdate' /\ CopyOK'
  BY <1>7, WriteCounts
<1>8. ASSUME NEW p \in Procs, myunlock(p) PROVE NoLostUpdate' /\ CopyOK'
  <2>1. /\ UNCHANGED <<mem, file, seqNum>> /\ loc[p] = "unlock" /\ i' = [i EXCEPT ![p] = @ + 1]
        /\ \E to \in {"done", "lock"} : loc' = [loc EXCEPT ![p] = to]
    BY <1>8 DEF myunlock, Unlock, ProcGoto, data
  <2>2. \A q \in Procs : loc'[q] = "write" => loc[q] = "write"
    BY <2>1 DEF SeqInv, SeqTypeOK
  <2>3. Times \in Nat
    BY TimesNat DEF SeqInv
  <2>4. ASSUME NEW q \in Procs PROVE Written(q)' = Written(q)
    <3>1. i[q] \in Nat
      BY <2>3 DEF SeqInv, SeqTypeOK
    <3>2. CASE q = p
      <4>1. loc'[q] # "unlock" /\ i'[q] = i[q] + 1
        BY <3>2, <2>1 DEF SeqInv, SeqTypeOK
      <4> QED BY <4>1, <3>1, <3>2, <2>1 DEF Written
    <3>3. CASE q # p
      BY <3>3, <2>1 DEF Written, SeqInv, SeqTypeOK
    <3> QED BY <3>2, <3>3
  <2> QED BY <2>1, <2>2, <2>4, NothingWritten, NothingRead
<1>9. ASSUME NEW Q \in SUBSET Procs, Rerun(Q) PROVE NoLostUpdate' /\ CopyOK'
  BY <1>9, RerunClears
<1> QED BY <1>1, <1>2, <1>3, <1>4, <1>5, <1>6, <1>7, <1>8, <1>9 DEF SeqNext, step

LEMMA SeqInvStep == SeqInv /\ [SeqNext]_seqVars => SeqInv'
<1> SUFFICES ASSUME SeqInv, [SeqNext]_seqVars PROVE SeqInv'
  OBVIOUS
<1> DEFINE Rest == SeqTypeOK /\ NamesOK /\ LoopOK /\ PlacesOK /\ FcntlOK /\ SysvOK /\ PosixOK
<1>1. CASE UNCHANGED seqVars
  <2>1. UNCHANGED <<kind, file, seqNum, mem, lockOf, semName, shmName, srv, reruns, cleared, i, loc, killed,
        flock, sem, undo>>
    BY <1>1 DEF seqVars, data, names
  <2> QED BY <2>1 DEF SeqInv, SeqTypeOK, NamesOK, LoopOK, PlacesOK, FcntlOK, SysvOK, PosixOK, CopyOK,
      NoLostUpdate,
                      OneLock, Written, Times, Holds, InCS, Sound
<1>2. CASE objectServer
  BY <1>2, ObjectServerKeeps, CopiesAndCounts DEF SeqInv
<1>3. ASSUME NEW p \in Procs, step(p) \/ Kill(p) PROVE Rest'
  <2>1. ASSUME SemCreate(p) \/ SetVal(p) \/ SemAttach(p) \/ SeeOtime(p) PROVE Rest'
    BY <2>1, SemCreateKeeps, SetValKeeps, SemAttachKeeps, SeeOtimeKeeps
  <2>2. ASSUME mylock(p) \/ Read(p) \/ Write(p) \/ myunlock(p) PROVE Rest'
    BY <2>2, MylockKeeps, ReadKeeps, WriteKeeps, MyunlockKeeps
  <2>3. ASSUME ShmOpen(p) \/ SemOpen(p) \/ Crash(p) \/ Kill(p) PROVE Rest'
    BY <2>3, ShmOpenKeeps, SemOpenKeeps, CrashKeeps, KillKeeps
  <2> QED BY <1>3, <2>1, <2>2, <2>3 DEF step
<1>4. ASSUME NEW Q \in SUBSET Procs, Rerun(Q) PROVE Rest'
  BY <1>4, RerunKeeps
<1> QED BY <1>1, <1>2, <1>3, <1>4, CopiesAndCounts DEF SeqNext, SeqInv

LEMMA SeqInvHolds == SeqSpec => []SeqInv
BY SeqInvInit, SeqInvStep, PTL DEF SeqSpec

\* Every variable of the programs that increment a sequence number keeps its
\* type, for any finite set of processes, number of increments, kinds of lock
\* and number of reruns of the object server.
THEOREM SeqTypeCorrect == SeqSpec => []SeqTypeOK
<1>1. SeqInv => SeqTypeOK
  BY DEF SeqInv
<1> QED BY <1>1, SeqInvHolds, PTL

\* With any of the locks the number in the file or object is the sum of what its
\* users have written, whoever is killed where and however often the programs
\* are run again, as long as they agree on the lock and nobody writes over what
\* is in use: for any finite set of processes.
THEOREM NoUpdateLost == SeqSpec => []NoLostUpdate
<1>1. SeqInv => NoLostUpdate
  BY DEF SeqInv
<1> QED BY <1>1, SeqInvHolds, PTL

\* Of the processes that have an object mapped and use one lock for it, one at
\* a time is inside.
OneAtATime ==
    kind # "none" => \A p, q \in Procs :
        Holds(p) /\ Holds(q) /\ mem[p] = mem[q] /\ OneLock(mem[p]) => p = q

\* Two processes that have the same object mapped, and use one lock for it,
\* are never both between mylock and myunlock: the race to initialise the
\* System V semaphore, the kernel's undo for a killed process and the
\* replacement of the object by its server included.
THEOREM MutualExclusion == SeqSpec => []OneAtATime
<1>1. SeqInv => OneAtATime
  BY OneInside DEF OneAtATime
<1> QED BY <1>1, SeqInvHolds, PTL
=============================================================================
