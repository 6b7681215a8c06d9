------------------------ MODULE CondProdCons_proofs ------------------------
(***************************************************************************)
(* The two programs of threads.                                            *)
(*                                                                         *)
(* CondProdCons for any finite set of producers and any number of items:   *)
(* its types, the consumer's check never failing, no announcement lost,    *)
(* and the safety part of the contract of Stream.                          *)
(*                                                                         *)
(* EchoThread for any clients, lines, descriptors and number of faults:    *)
(* its types, and that nothing but the race for connectfd comes between    *)
(* a client and its thread.                                                *)
(***************************************************************************)
EXTENDS CondProdCons, EchoThread, SequenceTheorems, FiniteSetTheorems, NaturalsInduction,
        WellFoundedInduction, TLAPS

(* CondProdCons: the inductive invariant. *)

\* Producers stay at producer locations, the consumer at consumer locations.
PcOK == /\ \A p \in Producers : pc[p] \in {"start", "advance", "announce", "count", "done"}
        /\ pc[Consumer] \in {"start", "wait", "check", "done"}

\* mutexCtrl.mutex is held exactly during buff[buffIndex++] = buffVal++.
MutexOK == \A p \in Producers : pc[p] = "advance" <=> mutexOwner = p

\* Every slot below buffIndex holds its own index; buffVal follows buffIndex.
ValuesOK == /\ buffVal = buffIndex
            /\ \A k \in Slots : k < buffIndex => buff[k] = k

\* Between its store and its increments, a producer's slot is the next one.
FilledOK == \A p \in Producers : pc[p] = "advance" => /\ buffIndex < MAXITEMS
                                                      /\ buff[buffIndex] = buffIndex

\* The consumer returns after the last item only.
ReturnOK == pc[Consumer] = "done" => i = MAXITEMS

IndInv == /\ TypeOK /\ PcOK /\ MutexOK /\ ValuesOK /\ FilledOK /\ ReturnOK
          /\ ItemsConserved /\ NeverWrong

-----------------------------------------------------------------------------
\* The producers between their critical sections are finitely many, and a
\* producer entering or leaving that stretch changes their number by one.
LEMMA UnannouncedFinite == IsFiniteSet(Unannounced) /\ Cardinality(Unannounced) \in Nat
<1>1. Unannounced \in SUBSET Producers
  BY DEF Unannounced
<1> QED BY <1>1, ThreadsAssumption, FS_Subset, FS_CardinalityType

LEMMA UnannouncedEnter ==
  ASSUME TypeOK, NEW p \in Producers, pc[p] # "announce",
         pc' = [pc EXCEPT ![p] = "announce"]
  PROVE  Cardinality(Unannounced') = Cardinality(Unannounced) + 1
<1>1. Unannounced' = Unannounced \cup {p} /\ p \notin Unannounced
  BY DEF Unannounced, Threads, TypeOK
<1> QED BY <1>1, UnannouncedFinite, FS_AddElement

LEMMA UnannouncedLeave ==
  ASSUME TypeOK, NEW p \in Producers, pc[p] = "announce",
         NEW l, l # "announce", pc' = [pc EXCEPT ![p] = l]
  PROVE  /\ Cardinality(Unannounced') = Cardinality(Unannounced) - 1
         /\ Cardinality(Unannounced') \in Nat
<1>1. Unannounced' = Unannounced \ {p} /\ p \in Unannounced
  BY DEF Unannounced, Threads, TypeOK
<1>2. IsFiniteSet(Unannounced')
  BY <1>1, UnannouncedFinite, FS_RemoveElement
<1> QED BY <1>1, <1>2, UnannouncedFinite, FS_RemoveElement, FS_CardinalityType

\* Any other step leaves them alone.
LEMMA UnannouncedSame ==
  ASSUME TypeOK, NEW t \in Threads, NEW l,
         t \in Producers => pc[t] # "announce" /\ l # "announce",
         pc' = [pc EXCEPT ![t] = l]
  PROVE  Unannounced' = Unannounced
BY DEF Unannounced, Threads, TypeOK

-----------------------------------------------------------------------------
LEMMA InitInd == Init => IndInv
<1> SUFFICES ASSUME Init PROVE IndInv
  OBVIOUS
<1>1. Unannounced = {}
  BY DEF Init, Unannounced, Threads
<1>2. ItemsConserved
  BY <1>1, FS_EmptySet DEF Init, ItemsConserved
<1>3. TypeOK
  <2>1. waiting \in BOOLEAN
    BY Zenon DEF Init
  <2>2. pc \in [Threads -> {"start", "advance", "announce", "count", "wait", "check", "done"}]
    BY DEF Init
  <2>3. buff \in [Slots -> 0 .. MAXITEMS] /\ count \in [Producers -> Nat]
    BY ItemsAssumption DEF Init, Slots
  <2> QED BY <2>1, <2>2, <2>3, ItemsAssumption DEF Init, TypeOK
<1>5. PcOK /\ ValuesOK /\ ReturnOK /\ NeverWrong
  BY DEF Init, PcOK, ValuesOK, ReturnOK, NeverWrong, Slots, Threads
<1>4. MutexOK /\ FilledOK
  BY ThreadsAssumption DEF Init, MutexOK, FilledOK, Threads
<1> QED BY <1>2, <1>3, <1>4, <1>5 DEF IndInv

\* What is announced or about to be is in the array: the consumer's next slot
\* exists and is filled.
LEMMA CountersBound ==
  ASSUME IndInv
  PROVE  /\ i + uncheck <= buffIndex
         /\ uncheck > 0 => i < buffIndex /\ i \in Slots /\ buff[i] = i
<1>1. i + uncheck <= buffIndex
  BY UnannouncedFinite DEF IndInv, TypeOK, ItemsConserved
<1>2. uncheck > 0 => i < buffIndex /\ i \in Slots
  BY <1>1, ItemsAssumption DEF IndInv, TypeOK, Slots
<1> QED BY <1>1, <1>2 DEF IndInv, ValuesOK

-----------------------------------------------------------------------------
\* One lemma per action that changes more than a location.
LEMMA FillInd == ASSUME IndInv, NEW p \in Producers, Fill(p) PROVE IndInv'
<1> USE DEF IndInv
<1>1. TypeOK' /\ PcOK'
  BY ItemsAssumption, ThreadsAssumption DEF Fill, Goto, TypeOK, PcOK, Slots, Threads, condCtrl
<1>2. MutexOK' /\ ReturnOK'
  BY ThreadsAssumption DEF Fill, Goto, MutexOK, ReturnOK, TypeOK, Threads
<1>3. ValuesOK'
  BY DEF Fill, Goto, ValuesOK, TypeOK, Slots
<1>4. FilledOK'
  <2>1. \A q \in Producers : pc'[q] = "advance" => q = p
    BY ThreadsAssumption DEF Fill, Goto, MutexOK, TypeOK, Threads
  <2>2. buffIndex \in Slots /\ buff'[buffIndex] = buffIndex
    BY ItemsAssumption DEF Fill, ValuesOK, TypeOK, Slots
  <2> QED BY <2>1, <2>2 DEF Fill, FilledOK, Slots
<1>5. Unannounced' = Unannounced
  BY UnannouncedSame DEF Fill, Goto, TypeOK, Threads
<1>6. ItemsConserved' /\ NeverWrong'
  BY <1>5 DEF Fill, ItemsConserved, NeverWrong, condCtrl
<1> QED BY <1>1, <1>2, <1>3, <1>4, <1>6

LEMMA AdvanceInd == ASSUME IndInv, NEW p \in Producers, Advance(p) PROVE IndInv'
<1> USE DEF IndInv
<1>1. buffIndex < MAXITEMS /\ buff[buffIndex] = buffIndex
  BY DEF Advance, Goto, FilledOK
<1>2. TypeOK' /\ PcOK'
  BY <1>1, ItemsAssumption DEF Advance, Goto, TypeOK, PcOK, ValuesOK, Threads, condCtrl
<1>3. MutexOK' /\ \A q \in Producers : pc'[q] # "advance"
  BY ThreadsAssumption DEF Advance, Goto, MutexOK, TypeOK, Threads
<1>4. FilledOK' /\ ReturnOK'
  BY <1>3, ThreadsAssumption DEF Advance, Goto, FilledOK, ReturnOK, TypeOK, Threads
<1>5. ValuesOK'
  BY <1>1 DEF Advance, ValuesOK, TypeOK, Slots
<1>6. Cardinality(Unannounced') = Cardinality(Unannounced) + 1
  BY UnannouncedEnter DEF Advance, Goto, TypeOK
<1>7. ItemsConserved' /\ NeverWrong'
  BY <1>6, UnannouncedFinite DEF Advance, ItemsConserved, NeverWrong, TypeOK, condCtrl
<1> QED BY <1>2, <1>3, <1>4, <1>5, <1>7

LEMMA AnnounceInd == ASSUME IndInv, NEW p \in Producers, Announce(p) PROVE IndInv'
<1> USE DEF IndInv
<1>1. /\ Cardinality(Unannounced') = Cardinality(Unannounced) - 1
      /\ Cardinality(Unannounced') \in Nat
  BY UnannouncedLeave DEF Announce, Goto, TypeOK
<1>2. ItemsConserved' /\ uncheck' \in 0 .. MAXITEMS
  BY <1>1, UnannouncedFinite, ItemsAssumption
  DEF Announce, ItemsConserved, TypeOK, mutexCtrl
<1>3. TypeOK' /\ PcOK'
  BY <1>2 DEF Announce, Goto, TypeOK, PcOK, Threads, mutexCtrl
<1>4. MutexOK' /\ ValuesOK' /\ FilledOK' /\ NeverWrong'
  BY DEF Announce, Goto, MutexOK, ValuesOK, FilledOK, NeverWrong, TypeOK, Threads, mutexCtrl
<1>5. ReturnOK'
  BY ThreadsAssumption DEF Announce, Goto, ReturnOK, TypeOK, Threads
<1> QED BY <1>2, <1>3, <1>4, <1>5

LEMMA CheckItemInd == ASSUME IndInv, CheckItem PROVE IndInv'
<1> USE DEF IndInv
<1>1. ~Wrong /\ i < buffIndex
  BY CountersBound DEF CheckItem, Wrong
<1>2. /\ i' = i + 1 /\ uncheck' = uncheck - 1
      /\ UNCHANGED <<mutexCtrl, condOwner, waiting, pc, count, outcome>>
  BY <1>1 DEF CheckItem
<1>3. TypeOK'
  BY <1>1, <1>2, ItemsAssumption DEF CheckItem, TypeOK, mutexCtrl
<1>4. Unannounced' = Unannounced
  BY <1>2 DEF Unannounced
<1>5. ItemsConserved'
  BY <1>2, <1>4, UnannouncedFinite DEF ItemsConserved, TypeOK, mutexCtrl
<1>6. PcOK' /\ MutexOK' /\ ValuesOK' /\ FilledOK' /\ ReturnOK' /\ NeverWrong'
  BY <1>2 DEF CheckItem, PcOK, MutexOK, ValuesOK, FilledOK, ReturnOK, NeverWrong, mutexCtrl
<1> QED BY <1>3, <1>5, <1>6

\* The steps that change locations, the condition variable or the counts only.
LEMMA QuietInd ==
  ASSUME IndInv, UNCHANGED <<mutexCtrl, uncheck, i>>, NEW t \in Threads,
         NEW from \in {"start", "count", "wait", "check"}, NEW to, Goto(t, from, to),
         t \in Producers => to \in {"start", "count", "done"},
         t = Consumer => to \in {"start", "wait", "check", "done"},
         t = Consumer /\ to = "done" => i >= MAXITEMS,
         outcome' = outcome, condOwner' \in {Consumer, None}, waiting' \in BOOLEAN,
         count' \in [Producers -> Nat]
  PROVE  IndInv'
<1> USE DEF IndInv
<1>1. TypeOK' /\ PcOK'
  BY DEF Goto, TypeOK, PcOK, Threads, mutexCtrl
<1>2. MutexOK' /\ ValuesOK' /\ FilledOK' /\ NeverWrong'
  BY ThreadsAssumption
  DEF Goto, MutexOK, ValuesOK, FilledOK, NeverWrong, TypeOK, Threads, mutexCtrl
<1>3. Unannounced' = Unannounced
  BY UnannouncedSame DEF Goto, TypeOK
<1>4. ItemsConserved'
  BY <1>3 DEF ItemsConserved, mutexCtrl
<1>5. ReturnOK'
  BY ItemsAssumption DEF Goto, ReturnOK, TypeOK, Threads
<1> QED BY <1>1, <1>2, <1>4, <1>5

LEMMA NextInd == IndInv /\ [Next]_vars => IndInv'
<1> SUFFICES ASSUME IndInv, [Next]_vars PROVE IndInv'
  OBVIOUS
<1> USE DEF Threads, condCtrl
<1>0. TypeOK
  BY DEF IndInv
<1>1. ASSUME NEW p \in Producers, producer(p) PROVE IndInv'
  <2> p # Consumer
    BY ThreadsAssumption
  <2>1. CASE ReturnFull(p)
    <3>1. Goto(p, "start", "done")
      BY <2>1 DEF ReturnFull
    <3> QED BY <2>1, <3>1, <1>0, QuietInd DEF ReturnFull, TypeOK
  <2>2. CASE Fill(p)
    BY <2>2, FillInd
  <2>3. CASE Advance(p)
    BY <2>3, AdvanceInd
  <2>4. CASE Announce(p)
    BY <2>4, AnnounceInd
  <2>5. CASE Count(p)
    <3>1. Goto(p, "count", "start") /\ count' \in [Producers -> Nat]
      BY <2>5, <1>0 DEF Count, TypeOK
    <3> QED BY <2>5, <3>1, <1>0, QuietInd DEF Count, TypeOK
  <2> QED BY <1>1, <2>1, <2>2, <2>3, <2>4, <2>5 DEF producer
<1>2. ASSUME consumer PROVE IndInv'
  <2> Consumer \notin Producers
    BY ThreadsAssumption
  <2>1. CASE TestEmpty
    <3>1. Goto(Consumer, "start", "wait")
      BY <2>1 DEF TestEmpty
    <3> QED BY <2>1, <3>1, <1>0, QuietInd DEF TestEmpty, TypeOK
  <2>2. CASE CondWait
    <3>1. Goto(Consumer, "wait", "start")
      BY <2>2 DEF CondWait
    <3> QED BY <2>2, <3>1, <1>0, QuietInd DEF CondWait, TypeOK
  <2>3. CASE TestNonempty
    <3>1. Goto(Consumer, "start", "check")
      BY <2>3 DEF TestNonempty
    <3> QED BY <2>3, <3>1, <1>0, QuietInd DEF TestNonempty, TypeOK
  <2>4. CASE CheckItem
    BY <2>4, CheckItemInd
  <2>5. CASE ConsumerUnlock
    <3>1. Goto(Consumer, "check", "start")
      BY <2>5 DEF ConsumerUnlock
    <3> QED BY <2>5, <3>1, <1>0, QuietInd DEF ConsumerUnlock, TypeOK
  <2>6. CASE ConsumerReturn
    <3>1. Goto(Consumer, "start", "done")
      BY <2>6 DEF ConsumerReturn
    <3> QED BY <2>6, <3>1, <1>0, QuietInd DEF ConsumerReturn, TypeOK
  <2> QED BY <1>2, <2>1, <2>2, <2>3, <2>4, <2>5, <2>6 DEF consumer
<1>3. ASSUME SpuriousWakeup \/ MainExit \/ Terminated \/ UNCHANGED vars
      PROVE  IndInv'
  <2>1. /\ UNCHANGED <<mutexCtrl, uncheck, condOwner, i, pc, count>>
        /\ waiting' \in BOOLEAN
        /\ outcome' \in {outcome, "exit0"}
    BY <1>0, <1>3 DEF SpuriousWakeup, MainExit, Terminated, vars, TypeOK
  <2>2. TypeOK' /\ PcOK' /\ NeverWrong'
    BY <1>0, <2>1 DEF IndInv, TypeOK, PcOK, NeverWrong, mutexCtrl
  <2>3. MutexOK' /\ ValuesOK' /\ FilledOK' /\ ReturnOK'
    BY <2>1 DEF IndInv, MutexOK, ValuesOK, FilledOK, ReturnOK, mutexCtrl
  <2>4. Unannounced' = Unannounced
    BY <2>1 DEF Unannounced
  <2>5. ItemsConserved'
    BY <2>1, <2>4 DEF IndInv, ItemsConserved, mutexCtrl
  <2> QED BY <2>2, <2>3, <2>5 DEF IndInv
<1> QED BY <1>1, <1>2, <1>3 DEF Next

-----------------------------------------------------------------------------
LEMMA Invariance == Spec => []IndInv
BY InitInd, NextInd, PTL DEF Spec

\* The counters of MutexAndCond.c and the consumer's index never leave the
\* array, for any number of producers and items.
THEOREM TypeCorrect == Spec => []TypeOK
<1>1. IndInv => TypeOK
  BY DEF IndInv
<1> QED BY <1>1, Invariance, PTL

\* The consumer never finds a slot that is not filled with its own index: the
\* "Wrong in buffer" exit is dead code although it reads buff without its mutex.
THEOREM ConsumerNeverWrong == Spec => []NeverWrong
<1>1. IndInv => NeverWrong
  BY DEF IndInv
<1> QED BY <1>1, Invariance, PTL

\* Nothing stored is forgotten by, or announced twice to, the consumer.
THEOREM NothingLost == Spec => []ItemsConserved
<1>1. IndInv => ItemsConserved
  BY DEF IndInv
<1> QED BY <1>1, Invariance, PTL

-----------------------------------------------------------------------------
\* Every step of the threads is a step of the contract or none at all.
LEMMA StepRefines == IndInv /\ [Next]_vars => [Contract!Next]_(Contract!vars)
<1> SUFFICES ASSUME IndInv, [Next]_vars
             PROVE  Contract!Next \/ UNCHANGED <<buffIndex, i, outcome>>
  BY DEF Contract!vars
<1> USE DEF mutexCtrl
<1>1. ASSUME NEW p \in Producers, producer(p)
      PROVE  Contract!Produce \/ UNCHANGED <<buffIndex, i, outcome>>
  <2>1. CASE Advance(p)
    <3>1. buffIndex < MAXITEMS /\ i <= buffIndex
      BY <2>1, CountersBound DEF IndInv, FilledOK, TypeOK, Advance, Goto
    <3>2. buffIndex - i < MAXITEMS
      BY <3>1, ItemsAssumption DEF IndInv, TypeOK
    <3> QED BY <2>1, <3>1, <3>2 DEF Advance, Goto, Contract!Produce
  <2> QED BY <1>1, <2>1 DEF producer, ReturnFull, Fill, Announce, Count
<1>2. ASSUME consumer PROVE Contract!Consume \/ UNCHANGED <<buffIndex, i, outcome>>
  <2>1. CASE CheckItem
    BY <2>1, CountersBound DEF CheckItem, Wrong, Contract!Consume
  <2> QED BY <1>2, <2>1
          DEF consumer, TestEmpty, CondWait, TestNonempty, ConsumerUnlock, ConsumerReturn
<1>3. ASSUME MainExit PROVE Contract!Finish
  BY <1>3 DEF MainExit, Contract!Finish, IndInv, ReturnOK, Threads
<1>4. ASSUME SpuriousWakeup \/ Terminated \/ UNCHANGED vars
      PROVE  UNCHANGED <<buffIndex, i, outcome>>
  BY <1>4 DEF SpuriousWakeup, Terminated, vars
<1> QED BY <1>1, <1>2, <1>3, <1>4 DEF Next, Contract!Next

\* MutexAndCond.c hands over the items once each, in order, and exits only
\* after the last one: the safety part of ImplementsStream.
THEOREM RefinesStream == Spec => Contract!Safety
<1>1. Init => Contract!Init
  BY DEF Init, Contract!Init
<1> QED BY <1>1, StepRefines, Invariance, PTL DEF Spec, Contract!Safety

-----------------------------------------------------------------------------
(* EchoThread: the inductive invariant. *)

\* Nobody but main has the listening socket.
ListenApart == \A f \in Fds : file[f] = Listen => connectfd # f /\ \A t \in ServerThreads : sockfd[t] # f

\* Before accept there are no threads.
BeforeAccept == spc \in {"socket", "bind"} =>
                    /\ connectfd = -1 /\ backlog = <<>>
                    /\ \A t \in ServerThreads : tpc[t] = "none" /\ sockfd[t] = -1

\* Every client connects once, and has no thread before it is accepted.
WaitOK ==
    /\ \A j, k \in 1 .. Len(backlog) : backlog[j] = backlog[k] => j = k
    /\ \A k \in 1 .. Len(backlog) : tpc[backlog[k]] = "none" /\ cpc[backlog[k]] # "off"
    /\ \A c \in Clients : cpc[c] = "off" /\ ServerUp => tpc[c] = "none"

BaseOK == ThreadTypeOK /\ backlog \in Seq(Clients) /\ ListenApart /\ BeforeAccept

Active(t) == tpc[t] \in {"start", "call", "read", "write", "close"}

\* Every thread has the descriptor of its own connection, and nobody else does.
FdsOK ==
    /\ ServerUp
    /\ \A s \in Strays : tpc[s] = "none"
    /\ spc = "create" => connectfd \in Fds /\ file[connectfd] \in Clients /\ tpc[file[connectfd]] = "due"
    /\ \A c \in Clients : /\ tpc[c] = "due" => spc = "create" /\ file[connectfd] = c
                          /\ Active(c) => sockfd[c] \in Fds /\ file[sockfd[c]] = c
                          /\ tpc[c] = "read" => reading[c] = c
    /\ \A f \in Fds : file[f] \in Clients => \/ Active(file[f]) /\ sockfd[file[f]] = f
                                             \/ tpc[file[f]] = "due" /\ connectfd = f

\* All clients on the listen queue are alive, and the others are served.
QueueOK ==
    /\ \A k \in 1 .. Len(backlog) : cpc[backlog[k]] = "on"
    /\ \A c \in Clients : cpc[c] = "on" /\ tpc[c] = "none" => \E k \in 1 .. Len(backlog) : backlog[k] = c

Items == Clients \X Int

\* q holds the lines of c from e + 1 on and then z times the end
Run(c, q, e, z) == /\ Len(q) >= z
                   /\ \A k \in 1 .. Len(q) - z : q[k] = <<c, e + k>>
                   /\ z = 1 => q[Len(q)] = EOF(c)

\* The lines that client c has sent: shown, on their way back, with the thread, on their way up
Flow(c, p, d, zd, b, h, u, zu, n) ==
    /\ Run(c, p, 0, 0) /\ Run(c, d, Len(p), zd) /\ Run(c, u, Len(p) + Len(d) - zd + h, zu)
    /\ h = 1 => b = <<c, Len(p) + Len(d) - zd + 1>>
    /\ Len(p) + Len(d) - zd + h + Len(u) - zu = n

One(b) == IF b THEN 1 ELSE 0

\* A client in state cl, its thread at th, and what is on its way between them.
StateOK(c, cl, th, n, s, p, d, b, u) ==
    /\ cl \in {"off", "refused", "on", "exit0"}
    /\ cl \in {"off", "refused"} => th = "none" /\ n = 0 /\ ~s /\ p = <<>> /\ u = <<>> /\ d = <<>>
    /\ s => n = Lines
    /\ cl = "on" /\ th # "done" => Flow(c, p, d, 0, b, One(th = "write"), u, One(s), n)
    /\ th = "close" => s /\ u = <<EOF(c)>>
    /\ cl = "on" /\ th = "done" => s /\ u = <<>> /\ Flow(c, p, d, 1, b, 0, u, 0, Lines)
    /\ cl = "exit0" => th = "done" /\ Run(c, p, 0, 0) /\ Len(p) = Lines

ClientOK(c) == StateOK(c, cpc[c], tpc[c], typed[c], shut[c], printed[c], down[c], buffer[c], up[c])

DataOK == /\ printed \in [Clients -> Seq(Items)] /\ down \in [Clients -> Seq(Items)]
          /\ up \in [Clients -> Seq(Items)]
          /\ buffer \in [ServerThreads -> Items \cup {<<>>}]

Calm == ~raced /\ faults = {}
CalmOK == FdsOK /\ DataOK /\ QueueOK /\ \A c \in Clients : ClientOK(c)

ThreadInv == BaseOK /\ WaitOK /\ (Calm => CalmOK)

-----------------------------------------------------------------------------
(* Sequences of lines *)

\* The three kinds of items are told apart.
LEMMA ItemFacts ==
  ASSUME NEW c \in Clients
  PROVE  /\ \A k \in Int : <<c, k>> \in Items /\ (IsLine(<<c, k>>) <=> k > 0)
         /\ EOF(c) \in Items /\ ~IsLine(EOF(c)) /\ RST(c) # EOF(c) /\ ~IsLine(RST(c))
BY DEF Items, IsLine, EOF, RST

\* What Append, Head and Tail do to a sequence of items.
LEMMA SeqFacts ==
  ASSUME NEW q \in Seq(Items)
  PROVE  /\ Len(q) \in Nat /\ (q = <<>> <=> Len(q) = 0)
         /\ \A x \in Items : /\ Append(q, x) \in Seq(Items) /\ Len(Append(q, x)) = Len(q) + 1
                             /\ \A k \in 1 .. Len(q) + 1 : Append(q, x)[k] = IF k <= Len(q) THEN q[k] ELSE x
         /\ q # <<>> => /\ Tail(q) \in Seq(Items) /\ Len(Tail(q)) = Len(q) - 1 /\ Head(q) = q[1]
                        /\ Head(q) \in Items
                        /\ \A k \in 1 .. Len(q) - 1 : Tail(q)[k] = q[k + 1]
<1>1. Len(q) \in Nat /\ (q = <<>> <=> Len(q) = 0)
  BY EmptySeq
<1>2. \A x \in Items : /\ Append(q, x) \in Seq(Items) /\ Len(Append(q, x)) = Len(q) + 1
                       /\ \A k \in 1 .. Len(q) + 1 : Append(q, x)[k] = IF k <= Len(q) THEN q[k] ELSE x
  OBVIOUS
<1>3. q # <<>> => /\ Tail(q) \in Seq(Items) /\ Len(Tail(q)) = Len(q) - 1 /\ Head(q) = q[1]
                  /\ Head(q) \in Items
                  /\ \A k \in 1 .. Len(q) - 1 : Tail(q)[k] = q[k + 1]
  BY HeadTailProperties
<1> QED BY <1>1, <1>2, <1>3

\* A run grows at its end, by a line or by the end of the input, and shrinks at
\* its head, which tells a line from the end.
LEMMA RunNil ==
  ASSUME NEW c, NEW e
  PROVE  Run(c, <<>>, e, 0)
BY EmptySeq DEF Run

LEMMA RunLine ==
  ASSUME NEW c \in Clients, NEW q \in Seq(Items), NEW e \in Nat, Run(c, q, e, 0)
  PROVE  Run(c, Append(q, <<c, e + Len(q) + 1>>), e, 0)
<1> DEFINE x == <<c, e + Len(q) + 1>>
           r == Append(q, x)
<1>1. x \in Items
  BY SeqFacts, ItemFacts
<1>2. /\ Len(q) \in Nat /\ Len(r) = Len(q) + 1
      /\ \A k \in 1 .. Len(q) + 1 : r[k] = IF k <= Len(q) THEN q[k] ELSE x
  BY <1>1, SeqFacts
<1> HIDE DEF r
<1>3. ASSUME NEW k \in 1 .. Len(r) - 0 PROVE r[k] = <<c, e + k>>
  <2>1. CASE k <= Len(q)
    <3>1. k \in 1 .. Len(q) - 0
      BY <1>2, <2>1
    <3> QED BY <1>2, <2>1, <3>1 DEF Run
  <2>2. CASE k = Len(q) + 1
    BY <1>2, <2>2
  <2> QED BY <1>2, <2>1, <2>2
<1> QED BY <1>2, <1>3 DEF Run, r

LEMMA RunEnd ==
  ASSUME NEW c \in Clients, NEW q \in Seq(Items), NEW e \in Nat, Run(c, q, e, 0)
  PROVE  Run(c, Append(q, EOF(c)), e, 1)
<1> DEFINE r == Append(q, EOF(c))
<1>2. /\ Len(q) \in Nat /\ Len(r) = Len(q) + 1
      /\ \A k \in 1 .. Len(q) + 1 : r[k] = IF k <= Len(q) THEN q[k] ELSE EOF(c)
  BY ItemFacts, SeqFacts
<1> HIDE DEF r
<1>3. ASSUME NEW k \in 1 .. Len(r) - 1 PROVE r[k] = <<c, e + k>>
  <2>1. k \in 1 .. Len(q) - 0 /\ k <= Len(q)
    BY <1>2
  <2> QED BY <1>2, <2>1 DEF Run
<1>4. r[Len(r)] = EOF(c) /\ Len(r) >= 1
  BY <1>2
<1> QED BY <1>3, <1>4 DEF Run, r

LEMMA RunTail ==
  ASSUME NEW c \in Clients, NEW q \in Seq(Items), NEW e \in Nat, NEW z \in 0 .. 1, Run(c, q, e, z), Len(q) > z
  PROVE  q # <<>> /\ Head(q) = <<c, e + 1>> /\ Run(c, Tail(q), e + 1, z)
<1>1. Len(q) \in Nat /\ q # <<>>
  BY SeqFacts
<1> DEFINE r == Tail(q)
<1>2. /\ Len(r) = Len(q) - 1 /\ Head(q) = q[1]
      /\ \A k \in 1 .. Len(q) - 1 : r[k] = q[k + 1]
  BY <1>1, SeqFacts
<1> HIDE DEF r
<1>3. 1 \in 1 .. Len(q) - z
  BY <1>1
<1>4. Head(q) = <<c, e + 1>>
  BY <1>2, <1>3 DEF Run
<1>5. ASSUME NEW k \in 1 .. Len(r) - z PROVE r[k] = <<c, e + 1 + k>>
  <2>1. k \in 1 .. Len(q) - 1 /\ k + 1 \in 1 .. Len(q) - z
    BY <1>1, <1>2
  <2>2. r[k] = q[k + 1] /\ q[k + 1] = <<c, e + (k + 1)>>
    BY <1>2, <2>1 DEF Run
  <2> QED BY <2>2
<1>6. Len(r) >= z /\ (z = 1 => r[Len(r)] = EOF(c))
  <2>1. Len(r) >= z
    BY <1>1, <1>2
  <2>2. ASSUME z = 1 PROVE r[Len(r)] = EOF(c)
    <3>1. Len(r) \in 1 .. Len(q) - 1 /\ Len(r) + 1 = Len(q)
      BY <1>1, <1>2, <2>2
    <3> QED BY <1>2, <2>2, <3>1 DEF Run
  <2> QED BY <2>1, <2>2
<1> QED BY <1>1, <1>4, <1>5, <1>6 DEF Run, r

LEMMA RunHead ==
  ASSUME NEW c \in Clients, NEW q \in Seq(Items), NEW e \in Nat, NEW z \in 0 .. 1, Run(c, q, e, z), q # <<>>
  PROVE  /\ IsLine(Head(q)) <=> Len(q) > z
         /\ ~IsLine(Head(q)) => z = 1 /\ Len(q) = 1 /\ Head(q) = EOF(c)
<1>1. Len(q) \in Nat /\ Len(q) # 0 /\ Head(q) = q[1] /\ Len(q) >= z
  BY SeqFacts DEF Run
<1>2. CASE Len(q) > z
  <2>1. Head(q) = <<c, e + 1>> /\ e + 1 \in Int /\ e + 1 > 0
    BY <1>2, RunTail
  <2> QED BY <1>2, <2>1, ItemFacts
<1>3. CASE ~(Len(q) > z)
  <2>1. z = 1 /\ Len(q) = 1
    BY <1>1, <1>3
  <2>2. Head(q) = EOF(c)
    BY <1>1, <2>1 DEF Run
  <2> QED BY <1>3, <2>1, <2>2, ItemFacts
<1> QED BY <1>2, <1>3

-----------------------------------------------------------------------------
\* The lines of a client move on from one stretch of their way to the next, and
\* none is lost: at the start, sent, shown, read by the thread, written back,
\* and after the close.
LEMMA FlowNil ==
  ASSUME NEW c, NEW b
  PROVE  Flow(c, <<>>, <<>>, 0, b, 0, <<>>, 0, 0)
<1>1. Len(<<>>) = 0
  BY EmptySeq
<1>2. Run(c, <<>>, 0, 0) /\ Run(c, <<>>, Len(<<>>), 0) /\ Run(c, <<>>, Len(<<>>) + Len(<<>>) - 0 + 0, 0)
  BY RunNil
<1>3. Len(<<>>) + Len(<<>>) - 0 + 0 + Len(<<>>) - 0 = 0
  BY <1>1
<1> QED BY <1>2, <1>3 DEF Flow

LEMMA FlowSend ==
  ASSUME NEW c \in Clients, NEW p \in Seq(Items), NEW d \in Seq(Items), NEW u \in Seq(Items), NEW b,
         NEW h \in 0 .. 1, NEW n \in Nat, Flow(c, p, d, 0, b, h, u, 0, n)
  PROVE  /\ Flow(c, p, d, 0, b, h, Append(u, <<c, n + 1>>), 0, n + 1)
         /\ Flow(c, p, d, 0, b, h, Append(u, EOF(c)), 1, n)
<1>1. Len(p) \in Nat /\ Len(d) \in Nat /\ Len(u) \in Nat
  BY SeqFacts
<1> DEFINE e == Len(p) + Len(d) - 0 + h
<1>2. e \in Nat /\ e + Len(u) - 0 = n
  BY <1>1 DEF Flow
<1>3. Run(c, u, e, 0)
  BY DEF Flow
<1>4. /\ Len(Append(u, <<c, n + 1>>)) = Len(u) + 1 /\ Len(Append(u, EOF(c))) = Len(u) + 1
  <2>1. <<c, n + 1>> \in Items /\ EOF(c) \in Items
    BY ItemFacts
  <2> QED BY <2>1, SeqFacts
<1> HIDE DEF e
<1>5. e + Len(u) + 1 = n + 1
  BY <1>1, <1>2
<1>6. Run(c, Append(u, <<c, n + 1>>), e, 0)
  <2>1. Run(c, Append(u, <<c, e + Len(u) + 1>>), e, 0)
    BY <1>2, <1>3, RunLine
  <2> QED BY <2>1, <1>5
<1>7. Run(c, Append(u, EOF(c)), e, 1)
  BY <1>2, <1>3, RunEnd
<1>8. e + (Len(u) + 1) - 0 = n + 1 /\ e + (Len(u) + 1) - 1 = n
  BY <1>1, <1>2
<1>9. e + Len(Append(u, <<c, n + 1>>)) - 0 = n + 1 /\ e + Len(Append(u, EOF(c))) - 1 = n
  BY <1>4, <1>8
<1> QED BY <1>6, <1>7, <1>9 DEF Flow, e

LEMMA FlowShow ==
  ASSUME NEW c \in Clients, NEW p \in Seq(Items), NEW d \in Seq(Items), NEW u \in Seq(Items), NEW b,
         NEW h \in 0 .. 1, NEW zd \in 0 .. 1, NEW zu \in 0 .. 1, NEW n \in Nat,
         Flow(c, p, d, zd, b, h, u, zu, n), Len(d) > zd
  PROVE  Flow(c, Append(p, Head(d)), Tail(d), zd, b, h, u, zu, n)
<1>1. Len(p) \in Nat /\ Len(d) \in Nat /\ Len(u) \in Nat /\ d # <<>>
  BY SeqFacts
<1> DEFINE q == Append(p, Head(d))
           r == Tail(d)
<1>2. Head(d) = <<c, Len(p) + 1>> /\ Run(c, r, Len(p) + 1, zd)
  BY <1>1, RunTail DEF Flow
<1>3. Len(q) = Len(p) + 1 /\ Len(r) = Len(d) - 1
  <2>1. Head(d) \in Items /\ Len(r) = Len(d) - 1
    BY <1>1, SeqFacts
  <2> QED BY <2>1, SeqFacts
<1>4. Run(c, q, 0, 0)
  <2>1. Run(c, Append(p, <<c, 0 + Len(p) + 1>>), 0, 0)
    BY RunLine DEF Flow
  <2>2. 0 + Len(p) + 1 = Len(p) + 1
    BY <1>1
  <2> QED BY <1>2, <2>1, <2>2
<1> HIDE DEF q, r
<1>5. Len(q) + Len(r) - zd = Len(p) + Len(d) - zd
  BY <1>1, <1>3
<1>6. Run(c, r, Len(q), zd)
  BY <1>2, <1>3
<1> QED BY <1>4, <1>5, <1>6 DEF Flow, q, r

LEMMA FlowRead ==
  ASSUME NEW c \in Clients, NEW p \in Seq(Items), NEW d \in Seq(Items), NEW u \in Seq(Items), NEW b,
         NEW zu \in 0 .. 1, NEW n \in Nat, Flow(c, p, d, 0, b, 0, u, zu, n), Len(u) > zu
  PROVE  Flow(c, p, d, 0, Head(u), 1, Tail(u), zu, n)
<1>1. Len(p) \in Nat /\ Len(d) \in Nat /\ Len(u) \in Nat /\ u # <<>>
  BY SeqFacts
<1> DEFINE r == Tail(u)
           e == Len(p) + Len(d) - 0 + 0
<1>2. e \in Nat /\ e = Len(p) + Len(d) - 0 /\ e + 1 = Len(p) + Len(d) - 0 + 1
  BY <1>1
<1>3. Run(c, u, e, zu)
  BY DEF Flow
<1>4. Len(r) = Len(u) - 1
  BY <1>1, SeqFacts
<1>8. e + Len(u) - zu = n
  BY DEF Flow
<1> HIDE DEF e, r
<1>5. Head(u) = <<c, e + 1>> /\ Run(c, r, e + 1, zu)
  BY <1>2, <1>3, RunTail DEF r
<1>6. e + 1 + Len(r) - zu = n
  <2>1. \A a, l, m \in Int : m = l - 1 /\ a + l - zu = n => a + 1 + m - zu = n
    OBVIOUS
  <2>2. Len(u) \in Int /\ Len(r) \in Int /\ e \in Int
    BY <1>1, <1>2, <1>4
  <2> QED BY <1>4, <1>8, <2>1, <2>2
<1>7. Run(c, r, Len(p) + Len(d) - 0 + 1, zu) /\ Head(u) = <<c, Len(p) + Len(d) - 0 + 1>>
      /\ Len(p) + Len(d) - 0 + 1 + Len(r) - zu = n
  BY <1>2, <1>5, <1>6
<1> QED BY <1>7 DEF Flow, r

LEMMA FlowWrite ==
  ASSUME NEW c \in Clients, NEW p \in Seq(Items), NEW d \in Seq(Items), NEW u \in Seq(Items), NEW b,
         NEW zu \in 0 .. 1, NEW n \in Nat, NEW x, Flow(c, p, d, 0, b, 1, u, zu, n)
  PROVE  b \in Items /\ Flow(c, p, Append(d, b), 0, x, 0, u, zu, n)
<1>1. Len(p) \in Nat /\ Len(d) \in Nat /\ Len(u) \in Nat
  BY SeqFacts
<1>2. b = <<c, Len(p) + Len(d) - 0 + 1>> /\ Len(p) + Len(d) - 0 + 1 = Len(p) + Len(d) + 1
  BY <1>1 DEF Flow
<1>3. b \in Items
  BY <1>1, <1>2, ItemFacts
<1> DEFINE r == Append(d, b)
<1>4. Len(r) = Len(d) + 1
  BY <1>3, SeqFacts
<1>5. Run(c, r, Len(p), 0)
  <2>1. Run(c, d, Len(p), 0)
    BY DEF Flow
  <2> QED BY <1>1, <1>2, <2>1, RunLine
<1> HIDE DEF r
<1>6. Len(p) + Len(r) - 0 + 0 = Len(p) + Len(d) - 0 + 1
  BY <1>1, <1>4
<1> QED BY <1>3, <1>5, <1>6 DEF Flow, r

LEMMA FlowClose ==
  ASSUME NEW c \in Clients, NEW p \in Seq(Items), NEW d \in Seq(Items), NEW b, NEW x, NEW n \in Nat,
         Flow(c, p, d, 0, b, 0, <<EOF(c)>>, 1, n)
  PROVE  Flow(c, p, Append(d, EOF(c)), 1, x, 0, <<>>, 0, n)
<1>1. Len(p) \in Nat /\ Len(d) \in Nat /\ Len(<<EOF(c)>>) = 1 /\ Len(<<>>) = 0
  BY SeqFacts, EmptySeq
<1> DEFINE r == Append(d, EOF(c))
<1>2. Run(c, r, Len(p), 1)
  BY <1>1, RunEnd DEF Flow
<1>3. Len(r) = Len(d) + 1
  BY SeqFacts, ItemFacts
<1>4. Run(c, <<>>, Len(p) + Len(r) - 1 + 0, 0)
  BY RunNil
<1> HIDE DEF r
<1>5. Len(p) + Len(d) - 0 + 0 + 1 - 1 = n
  BY <1>1 DEF Flow
<1>6. Len(p) + Len(r) - 1 + 0 + Len(<<>>) - 0 = n
  BY <1>1, <1>3, <1>5
<1>7. Run(c, p, 0, 0)
  BY DEF Flow
<1> QED BY <1>2, <1>4, <1>6, <1>7 DEF Flow, r

-----------------------------------------------------------------------------
(* What holds whatever happens *)

\* A set of numbers has a least element (by the well-founded order of Nat).
LEMMA MinFact ==
  ASSUME NEW S, S \subseteq Nat, S # {}
  PROVE  Min(S) \in S /\ \A y \in S : Min(S) <= y
<1> DEFINE R == OpToRel(<, Nat)
<1>1. IsWellFoundedOn(R, Nat) BY NatLessThanWellFounded
<1>2. \A p \in Nat \X Nat : p[1] < p[2] => p \in R
  BY DEF OpToRel
<1> HIDE DEF R
<1>3. PICK x \in S : \A y \in S : ~ (<<y, x>> \in R)
  BY <1>1, WFMin, Zenon
<1>4. \A y \in S : x <= y
  <2> SUFFICES ASSUME NEW y \in S PROVE x <= y OBVIOUS
  <2>1. <<y, x>> \in Nat \X Nat OBVIOUS
  <2>2. ~ (y < x) BY <1>2, <1>3, <2>1
  <2> QED BY <2>2
<1> QED BY <1>4, Zenon DEF Min

\* The lowest free descriptor is one, and free.
LEMMA LowestFree ==
  ASSUME Free # {}
  PROVE  Min(Free) \in Fds /\ file[Min(Free)] = NoSocket
<1>1. Free \subseteq Fds /\ Fds \subseteq Nat
  BY FdsAssumption DEF Free, Fds
<1>2. Min(Free) \in Free
  BY <1>1, MinFact
<1> QED BY <1>2 DEF Free

\* The names are apart.
LEMMA Names ==
  /\ Listen # NoSocket /\ Listen \notin Clients /\ NoSocket \notin Clients /\ -1 \notin Fds
  /\ \A c \in Clients : c # NoSocket /\ c # Listen /\ c \in ServerThreads /\ c \notin Strays
  /\ \A s \in Strays : s \in ServerThreads /\ s \notin Clients
  /\ \A t \in ServerThreads : t \in Clients \/ t \in Strays
BY NamesAssumption, FdsAssumption DEF ServerThreads, Fds

\* A client's step leaves the server's part of the base alone.
LEMMA BaseClient ==
  ASSUME BaseOK, NEW c \in Clients,
         connect(c) \/ ConnectRefused(c) \/ copyto(c) \/ receive(c) \/ KillClient(c)
  PROVE  BaseOK'
<1>1. /\ UNCHANGED <<mainVars, threadVars, file, raced>>
      /\ cpc' \in [Clients -> {"off", "on", "exit0", "failed", "refused", "killed"}]
  <2>1. \E to \in {"on", "exit0", "failed", "refused", "killed"},
        from \in {"off", "on"} : ClientGoto(c, from, to)
    BY DEF connect, ConnectRefused, copyto, receive, SendLine, SendFails, Shutdown, ShowEcho, ServerClosed,
       KillClient
  <2> QED BY <2>1 DEF ClientGoto, BaseOK, ThreadTypeOK
<1>2. typed' \in [Clients -> 0 .. Lines]
  <2>1. typed' = typed \/ (typed[c] < Lines /\ typed' = [typed EXCEPT ![c] = @ + 1])
    BY DEF connect, ConnectRefused, copyto, receive, SendLine, SendFails, Shutdown, ShowEcho, ServerClosed,
       KillClient
  <2>2. typed \in [Clients -> 0 .. Lines] /\ Lines \in Nat
    BY SizesAssumption DEF BaseOK, ThreadTypeOK
  <2>3. ASSUME typed[c] < Lines PROVE typed[c] + 1 \in 0 .. Lines
    BY <2>2, <2>3
  <2> QED BY <2>1, <2>2, <2>3
<1>3. shut' \in [Clients -> BOOLEAN]
  <2>1. shut' = shut \/ shut' = [shut EXCEPT ![c] = TRUE]
    BY DEF connect, ConnectRefused, copyto, receive, SendLine, SendFails, Shutdown, ShowEcho, ServerClosed,
       KillClient
  <2>2. shut \in [Clients -> BOOLEAN]
    BY DEF BaseOK, ThreadTypeOK
  <2> QED BY <2>1, <2>2, Zenon
<1>4. faults' \subseteq Clients \cup {Listen}
  <2>1. faults' = faults \/ faults' = faults \cup {c}
    BY DEF connect, ConnectRefused, copyto, receive, SendLine, SendFails, Shutdown, ShowEcho, ServerClosed,
       KillClient, Fault
  <2> QED BY <2>1 DEF BaseOK, ThreadTypeOK
<1>5. backlog' \in Seq(Clients) /\ (spc \in {"socket", "bind"} => backlog' = backlog)
  <2>1. backlog' = backlog \/ (Listening /\ backlog' = Append(backlog, c))
    BY DEF connect, ConnectRefused, copyto, receive, SendLine, SendFails, Shutdown, ShowEcho, ServerClosed,
       KillClient
  <2> QED BY <2>1 DEF BaseOK, Listening
<1>6. /\ spc' \in {"socket", "bind", "accept", "create", "gone"} /\ taken' \in BOOLEAN
      /\ connectfd' \in Fds \cup {-1} /\ file' \in [Fds -> Clients \cup {Listen, NoSocket}]
      /\ tpc' \in [ServerThreads -> {"none", "due", "start", "call", "read", "write", "close", "done"}]
      /\ sockfd' \in [ServerThreads -> Fds \cup {-1}]
      /\ reading' \in [ServerThreads -> Clients \cup {NoSocket}]
      /\ \A t \in ServerThreads : (tpc'[t] = "read") = (reading'[t] # NoSocket)
      /\ raced' \in BOOLEAN
  BY <1>1 DEF BaseOK, ThreadTypeOK, mainVars, threadVars
<1>7. ListenApart' /\ BeforeAccept'
  BY <1>1, <1>5 DEF BaseOK, ListenApart, BeforeAccept, mainVars, threadVars
<1> QED BY <1>1, <1>2, <1>3, <1>4, <1>5, <1>6, <1>7 DEF BaseOK, ThreadTypeOK

\* The part of the types that clients do not share.
LEMMA BaseServer ==
  ASSUME BaseOK, UNCHANGED clientVars,
         spc' \in {"socket", "bind", "accept", "create", "gone"}, taken' \in BOOLEAN,
         connectfd' \in Fds \cup {-1}, file' \in [Fds -> Clients \cup {Listen, NoSocket}],
         tpc' \in [ServerThreads -> {"none", "due", "start", "call", "read", "write", "close", "done"}],
         sockfd' \in [ServerThreads -> Fds \cup {-1}],
           reading' \in [ServerThreads -> Clients \cup {NoSocket}],
         \A t \in ServerThreads : (tpc'[t] = "read") = (reading'[t] # NoSocket),
         raced' \in BOOLEAN, faults' \subseteq Clients \cup {Listen},
         backlog' \in Seq(Clients), ListenApart', BeforeAccept'
  PROVE  BaseOK'
<1>1. /\ cpc' \in [Clients -> {"off", "on", "exit0", "failed", "refused", "killed"}]
      /\ typed' \in [Clients -> 0 .. Lines] /\ shut' \in [Clients -> BOOLEAN]
  BY DEF BaseOK, ThreadTypeOK, clientVars
<1> QED BY <1>1 DEF BaseOK, ThreadTypeOK

\* When the server ends, all it had goes.
LEMMA BaseEnds == ASSUME BaseOK, ServerEnds, faults' \subseteq Clients \cup {Listen} PROVE BaseOK'
<1>1. /\ spc' = "gone" /\ file' = [f \in Fds |-> NoSocket] /\ backlog' = <<>> /\ connectfd' = -1
      /\ tpc' = [t \in ServerThreads |-> "done"] /\ sockfd' = [t \in ServerThreads |-> -1]
      /\ reading' = [t \in ServerThreads |-> NoSocket] /\ UNCHANGED clientVars /\ taken' = taken
      /\ raced' = raced
  BY DEF ServerEnds
<1>2. raced' \in BOOLEAN /\ taken' \in BOOLEAN
  BY <1>1, Zenon DEF BaseOK, ThreadTypeOK
<1>3. ListenApart' /\ BeforeAccept' /\ backlog' \in Seq(Clients)
  BY <1>1, Names DEF ListenApart, BeforeAccept
<1> QED BY <1>1, <1>2, <1>3, BaseServer

\* The steps of main keep the base.
LEMMA BaseMain == ASSUME BaseOK, WaitOK, main \/ AcceptFails \/ KillServer \/ PortFreed PROVE BaseOK'
<1> USE DEF mainVars, threadVars
<1>0. /\ taken \in BOOLEAN /\ raced \in BOOLEAN /\ faults \subseteq Clients \cup {Listen}
      /\ backlog \in Seq(Clients)
      /\ file \in [Fds -> Clients \cup {Listen, NoSocket}] /\ connectfd \in Fds \cup {-1}
      /\ tpc \in [ServerThreads -> {"none", "due", "start", "call", "read", "write", "close", "done"}]
      /\ sockfd \in [ServerThreads -> Fds \cup {-1}] /\ reading \in [ServerThreads -> Clients \cup {NoSocket}]
      /\ \A t \in ServerThreads : (tpc[t] = "read") = (reading[t] # NoSocket)
      /\ spc \in {"socket", "bind", "accept", "create", "gone"}
      /\ ListenApart /\ BeforeAccept
  BY DEF BaseOK, ThreadTypeOK
<1>1. CASE socket
  <2>1. /\ UNCHANGED <<clientVars, sockfd, reading, raced, connectfd, taken, tpc, backlog, faults>>
        /\ spc = "socket" /\ spc' = "bind" /\ Free # {} /\ file' = [file EXCEPT ![Min(Free)] = Listen]
    BY <1>1 DEF socket, MainGoto
  <2>2. ListenApart' /\ BeforeAccept'
    BY <1>0, <2>1, Names, LowestFree DEF ListenApart, BeforeAccept
  <2>3. file' \in [Fds -> Clients \cup {Listen, NoSocket}]
    BY <1>0, <2>1, LowestFree
  <2> QED BY <1>0, <2>1, <2>2, <2>3, BaseServer
<1>2. CASE BindFails
  <2>1. /\ UNCHANGED <<clientVars, sockfd, reading, raced, connectfd, taken, tpc, backlog, faults>>
        /\ spc = "bind" /\ spc' = "socket" /\ file' = [f \in Fds |-> NoSocket]
    BY <1>2 DEF BindFails, MainGoto
  <2>2. ListenApart' /\ BeforeAccept'
    BY <1>0, <2>1, Names DEF ListenApart, BeforeAccept
  <2> QED BY <1>0, <2>1, <2>2, BaseServer
<1>3. CASE bind
  <2>1. /\ UNCHANGED <<clientVars, sockfd, reading, raced, connectfd, taken, tpc, backlog, faults, file>>
        /\ spc = "bind" /\ spc' = "accept"
    BY <1>3 DEF bind, MainGoto
  <2>2. ListenApart' /\ BeforeAccept'
    BY <1>0, <2>1 DEF ListenApart, BeforeAccept
  <2> QED BY <1>0, <2>1, <2>2, BaseServer
<1>4. CASE accept
  <2>1. /\ UNCHANGED <<clientVars, sockfd, reading, raced, taken, faults>>
        /\ spc = "accept" /\ spc' = "create" /\ Free # {} /\ backlog # <<>> /\ connectfd' = Min(Free)
        /\ file' = [file EXCEPT ![Min(Free)] = Head(backlog)]
        /\ tpc' = [tpc EXCEPT ![Head(backlog)] = "due"] /\ backlog' = Tail(backlog)
    BY <1>4 DEF accept, MainGoto
  <2>2. Head(backlog) \in Clients /\ backlog' \in Seq(Clients)
    BY <1>0, <2>1, HeadTailProperties
  <2>3. ListenApart' /\ BeforeAccept'
    BY <1>0, <2>1, <2>2, Names, LowestFree DEF ListenApart, BeforeAccept
  <2>4. file' \in [Fds -> Clients \cup {Listen, NoSocket}] /\ connectfd' \in Fds
    BY <1>0, <2>1, <2>2, LowestFree
  <2>6. tpc[Head(backlog)] = "none"
    BY <1>0, <2>1, HeadTailProperties DEF WaitOK
  <2>5. \A t \in ServerThreads : (tpc'[t] = "read") = (reading'[t] # NoSocket)
    BY <1>0, <2>1, <2>2, <2>6, Names
  <2> QED BY <1>0, <2>1, <2>2, <2>3, <2>4, <2>5, BaseServer
<1>5. CASE pthread_create
  <2>1. PICK t \in ServerThreads :
          /\ UNCHANGED <<clientVars, reading, raced, connectfd, taken, backlog, faults, file>>
          /\ spc = "create" /\ spc' = "accept" /\ tpc[t] = "due"
          /\ tpc' = [tpc EXCEPT ![t] = "start"] /\ sockfd' = [sockfd EXCEPT ![t] = connectfd]
    BY <1>5 DEF pthread_create, StartThread
  <2>2. ListenApart' /\ BeforeAccept'
    BY <1>0, <2>1 DEF ListenApart, BeforeAccept
  <2> QED BY <1>0, <2>1, <2>2, BaseServer
<1>6. CASE AcceptFails
  <2>1. PICK s \in Strays :
          /\ UNCHANGED <<clientVars, reading, raced, sockfd, taken, backlog, file>>
          /\ spc = "accept" /\ spc' = "create" /\ tpc[s] = "none"
          /\ tpc' = [tpc EXCEPT ![s] = "due"] /\ connectfd' = -1
          /\ faults' = faults \cup {Listen}
    BY <1>6 DEF AcceptFails, MainGoto, Fault
  <2>2. ListenApart' /\ BeforeAccept'
    BY <1>0, <2>1, Names DEF ListenApart, BeforeAccept
  <2>3. s \in ServerThreads
    BY Names
  <2> QED BY <1>0, <2>1, <2>2, <2>3, BaseServer
<1>7. CASE KillServer
  BY <1>0, <1>7, BaseEnds DEF KillServer, Fault
<1>8. CASE PortFreed
  <2>1. /\ UNCHANGED <<clientVars, spc, connectfd, threadVars, backlog, file, raced, faults>>
        /\ taken' = FALSE
    BY <1>8 DEF PortFreed
  <2>2. ListenApart' /\ BeforeAccept'
    BY <1>0, <2>1 DEF ListenApart, BeforeAccept
  <2> QED BY <1>0, <2>1, <2>2, BaseServer
<1> QED BY <1>1, <1>2, <1>3, <1>4, <1>5, <1>6, <1>7, <1>8 DEF main

\* The steps of a thread keep the base, even when it uses the descriptor of
\* another connection.
LEMMA BaseThread == ASSUME BaseOK, NEW t \in ServerThreads, str_serv(t) PROVE BaseOK'
<1> USE DEF mainVars
<1>0. /\ taken \in BOOLEAN /\ raced \in BOOLEAN /\ faults \subseteq Clients \cup {Listen}
      /\ backlog \in Seq(Clients)
      /\ file \in [Fds -> Clients \cup {Listen, NoSocket}] /\ connectfd \in Fds \cup {-1}
      /\ tpc \in [ServerThreads -> {"none", "due", "start", "call", "read", "write", "close", "done"}]
      /\ sockfd \in [ServerThreads -> Fds \cup {-1}] /\ reading \in [ServerThreads -> Clients \cup {NoSocket}]
      /\ \A s \in ServerThreads : (tpc[s] = "read") = (reading[s] # NoSocket)
      /\ spc \in {"socket", "bind", "accept", "create", "gone"}
      /\ ListenApart /\ BeforeAccept
  BY DEF BaseOK, ThreadTypeOK
<1>1. CASE CopyFd(t)
  <2>1. /\ UNCHANGED <<clientVars, mainVars, backlog, faults, file, reading>> /\ tpc[t] = "start"
        /\ tpc' = [tpc EXCEPT ![t] = "call"] /\ sockfd' = [sockfd EXCEPT ![t] = connectfd]
        /\ raced' = (raced \/ connectfd # sockfd[t])
    BY <1>1 DEF CopyFd, ThreadGoto
  <2>2. ListenApart' /\ BeforeAccept'
    BY <1>0, <2>1 DEF ListenApart, BeforeAccept
  <2>3. raced' \in BOOLEAN
    BY <2>1, Zenon
  <2> QED BY <1>0, <2>1, <2>2, <2>3, BaseServer
<1>2. CASE CallRead(t)
  <2>1. /\ UNCHANGED <<clientVars, mainVars, backlog, faults, file, sockfd, raced>> /\ tpc[t] = "call"
        /\ tpc' = [tpc EXCEPT ![t] = "read"] /\ Open(sockfd[t])
        /\ reading' = [reading EXCEPT ![t] = file[sockfd[t]]]
    BY <1>2 DEF CallRead, ThreadGoto
  <2>2. file[sockfd[t]] \in Clients
    BY <1>0, <2>1 DEF ListenApart, Open
  <2>3. ListenApart' /\ BeforeAccept'
    BY <1>0, <2>1 DEF ListenApart, BeforeAccept
  <2> QED BY <1>0, <2>1, <2>2, <2>3, Names, BaseServer
<1>3. CASE BadFd(t) \/ Sigpipe(t) \/ ReadFails(t)
  BY <1>0, <1>3, BaseEnds DEF BadFd, Sigpipe, ReadFails
<1>4. CASE ReadLine(t) \/ ReadEOF(t)
  <2>1. /\ UNCHANGED <<clientVars, mainVars, backlog, faults, file, sockfd, raced>> /\ tpc[t] = "read"
        /\ tpc' = [tpc EXCEPT ![t] = "write"] \/ tpc' = [tpc EXCEPT ![t] = "close"]
        /\ reading' = [reading EXCEPT ![t] = NoSocket]
    BY <1>4 DEF ReadLine, ReadEOF, ThreadGoto
  <2>3. ListenApart' /\ BeforeAccept'
    BY <1>0, <2>1 DEF ListenApart, BeforeAccept
  <2> QED BY <1>0, <2>1, <2>3, BaseServer
<1>5. CASE Write(t)
  <2>1. /\ UNCHANGED <<clientVars, mainVars, backlog, faults, file, sockfd, reading, raced>>
        /\ tpc[t] = "write"
        /\ tpc' = [tpc EXCEPT ![t] = "call"]
    BY <1>5 DEF Write, ThreadGoto
  <2>3. ListenApart' /\ BeforeAccept'
    BY <1>0, <2>1 DEF ListenApart, BeforeAccept
  <2> QED BY <1>0, <2>1, <2>3, BaseServer
<1>6. CASE Close(t)
  <2>1. /\ UNCHANGED <<clientVars, mainVars, backlog, faults, reading, raced>> /\ tpc[t] = "close"
        /\ tpc' = [tpc EXCEPT ![t] = "done"] /\ sockfd' = [sockfd EXCEPT ![t] = -1]
        /\ file' = [f \in Fds |-> IF f = sockfd[t] THEN NoSocket ELSE file[f]]
    BY <1>6 DEF Close, ThreadGoto
  <2>3. ListenApart' /\ BeforeAccept'
    BY <1>0, <2>1, Names DEF ListenApart, BeforeAccept
  <2> QED BY <1>0, <2>1, <2>3, BaseServer
<1> QED BY <1>1, <1>2, <1>3, <1>4, <1>5, <1>6 DEF str_serv

-----------------------------------------------------------------------------
\* The queue stands as long as no thread starts for those who wait.
LEMMA WaitSame ==
  ASSUME WaitOK, UNCHANGED <<backlog, cpc>>, ServerUp, \A c \in Clients : tpc[c] = "none" => tpc'[c] = "none",
         backlog \in Seq(Clients)
  PROVE  WaitOK'
<1>1. \A k \in 1 .. Len(backlog) : backlog[k] \in Clients
  OBVIOUS
<1> QED BY <1>1 DEF WaitOK

\* A client enters the queue by connect only, and once.
LEMMA WaitClient ==
  ASSUME BaseOK, WaitOK, NEW c \in Clients,
         connect(c) \/ ConnectRefused(c) \/ copyto(c) \/ receive(c) \/ KillClient(c)
  PROVE  WaitOK'
<1>0. backlog \in Seq(Clients) /\ cpc \in [Clients -> {"off", "on", "exit0", "failed", "refused", "killed"}]
  BY DEF BaseOK, ThreadTypeOK
<1>1. PICK to \in {"on", "exit0", "failed", "refused", "killed"},
      from \in {"off", "on"} : ClientGoto(c, from, to)
  BY DEF connect, ConnectRefused, copyto, receive, SendLine, SendFails, Shutdown, ShowEcho, ServerClosed,
     KillClient
<1>2. cpc[c] = from /\ cpc' = [cpc EXCEPT ![c] = to] /\ tpc' = tpc /\ spc' = spc
  BY <1>1 DEF ClientGoto, mainVars, threadVars
<1>3. CASE connect(c)
  <2>1. backlog' = Append(backlog, c) /\ cpc[c] = "off" /\ ServerUp
    BY <1>3 DEF connect, ClientGoto, Listening, ServerUp
  <2>2. tpc[c] = "none" /\ \A k \in 1 .. Len(backlog) : backlog[k] # c
    BY <2>1 DEF WaitOK
  <2>3. /\ Len(backlog) \in Nat /\ Len(backlog') = Len(backlog) + 1
        /\ \A k \in 1 .. Len(backlog) + 1 : backlog'[k] = IF k <= Len(backlog) THEN backlog[k] ELSE c
    BY <1>0, <2>1
  <2>4. ASSUME NEW j \in 1 .. Len(backlog'), NEW k \in 1 .. Len(backlog'), backlog'[j] = backlog'[k]
        PROVE  j = k
    BY <2>2, <2>3, <2>4 DEF WaitOK
  <2>5. ASSUME NEW k \in 1 .. Len(backlog') PROVE tpc'[backlog'[k]] = "none" /\ cpc'[backlog'[k]] # "off"
    <3>1. CASE k <= Len(backlog)
      <4>1. backlog'[k] = backlog[k] /\ k \in 1 .. Len(backlog) /\ backlog[k] # c
        BY <2>2, <2>3, <3>1
      <4> QED BY <1>0, <1>2, <4>1 DEF WaitOK
    <3>2. CASE k = Len(backlog) + 1
      BY <1>0, <1>2, <2>2, <2>3, <3>2
    <3> QED BY <2>3, <3>1, <3>2
  <2> QED BY <1>0, <1>2, <2>4, <2>5 DEF WaitOK, ServerUp
<1>4. CASE ~connect(c)
  <2>1. backlog' = backlog
    BY <1>4 DEF ConnectRefused, copyto, receive, SendLine, SendFails, Shutdown, ShowEcho, ServerClosed,
       KillClient
  <2> QED BY <1>0, <1>2, <2>1 DEF WaitOK, ServerUp
<1> QED BY <1>3, <1>4

\* No queue is left when the server ends.
LEMMA WaitEnds == ASSUME ServerEnds PROVE WaitOK'
<1>1. backlog' = <<>> /\ ~ServerUp'
  BY DEF ServerEnds, ServerUp
<1> QED BY <1>1, EmptySeq DEF WaitOK

\* accept gives the head of the queue its thread.
LEMMA WaitMain == ASSUME BaseOK, WaitOK, main \/ AcceptFails \/ KillServer \/ PortFreed PROVE WaitOK'
<1>0. /\ backlog \in Seq(Clients)
      /\ cpc \in [Clients -> {"off", "on", "exit0", "failed", "refused", "killed"}]
      /\ tpc \in [ServerThreads -> {"none", "due", "start", "call", "read", "write", "close", "done"}]
  BY DEF BaseOK, ThreadTypeOK
<1>1. CASE socket \/ BindFails \/ bind
  BY <1>0, <1>1, WaitSame DEF socket, BindFails, bind, MainGoto, clientVars, ServerUp
<1>2. CASE accept
  <2>1. /\ cpc' = cpc /\ ServerUp /\ backlog # <<>>
        /\ tpc' = [tpc EXCEPT ![Head(backlog)] = "due"] /\ backlog' = Tail(backlog)
    BY <1>2 DEF accept, MainGoto, clientVars, ServerUp
  <2>2. /\ Len(backlog) \in Nat /\ Len(backlog) # 0 /\ Head(backlog) = backlog[1] /\ backlog' \in Seq(Clients)
        /\ Len(backlog') = Len(backlog) - 1 /\ \A k \in 1 .. Len(backlog) - 1 : backlog'[k] = backlog[k + 1]
    BY <1>0, <2>1, HeadTailProperties, EmptySeq
  <2>3. ASSUME NEW j \in 1 .. Len(backlog'), NEW k \in 1 .. Len(backlog'), backlog'[j] = backlog'[k]
        PROVE  j = k
    <3>1. j + 1 \in 1 .. Len(backlog) /\ k + 1 \in 1 .. Len(backlog) /\ backlog[j + 1] = backlog[k + 1]
      BY <2>2, <2>3
    <3>2. j + 1 = k + 1
      BY <3>1 DEF WaitOK
    <3> QED BY <3>2
  <2>4. ASSUME NEW k \in 1 .. Len(backlog') PROVE tpc'[backlog'[k]] = "none" /\ cpc'[backlog'[k]] # "off"
    <3>1. k + 1 \in 1 .. Len(backlog) /\ 1 \in 1 .. Len(backlog) /\ backlog'[k] = backlog[k + 1] /\ k + 1 # 1
      BY <2>2
    <3>2. backlog[k + 1] # Head(backlog) /\ tpc[backlog[k + 1]] = "none" /\ cpc[backlog[k + 1]] # "off"
      BY <2>2, <3>1 DEF WaitOK
    <3>3. backlog[k + 1] \in ServerThreads
      BY <1>0, <3>1 DEF ServerThreads
    <3> QED BY <1>0, <2>1, <3>1, <3>2, <3>3
  <2>5. ASSUME NEW c \in Clients, cpc'[c] = "off", ServerUp' PROVE tpc'[c] = "none"
    <3>1. 1 \in 1 .. Len(backlog) /\ c \in ServerThreads
      BY <2>2, Names
    <3>2. c # Head(backlog) /\ tpc[c] = "none"
      BY <2>1, <2>2, <2>5, <3>1 DEF WaitOK
    <3> QED BY <1>0, <2>1, <3>1, <3>2
  <2> QED BY <2>3, <2>4, <2>5 DEF WaitOK
<1>3. CASE pthread_create
  <2>1. PICK t \in ServerThreads : tpc[t] = "due" /\ tpc' = [tpc EXCEPT ![t] = "start"]
    BY <1>3 DEF pthread_create, StartThread
  <2>2. UNCHANGED <<backlog, cpc>> /\ ServerUp
    BY <1>3 DEF pthread_create, StartThread, clientVars, ServerUp
  <2> QED BY <1>0, <2>1, <2>2, WaitSame, Names
<1>4. CASE AcceptFails
  <2>1. PICK s \in Strays : tpc' = [tpc EXCEPT ![s] = "due"]
    BY <1>4 DEF AcceptFails
  <2>2. UNCHANGED <<backlog, cpc>> /\ ServerUp
    BY <1>4 DEF AcceptFails, MainGoto, clientVars, ServerUp
  <2> QED BY <1>0, <2>1, <2>2, WaitSame, Names
<1>5. CASE KillServer
  BY <1>5, WaitEnds DEF KillServer
<1>6. CASE PortFreed
  BY <1>6 DEF PortFreed, WaitOK, clientVars, threadVars, ServerUp
<1> QED BY <1>1, <1>2, <1>3, <1>4, <1>5, <1>6 DEF main

\* Running threads have left the queue.
LEMMA WaitThread == ASSUME BaseOK, WaitOK, NEW t \in ServerThreads, str_serv(t) PROVE WaitOK'
<1>0. /\ backlog \in Seq(Clients)
      /\ tpc \in [ServerThreads -> {"none", "due", "start", "call", "read", "write", "close", "done"}]
  BY DEF BaseOK, ThreadTypeOK
<1>1. CASE BadFd(t) \/ Sigpipe(t) \/ ReadFails(t)
  BY <1>1, WaitEnds DEF BadFd, Sigpipe, ReadFails
<1>2. CASE CopyFd(t) \/ CallRead(t) \/ ReadLine(t) \/ Write(t) \/ ReadEOF(t) \/ Close(t)
  <2>1. \E from \in {"start", "call", "read", "write", "close"},
        to \in {"call", "read", "write", "close", "done"} :
          ThreadGoto(t, from, to)
    BY <1>2 DEF CopyFd, CallRead, ReadLine, Write, ReadEOF, Close
  <2>2. UNCHANGED <<backlog, cpc>> /\ ServerUp /\ tpc[t] # "none" /\ \E to : tpc' = [tpc EXCEPT ![t] = to]
    BY <2>1 DEF ThreadGoto, clientVars
  <2> QED BY <1>0, <2>2, WaitSame, Names
<1> QED BY <1>1, <1>2 DEF str_serv

-----------------------------------------------------------------------------
(* What is on its way between a client and its thread, step by step *)

\* One counts.
LEMMA OneFacts == One(TRUE) = 1 /\ One(FALSE) = 0 /\ \A b \in BOOLEAN : One(b) \in 0 .. 1
BY DEF One

\* A client connects, or is refused.
LEMMA ConnectState ==
  ASSUME NEW c \in Clients, NEW th, NEW n, NEW s \in BOOLEAN, NEW p, NEW d, NEW b, NEW u,
         NEW cl \in {"on", "refused"},
         StateOK(c, "off", th, n, s, p, d, b, u)
  PROVE  StateOK(c, cl, th, n, s, p, d, b, u) /\ th = "none"
<1>1. th = "none" /\ n = 0 /\ s = FALSE /\ p = <<>> /\ u = <<>> /\ d = <<>>
  BY DEF StateOK
<1>2. Flow(c, p, d, 0, b, One(th = "write"), u, One(s), n)
  <2>1. (th = "write") = FALSE
    BY <1>1
  <2>2. One(th = "write") = 0 /\ One(s) = 0
    BY <1>1, <2>1, OneFacts
  <2> QED BY <1>1, <2>2, FlowNil
<1> QED BY <1>1, <1>2 DEF StateOK

\* It sends a line, or shuts down its side.
LEMMA SendState ==
  ASSUME NEW c \in Clients, NEW th, NEW n \in Nat, NEW s \in BOOLEAN, NEW p \in Seq(Items),
         NEW d \in Seq(Items),
         NEW b, NEW u \in Seq(Items), StateOK(c, "on", th, n, s, p, d, b, u), ~s
  PROVE  /\ th # "done"
         /\ n < Lines => StateOK(c, "on", th, n + 1, s, p, d, b, Append(u, <<c, n + 1>>))
         /\ n = Lines => StateOK(c, "on", th, n, TRUE, p, d, b, Append(u, EOF(c)))
<1>1. th # "done" /\ th # "close" /\ s = FALSE
  BY DEF StateOK
<1> DEFINE h == One(th = "write")
<1>2. h \in 0 .. 1 /\ One(s) = 0 /\ One(TRUE) = 1
  <2>1. (th = "write") \in BOOLEAN
    OBVIOUS
  <2> QED BY <1>1, <2>1, OneFacts
<1>3. Flow(c, p, d, 0, b, h, u, 0, n)
  BY <1>1, <1>2 DEF StateOK
<1> HIDE DEF h
<1>4. /\ Flow(c, p, d, 0, b, h, Append(u, <<c, n + 1>>), 0, n + 1)
      /\ Flow(c, p, d, 0, b, h, Append(u, EOF(c)), 1, n)
  BY <1>2, <1>3, FlowSend
<1>5. StateOK(c, "on", th, n + 1, s, p, d, b, Append(u, <<c, n + 1>>))
  BY <1>1, <1>2, <1>4 DEF StateOK, h
<1>6. ASSUME n = Lines PROVE StateOK(c, "on", th, n, TRUE, p, d, b, Append(u, EOF(c)))
  BY <1>1, <1>2, <1>4, <1>6 DEF StateOK, h
<1> QED BY <1>1, <1>5, <1>6

\* It shows an echo.
LEMMA ShowState ==
  ASSUME NEW c \in Clients, NEW th, NEW n \in Nat, NEW s \in BOOLEAN, NEW p \in Seq(Items),
         NEW d \in Seq(Items),
         NEW b, NEW u \in Seq(Items), StateOK(c, "on", th, n, s, p, d, b, u), d # <<>>, IsLine(Head(d))
  PROVE  StateOK(c, "on", th, n, s, Append(p, Head(d)), Tail(d), b, u)
<1> DEFINE h == One(th = "write")
           z == One(s)
<1>1. h \in 0 .. 1 /\ z \in 0 .. 1
  <2>1. (th = "write") \in BOOLEAN
    OBVIOUS
  <2> QED BY <2>1, OneFacts
<1> HIDE DEF h, z
<1>2. Len(p) \in Nat
  BY SeqFacts
<1>3. CASE th # "done"
  <2>1. Flow(c, p, d, 0, b, h, u, z, n)
    BY <1>3 DEF StateOK, h, z
  <2>2. Run(c, d, Len(p), 0)
    BY <2>1 DEF Flow
  <2>3. Len(d) > 0
    BY <1>2, <2>2, RunHead
  <2>4. Flow(c, Append(p, Head(d)), Tail(d), 0, b, h, u, z, n)
    <3>1. 0 \in 0 .. 1
      OBVIOUS
    <3> QED BY <1>1, <2>1, <2>3, <3>1, FlowShow, Zenon
  <2> QED BY <1>3, <2>4 DEF StateOK, h, z
<1>4. CASE th = "done"
  <2>1. Flow(c, p, d, 1, b, 0, u, 0, Lines)
    BY <1>4 DEF StateOK
  <2>2. Run(c, d, Len(p), 1)
    BY <2>1 DEF Flow
  <2>3. Len(d) > 1
    BY <1>2, <2>2, RunHead
  <2>4. Flow(c, Append(p, Head(d)), Tail(d), 1, b, 0, u, 0, Lines)
    BY <2>1, <2>3, FlowShow, SizesAssumption
  <2> QED BY <1>4, <2>4 DEF StateOK
<1> QED BY <1>3, <1>4

\* It finds the end, which only a thread that is done has sent, and has shown
\* everything.
LEMMA ClosedState ==
  ASSUME NEW c \in Clients, NEW th, NEW n \in Nat, NEW s \in BOOLEAN, NEW p \in Seq(Items),
         NEW d \in Seq(Items),
         NEW b, NEW u \in Seq(Items), StateOK(c, "on", th, n, s, p, d, b, u), d # <<>>, ~IsLine(Head(d))
  PROVE  th = "done" /\ Head(d) = EOF(c) /\ StateOK(c, "exit0", th, n, s, p, <<>>, b, u)
<1>1. Len(p) \in Nat
  BY SeqFacts
<1>2. th = "done"
  <2>1. SUFFICES ASSUME th # "done" PROVE FALSE
    OBVIOUS
  <2>2. Flow(c, p, d, 0, b, One(th = "write"), u, One(s), n)
    BY <2>1 DEF StateOK
  <2>3. Run(c, d, Len(p), 0)
    BY <2>2 DEF Flow
  <2> QED BY <1>1, <2>3, RunHead
<1>3. Flow(c, p, d, 1, b, 0, u, 0, Lines) /\ u = <<>> /\ s
  BY <1>2 DEF StateOK
<1>4. Run(c, d, Len(p), 1)
  BY <1>3 DEF Flow
<1>5. Head(d) = EOF(c) /\ Len(d) = 1
  BY <1>1, <1>4, RunHead
<1>6. Len(p) = Lines
  <2>1. Len(p) + Len(d) - 1 + 0 + Len(u) - 0 = Lines
    BY <1>3 DEF Flow
  <2>2. Len(u) = 0
    BY <1>3, EmptySeq
  <2> QED BY <1>1, <1>5, <2>1, <2>2
<1>7. Run(c, p, 0, 0)
  BY <1>3 DEF Flow
<1> QED BY <1>2, <1>3, <1>5, <1>6, <1>7 DEF StateOK

\* Main or a thread moves on without touching the data.
LEMMA MoveState ==
  ASSUME NEW c \in Clients, NEW cl, NEW th, NEW n, NEW s, NEW p, NEW d, NEW b, NEW u,
         NEW to \in {"due", "start", "call", "read"},
         StateOK(c, cl, th, n, s, p, d, b, u), th \notin {"write", "close", "done"}, th # "none" \/ cl = "on"
  PROVE  cl = "on" /\ StateOK(c, cl, to, n, s, p, d, b, u)
<1>1. cl = "on" /\ (s => n = Lines)
  BY DEF StateOK
<1>2. Flow(c, p, d, 0, b, One(th = "write"), u, One(s), n)
  BY <1>1 DEF StateOK
<1>3. (th = "write") = FALSE /\ (to = "write") = FALSE
  OBVIOUS
<1>4. Flow(c, p, d, 0, b, One(to = "write"), u, One(s), n)
  BY <1>2, <1>3
<1> QED BY <1>1, <1>4 DEF StateOK

\* A thread reads a line, or the end, and nothing else.
LEMMA ReadState ==
  ASSUME NEW c \in Clients, NEW cl, NEW n \in Nat, NEW s \in BOOLEAN, NEW p \in Seq(Items),
         NEW d \in Seq(Items),
         NEW b, NEW u \in Seq(Items), StateOK(c, cl, "read", n, s, p, d, b, u), u # <<>>
  PROVE  /\ cl = "on"
         /\ IsLine(Head(u)) => StateOK(c, cl, "write", n, s, p, d, Head(u), Tail(u))
         /\ ~IsLine(Head(u)) => Head(u) = EOF(c) /\ StateOK(c, cl, "close", n, s, p, d, b, u)
<1>1. cl = "on" /\ (s => n = Lines)
  BY DEF StateOK
<1> DEFINE z == One(s)
<1>2. z \in 0 .. 1 /\ One("read" = "write") = 0 /\ One("write" = "write") = 1 /\ One("close" = "write") = 0
  <2>1. ("read" = "write") = FALSE /\ ("write" = "write") = TRUE /\ ("close" = "write") = FALSE
    OBVIOUS
  <2> QED BY <2>1, OneFacts
<1>3. Flow(c, p, d, 0, b, 0, u, z, n)
  BY <1>1, <1>2 DEF StateOK
<1> HIDE DEF z
<1>4. Len(p) \in Nat /\ Len(d) \in Nat /\ Len(u) \in Nat
  BY SeqFacts
<1>5. Run(c, u, Len(p) + Len(d) - 0 + 0, z) /\ Len(p) + Len(d) - 0 + 0 \in Nat
  BY <1>3, <1>4 DEF Flow
<1>6. /\ IsLine(Head(u)) <=> Len(u) > z
      /\ ~IsLine(Head(u)) => z = 1 /\ Len(u) = 1 /\ Head(u) = EOF(c)
  BY <1>2, <1>5, RunHead
<1>7. ASSUME IsLine(Head(u)) PROVE StateOK(c, cl, "write", n, s, p, d, Head(u), Tail(u))
  <2>1. Flow(c, p, d, 0, Head(u), 1, Tail(u), z, n)
    BY <1>2, <1>3, <1>6, <1>7, FlowRead
  <2> QED BY <1>1, <1>2, <2>1 DEF StateOK, z
<1>8. ASSUME ~IsLine(Head(u)) PROVE StateOK(c, cl, "close", n, s, p, d, b, u)
  <2>1. s
    <3>1. z = 1
      BY <1>6, <1>8
    <3>2. CASE s = FALSE
      <4>1. z = 0
        BY <3>2, OneFacts DEF z
      <4> QED BY <3>1, <4>1
    <3> QED BY <3>2
  <2>2. u = <<EOF(c)>>
    <3>1. Len(u) = 1 /\ u[1] = EOF(c)
      BY <1>6, <1>8, SeqFacts
    <3> QED BY <3>1
  <2> QED BY <1>1, <1>2, <1>3, <2>1, <2>2 DEF StateOK, z
<1> QED BY <1>1, <1>6, <1>7, <1>8

\* It writes a line back.
LEMMA WriteState ==
  ASSUME NEW c \in Clients, NEW cl, NEW n \in Nat, NEW s \in BOOLEAN, NEW p \in Seq(Items),
         NEW d \in Seq(Items),
         NEW b, NEW u \in Seq(Items), StateOK(c, cl, "write", n, s, p, d, b, u)
  PROVE  cl = "on" /\ b \in Items /\ StateOK(c, cl, "call", n, s, p, Append(d, b), <<>>, u)
<1>1. cl = "on" /\ (s => n = Lines)
  BY DEF StateOK
<1> DEFINE z == One(s)
<1>2. z \in 0 .. 1 /\ One("write" = "write") = 1 /\ One("call" = "write") = 0
  <2>1. ("write" = "write") = TRUE /\ ("call" = "write") = FALSE
    OBVIOUS
  <2> QED BY <2>1, OneFacts
<1>3. Flow(c, p, d, 0, b, 1, u, z, n)
  BY <1>1, <1>2 DEF StateOK
<1> HIDE DEF z
<1>4. b \in Items /\ Flow(c, p, Append(d, b), 0, <<>>, 0, u, z, n)
  BY <1>2, <1>3, FlowWrite
<1> QED BY <1>1, <1>2, <1>4 DEF StateOK, z

\* It closes.
LEMMA CloseState ==
  ASSUME NEW c \in Clients, NEW cl, NEW n \in Nat, NEW s \in BOOLEAN, NEW p \in Seq(Items),
         NEW d \in Seq(Items),
         NEW b, NEW u \in Seq(Items), StateOK(c, cl, "close", n, s, p, d, b, u)
  PROVE  cl = "on" /\ u = <<EOF(c)>> /\ StateOK(c, cl, "done", n, s, p, Append(d, EOF(c)), b, <<>>)
<1>1. cl = "on" /\ s = TRUE /\ n = Lines /\ u = <<EOF(c)>>
  BY DEF StateOK
<1>2. One(s) = 1 /\ One("close" = "write") = 0
  <2>1. ("close" = "write") = FALSE
    OBVIOUS
  <2> QED BY <1>1, <2>1, OneFacts
<1>3. Flow(c, p, d, 0, b, 0, u, 1, Lines)
  BY <1>1, <1>2 DEF StateOK
<1>4. Flow(c, p, Append(d, EOF(c)), 1, b, 0, <<>>, 0, Lines)
  BY <1>1, <1>3, FlowClose, SizesAssumption
<1> QED BY <1>1, <1>4 DEF StateOK

-----------------------------------------------------------------------------
(* The steps while calm *)

\* What a client has to do with, for the lemmas on StateOK.
LEMMA ClientFacts ==
  ASSUME BaseOK, CalmOK, NEW c \in Clients
  PROVE  /\ typed[c] \in Nat /\ typed[c] <= Lines /\ shut[c] \in BOOLEAN /\ ClientOK(c)
         /\ printed[c] \in Seq(Items) /\ down[c] \in Seq(Items) /\ up[c] \in Seq(Items)
<1>1. typed[c] \in 0 .. Lines /\ Lines \in Nat
  BY SizesAssumption DEF BaseOK, ThreadTypeOK
<1>2. shut[c] \in BOOLEAN
  BY Zenon DEF BaseOK, ThreadTypeOK
<1>3. printed[c] \in Seq(Items) /\ down[c] \in Seq(Items) /\ up[c] \in Seq(Items)
  BY DEF CalmOK, DataOK
<1>4. typed[c] \in Nat /\ typed[c] <= Lines
  BY <1>1
<1> QED BY <1>2, <1>3, <1>4 DEF CalmOK

\* What other actors do to other connections leaves this one alone.
LEMMA ClientSame ==
  ASSUME NEW c, ClientOK(c), cpc'[c] = cpc[c], tpc'[c] = tpc[c], typed'[c] = typed[c], shut'[c] = shut[c],
         printed'[c] = printed[c], down'[c] = down[c], buffer'[c] = buffer[c], up'[c] = up[c]
  PROVE  ClientOK(c)'
BY DEF ClientOK

\* The server's side of every connection is there until its thread is done.
LEMMA OnAttached ==
  ASSUME BaseOK, CalmOK, NEW c \in Clients, cpc[c] = "on", tpc[c] # "done"
  PROVE  Attached(c)
<1>0. /\ file \in [Fds -> Clients \cup {Listen, NoSocket}] /\ backlog \in Seq(Clients) /\ c \in ServerThreads
      /\ tpc \in [ServerThreads -> {"none", "due", "start", "call", "read", "write", "close", "done"}]
  BY Names DEF BaseOK, ThreadTypeOK
<1>1. CASE tpc[c] = "none"
  <2>1. PICK k \in 1 .. Len(backlog) : backlog[k] = c
    BY <1>1 DEF CalmOK, QueueOK
  <2>2. k \in DOMAIN backlog
    BY <1>0
  <2> QED BY <2>1, <2>2 DEF Attached, Range
<1>2. CASE tpc[c] # "none"
  <2>1. PICK f \in Fds : file[f] = c
    <3>1. CASE tpc[c] = "due"
      BY <3>1 DEF CalmOK, FdsOK
    <3>2. CASE Active(c)
      BY <3>2 DEF CalmOK, FdsOK
    <3> QED BY <1>0, <1>2, <3>1, <3>2 DEF Active
  <2>2. f \in DOMAIN file
    BY <1>0
  <2> QED BY <2>1, <2>2 DEF Attached, Range, Held
<1> QED BY <1>1, <1>2

\* A step of client c that keeps it connected: only c's own data change.
LEMMA CalmOwn ==
  ASSUME BaseOK, CalmOK, NEW c \in Clients, NEW n, NEW s, NEW p \in Seq(Items), NEW d \in Seq(Items),
         NEW u \in Seq(Items),
         UNCHANGED <<cpc, backlog, mainVars, threadVars, file, raced>>, cpc[c] = "on",
         typed' = [typed EXCEPT ![c] = n], shut' = [shut EXCEPT ![c] = s],
           printed' = [printed EXCEPT ![c] = p],
         down' = [down EXCEPT ![c] = d], up' = [up EXCEPT ![c] = u],
         StateOK(c, "on", tpc[c], n, s, p, d, buffer[c], u)
  PROVE  CalmOK'
<1> USE DEF mainVars, threadVars
<1>1. FdsOK'
  BY DEF CalmOK, FdsOK, ServerUp, Active
<1>2. DataOK'
  BY DEF CalmOK, DataOK
<1>3. QueueOK'
  BY DEF CalmOK, QueueOK
<1>4. /\ typed \in [Clients -> 0 .. Lines] /\ shut \in [Clients -> BOOLEAN]
      /\ printed \in [Clients -> Seq(Items)] /\ down \in [Clients -> Seq(Items)]
      /\ up \in [Clients -> Seq(Items)]
  BY DEF BaseOK, ThreadTypeOK, CalmOK, DataOK
<1>5. ASSUME NEW x \in Clients PROVE ClientOK(x)'
  <2>1. CASE x = c
    <3>1. typed'[c] = n /\ shut'[c] = s /\ printed'[c] = p /\ down'[c] = d /\ up'[c] = u
      BY <1>4
    <3> QED BY <2>1, <3>1 DEF ClientOK
  <2>2. CASE x # c
    <3>1. /\ typed'[x] = typed[x] /\ shut'[x] = shut[x] /\ printed'[x] = printed[x] /\ down'[x] = down[x]
          /\ up'[x] = up[x]
      BY <1>4, <2>2
    <3> QED BY <3>1, ClientSame DEF CalmOK
  <2> QED BY <2>1, <2>2
<1> QED BY <1>1, <1>2, <1>3, <1>5 DEF CalmOK

\* A step of client c that connects it, or ends it.
LEMMA CalmMoves ==
  ASSUME BaseOK, CalmOK, NEW c \in Clients, NEW to, NEW d \in Seq(Items), QueueOK',
         UNCHANGED <<typed, shut, printed, up, mainVars, threadVars, file, raced>>,
         cpc' = [cpc EXCEPT ![c] = to], down' = [down EXCEPT ![c] = d],
         StateOK(c, to, tpc[c], typed[c], shut[c], printed[c], d, buffer[c], up[c])
  PROVE  CalmOK'
<1> USE DEF mainVars, threadVars
<1>1. FdsOK'
  BY DEF CalmOK, FdsOK, ServerUp, Active
<1>2. DataOK'
  BY DEF CalmOK, DataOK
<1>4. /\ cpc \in [Clients -> {"off", "on", "exit0", "failed", "refused", "killed"}]
      /\ down \in [Clients -> Seq(Items)]
  BY DEF BaseOK, ThreadTypeOK, CalmOK, DataOK
<1>5. ASSUME NEW x \in Clients PROVE ClientOK(x)'
  <2>1. CASE x = c
    <3>1. cpc'[c] = to /\ down'[c] = d
      BY <1>4
    <3> QED BY <2>1, <3>1 DEF ClientOK
  <2>2. CASE x # c
    <3>1. cpc'[x] = cpc[x] /\ down'[x] = down[x]
      BY <1>4, <2>2
    <3> QED BY <3>1, ClientSame DEF CalmOK
  <2> QED BY <2>1, <2>2
<1> QED BY <1>1, <1>2, <1>5 DEF CalmOK

\* A client's steps while nothing is killed. write does not fail: the
\* connection is there until the thread has seen the client's end.
LEMMA CalmClient ==
  ASSUME BaseOK, WaitOK, CalmOK, NEW c \in Clients, faults' = {},
         connect(c) \/ ConnectRefused(c) \/ copyto(c) \/ receive(c) \/ KillClient(c)
  PROVE  CalmOK'
<1> DEFINE th == tpc[c]
           n == typed[c]
           s == shut[c]
           p == printed[c]
           d == down[c]
           b == buffer[c]
           u == up[c]
<1>1. n \in Nat /\ n <= Lines /\ s \in BOOLEAN /\ p \in Seq(Items) /\ d \in Seq(Items) /\ u \in Seq(Items)
  BY ClientFacts
<1>2. StateOK(c, cpc[c], th, n, s, p, d, b, u)
  BY ClientFacts DEF ClientOK
<1>3. /\ typed = [typed EXCEPT ![c] = n] /\ shut = [shut EXCEPT ![c] = s]
      /\ printed = [printed EXCEPT ![c] = p]
      /\ down = [down EXCEPT ![c] = d] /\ up = [up EXCEPT ![c] = u] /\ backlog \in Seq(Clients)
      /\ cpc \in [Clients -> {"off", "on", "exit0", "failed", "refused", "killed"}]
  BY DEF BaseOK, ThreadTypeOK, CalmOK, DataOK
<1>4. CASE connect(c)
  <2>1. /\ UNCHANGED <<typed, shut, printed, up, down, mainVars, threadVars, file, raced>>
        /\ cpc[c] = "off" /\ cpc' = [cpc EXCEPT ![c] = "on"] /\ backlog' = Append(backlog, c)
    BY <1>4 DEF connect, ClientGoto
  <2>2. StateOK(c, "on", th, n, s, p, d, b, u)
    BY <1>1, <1>2, <2>1, ConnectState
  <2>3. QueueOK'
    <3>1. /\ Len(backlog) \in Nat /\ Len(backlog') = Len(backlog) + 1 /\ tpc' = tpc
          /\ \A k \in 1 .. Len(backlog) + 1 : backlog'[k] = IF k <= Len(backlog) THEN backlog[k] ELSE c
      BY <1>3, <2>1 DEF threadVars
    <3>2. ASSUME NEW k \in 1 .. Len(backlog') PROVE cpc'[backlog'[k]] = "on"
      <4>1. CASE k <= Len(backlog)
        <5>1. backlog'[k] = backlog[k] /\ k \in 1 .. Len(backlog) /\ backlog[k] \in Clients
          BY <1>3, <3>1, <4>1
        <5>2. cpc[backlog[k]] = "on"
          BY <5>1 DEF CalmOK, QueueOK
        <5> QED BY <1>3, <2>1, <5>1, <5>2
      <4>2. CASE k = Len(backlog) + 1
        BY <1>3, <2>1, <3>1, <4>2
      <4> QED BY <3>1, <4>1, <4>2
    <3>3. ASSUME NEW x \in Clients, cpc'[x] = "on", tpc'[x] = "none"
          PROVE  \E k \in 1 .. Len(backlog') : backlog'[k] = x
      <4>1. CASE x = c
        <5>1. Len(backlog) + 1 \in 1 .. Len(backlog') /\ backlog'[Len(backlog) + 1] = c
          BY <3>1
        <5> QED BY <4>1, <5>1
      <4>2. CASE x # c
        <5>1. PICK k \in 1 .. Len(backlog) : backlog[k] = x
          BY <1>3, <2>1, <3>1, <3>3, <4>2 DEF CalmOK, QueueOK
        <5>2. k \in 1 .. Len(backlog') /\ backlog'[k] = x
          BY <3>1, <5>1
        <5> QED BY <5>2
      <4> QED BY <4>1, <4>2
    <3> QED BY <3>2, <3>3 DEF QueueOK
  <2> QED BY <1>1, <1>3, <2>1, <2>2, <2>3, CalmMoves
<1>5. CASE ConnectRefused(c)
  <2>1. /\ UNCHANGED <<typed, shut, printed, up, down, backlog, mainVars, threadVars, file, raced>>
        /\ cpc[c] = "off" /\ cpc' = [cpc EXCEPT ![c] = "refused"]
    BY <1>5 DEF ConnectRefused, ClientGoto
  <2>2. StateOK(c, "refused", th, n, s, p, d, b, u)
    BY <1>1, <1>2, <2>1, ConnectState
  <2>3. QueueOK'
    <3>1. \A k \in 1 .. Len(backlog) : backlog[k] # c /\ backlog[k] \in Clients
      BY <1>3, <2>1 DEF WaitOK
    <3> QED BY <1>3, <2>1, <3>1 DEF CalmOK, QueueOK, threadVars
  <2> QED BY <1>1, <1>3, <2>1, <2>2, <2>3, CalmMoves
<1>6. ASSUME cpc[c] = "on", cpc' = [cpc EXCEPT ![c] = "on"] PROVE cpc' = cpc
  BY <1>3, <1>6
<1>13. cpc[c] = "on" => StateOK(c, "on", th, n, s, p, d, b, u)
  BY <1>2
<1> HIDE DEF th, n, s, p, d, b, u
<1>7. CASE SendLine(c)
  <2>1. /\ UNCHANGED <<shut, printed, down, backlog, mainVars, threadVars, file, raced>>
        /\ cpc[c] = "on" /\ cpc' = [cpc EXCEPT ![c] = "on"] /\ n < Lines
        /\ typed' = [typed EXCEPT ![c] = n + 1]
        /\ up' = [up EXCEPT ![c] = IF Attached(c) THEN Append(u, <<c, n + 1>>) ELSE u]
    BY <1>7 DEF SendLine, ClientGoto, n, s, p, d, u
  <2>2. ~s
    BY <1>1, <1>13, <2>1, SizesAssumption DEF StateOK
  <2>3. th # "done" /\ StateOK(c, "on", th, n + 1, s, p, d, b, Append(u, <<c, n + 1>>))
    BY <1>1, <1>13, <2>1, <2>2, SendState, Zenon
  <2>4. Attached(c)
    BY <2>1, <2>3, OnAttached DEF th
  <2>5. Append(u, <<c, n + 1>>) \in Seq(Items)
    BY <1>1, ItemFacts
  <2>6. up' = [up EXCEPT ![c] = Append(u, <<c, n + 1>>)]
    BY <2>1, <2>4
  <2>7. UNCHANGED <<cpc, backlog, mainVars, threadVars, file, raced>> /\ cpc[c] = "on"
        /\ typed' = [typed EXCEPT ![c] = n + 1] /\ shut' = [shut EXCEPT ![c] = s]
        /\ printed' = [printed EXCEPT ![c] = p] /\ down' = [down EXCEPT ![c] = d]
    BY <1>3, <1>6, <2>1 DEF n, s, p, d, u
  <2> QED BY <1>1, <2>3, <2>5, <2>6, <2>7, CalmOwn, Zenon DEF th, b
<1>8. CASE SendFails(c)
  <2>1. cpc[c] = "on" /\ n < Lines /\ ~Attached(c)
    BY <1>8 DEF SendFails, ClientGoto, n, s, p, d, u
  <2>2. ~s
    BY <1>1, <1>13, <2>1, SizesAssumption DEF StateOK
  <2>3. th # "done"
    BY <1>1, <1>13, <2>1, <2>2, SendState, Zenon
  <2> QED BY <2>1, <2>3, OnAttached DEF th
<1>9. CASE Shutdown(c)
  <2>1. /\ UNCHANGED <<typed, printed, down, backlog, mainVars, threadVars, file, raced>>
        /\ cpc[c] = "on" /\ cpc' = [cpc EXCEPT ![c] = "on"] /\ n = Lines /\ ~s
        /\ shut' = [shut EXCEPT ![c] = TRUE]
        /\ up' = [up EXCEPT ![c] = IF Attached(c) THEN Append(u, EOF(c)) ELSE u]
    BY <1>9 DEF Shutdown, ClientGoto, n, s, p, d, u
  <2>3. th # "done" /\ StateOK(c, "on", th, n, TRUE, p, d, b, Append(u, EOF(c)))
    BY <1>1, <1>13, <2>1, SendState, Zenon
  <2>4. Attached(c)
    BY <2>1, <2>3, OnAttached DEF th
  <2>5. Append(u, EOF(c)) \in Seq(Items)
    BY <1>1, ItemFacts
  <2>6. up' = [up EXCEPT ![c] = Append(u, EOF(c))]
    BY <2>1, <2>4
  <2>7. UNCHANGED <<cpc, backlog, mainVars, threadVars, file, raced>> /\ cpc[c] = "on"
        /\ typed' = [typed EXCEPT ![c] = n] /\ shut' = [shut EXCEPT ![c] = TRUE]
        /\ printed' = [printed EXCEPT ![c] = p] /\ down' = [down EXCEPT ![c] = d]
    BY <1>3, <1>6, <2>1 DEF n, s, p, d, u
  <2> QED BY <1>1, <2>3, <2>5, <2>6, <2>7, CalmOwn, Zenon DEF th, b
<1>10. CASE ShowEcho(c)
  <2>1. /\ UNCHANGED <<typed, shut, up, backlog, mainVars, threadVars, file, raced>>
        /\ cpc[c] = "on" /\ cpc' = [cpc EXCEPT ![c] = "on"] /\ d # <<>> /\ IsLine(Head(d))
        /\ printed' = [printed EXCEPT ![c] = Append(p, Head(d))] /\ down' = [down EXCEPT ![c] = Tail(d)]
    BY <1>10 DEF ShowEcho, ClientGoto, n, s, p, d, u
  <2>2. StateOK(c, "on", th, n, s, Append(p, Head(d)), Tail(d), b, u)
    BY <1>1, <1>13, <2>1, ShowState, Zenon
  <2>3. Append(p, Head(d)) \in Seq(Items) /\ Tail(d) \in Seq(Items)
    <3>1. Head(d) \in Items /\ Tail(d) \in Seq(Items)
      BY <1>1, <2>1, SeqFacts
    <3> QED BY <1>1, <3>1, SeqFacts
  <2>7. UNCHANGED <<cpc, backlog, mainVars, threadVars, file, raced>> /\ cpc[c] = "on"
        /\ typed' = [typed EXCEPT ![c] = n] /\ shut' = [shut EXCEPT ![c] = s]
        /\ printed' = [printed EXCEPT ![c] = Append(p, Head(d))] /\ down' = [down EXCEPT ![c] = Tail(d)]
        /\ up' = [up EXCEPT ![c] = u]
    BY <1>3, <1>6, <2>1 DEF n, s, p, d, u
  <2> QED BY <1>1, <2>2, <2>3, <2>7, CalmOwn, Zenon DEF th, b
<1>11. CASE ServerClosed(c)
  <2>1. /\ UNCHANGED <<typed, shut, printed, up, backlog, mainVars, threadVars, file, raced>>
        /\ cpc[c] = "on" /\ cpc' = [cpc EXCEPT ![c] = IF Head(d) = EOF(c) THEN "exit0" ELSE "failed"]
        /\ d # <<>> /\ ~IsLine(Head(d)) /\ down' = [down EXCEPT ![c] = <<>>]
    BY <1>11 DEF ServerClosed, ClientGoto, n, s, p, d, u
  <2>2. th = "done" /\ Head(d) = EOF(c) /\ StateOK(c, "exit0", th, n, s, p, <<>>, b, u)
    <3>1. StateOK(c, "on", th, n, s, p, d, b, u) /\ d # <<>> /\ ~IsLine(Head(d))
      BY <1>13, <2>1
    <3> QED BY <1>1, <3>1, ClosedState
  <2>3. cpc' = [cpc EXCEPT ![c] = "exit0"]
    BY <2>1, <2>2
  <2>4. QueueOK'
    <3>1. \A k \in 1 .. Len(backlog) : backlog[k] # c /\ backlog[k] \in Clients
      BY <1>3, <2>2 DEF WaitOK, th
    <3> QED BY <1>3, <2>1, <2>3, <3>1 DEF CalmOK, QueueOK, threadVars
  <2>5. <<>> \in Seq(Items)
    OBVIOUS
  <2> QED BY <1>1, <1>3, <2>1, <2>2, <2>3, <2>4, <2>5, CalmMoves DEF th, n, s, p, b, u
<1>12. CASE KillClient(c)
  BY <1>12 DEF KillClient, Fault
<1> QED BY <1>4, <1>5, <1>7, <1>8, <1>9, <1>10, <1>11, <1>12 DEF copyto, receive

\* A step of a thread, or of main for it, with the data of its connection.
LEMMA CalmServes ==
  ASSUME BaseOK, CalmOK, FdsOK', QueueOK', UNCHANGED clientVars, NEW c \in Clients, NEW to,
         NEW d \in Seq(Items), NEW u \in Seq(Items), NEW b \in Items \cup {<<>>},
         tpc' = [tpc EXCEPT ![c] = to], buffer' = [buffer EXCEPT ![c] = b],
         down' = [down EXCEPT ![c] = d], up' = [up EXCEPT ![c] = u],
         StateOK(c, cpc[c], to, typed[c], shut[c], printed[c], d, b, u)
  PROVE  CalmOK'
<1> USE DEF clientVars
<1>1. DataOK'
  BY Names DEF CalmOK, DataOK
<1>2. /\ tpc \in [ServerThreads -> {"none", "due", "start", "call", "read", "write", "close", "done"}]
      /\ buffer \in [ServerThreads -> Items \cup {<<>>}] /\ c \in ServerThreads
      /\ down \in [Clients -> Seq(Items)] /\ up \in [Clients -> Seq(Items)]
  BY Names DEF BaseOK, ThreadTypeOK, CalmOK, DataOK
<1>3. ASSUME NEW x \in Clients PROVE ClientOK(x)'
  <2>1. CASE x = c
    <3>1. tpc'[c] = to /\ buffer'[c] = b /\ down'[c] = d /\ up'[c] = u
      BY <1>2
    <3> QED BY <2>1, <3>1 DEF ClientOK
  <2>2. CASE x # c
    <3>1. x \in ServerThreads
      BY Names
    <3>2. tpc'[x] = tpc[x] /\ buffer'[x] = buffer[x] /\ down'[x] = down[x] /\ up'[x] = up[x]
      BY <1>2, <2>2, <3>1
    <3> QED BY <3>2, ClientSame DEF CalmOK
  <2> QED BY <2>1, <2>2
<1> QED BY <1>1, <1>3 DEF CalmOK

\* The queue stands as long as no other thread leaves.
LEMMA QueueSame ==
  ASSUME QueueOK, UNCHANGED <<backlog, cpc>>, \A c \in Clients : tpc'[c] = "none" => tpc[c] = "none"
  PROVE  QueueOK'
BY DEF QueueOK

\* A thread that is calm at one point of its loop goes to another.
LEMMA FdsActive ==
  ASSUME BaseOK, FdsOK, NEW c \in Clients, Active(c), NEW to \in {"call", "read", "write", "close"},
         tpc' = [tpc EXCEPT ![c] = to], UNCHANGED <<spc, connectfd, file, sockfd>>,
         to = "read" => reading'[c] = c, \A x \in Clients \ {c} : reading'[x] = reading[x]
  PROVE  FdsOK'
<1>1. tpc \in [ServerThreads -> {"none", "due", "start", "call", "read", "write", "close", "done"}]
  BY DEF BaseOK, ThreadTypeOK
<1>2. \A x \in ServerThreads : x # c => tpc'[x] = tpc[x]
  BY <1>1
<1>3. c \in ServerThreads /\ tpc'[c] = to /\ tpc[c] # "due"
  BY <1>1, Names DEF Active
<1>4. Active(c)' /\ \A x \in Clients : x # c => (Active(x)' <=> Active(x))
  BY <1>2, <1>3, Names DEF Active
<1>5. \A s \in Strays : tpc'[s] = "none"
  BY <1>2, Names DEF FdsOK
<1>6. \A x \in Clients : tpc'[x] = "due" <=> tpc[x] = "due"
  BY <1>2, <1>3, Names
<1>7. ServerUp'
  BY DEF FdsOK, ServerUp
<1>8. (spc = "create" => connectfd \in Fds /\ file[connectfd] \in Clients /\ tpc[file[connectfd]] = "due")'
  BY <1>6 DEF FdsOK
<1>9. ASSUME NEW x \in Clients
      PROVE  /\ tpc'[x] = "due" => spc' = "create" /\ file'[connectfd'] = x
             /\ Active(x)' => sockfd'[x] \in Fds /\ file'[sockfd'[x]] = x
             /\ tpc'[x] = "read" => reading'[x] = x
  BY <1>2, <1>3, <1>4, <1>6, Names DEF FdsOK
<1>10. ASSUME NEW f \in Fds, file'[f] \in Clients
       PROVE  \/ Active(file[f])' /\ sockfd'[file'[f]] = f
              \/ tpc'[file'[f]] = "due" /\ connectfd' = f
  BY <1>4, <1>6, <1>10 DEF FdsOK
<1> QED BY <1>5, <1>7, <1>8, <1>9, <1>10 DEF FdsOK

\* The steps of main while nothing fails.
LEMMA CalmMain ==
  ASSUME BaseOK, WaitOK, CalmOK, faults' = {}, main \/ AcceptFails \/ KillServer \/ PortFreed
  PROVE  CalmOK'
<1>0. /\ file \in [Fds -> Clients \cup {Listen, NoSocket}] /\ connectfd \in Fds \cup {-1}
      /\ backlog \in Seq(Clients)
      /\ tpc \in [ServerThreads -> {"none", "due", "start", "call", "read", "write", "close", "done"}]
      /\ sockfd \in [ServerThreads -> Fds \cup {-1}] /\ reading \in [ServerThreads -> Clients \cup {NoSocket}]
      /\ down \in [Clients -> Seq(Items)] /\ up \in [Clients -> Seq(Items)]
      /\ buffer \in [ServerThreads -> Items \cup {<<>>}]
  BY DEF BaseOK, ThreadTypeOK, CalmOK, DataOK
<1>1. ASSUME UNCHANGED <<clientVars, up, down, buffer, tpc, backlog>>, FdsOK' PROVE CalmOK'
  <2>1. DataOK' /\ QueueOK'
    BY <1>1 DEF CalmOK, DataOK, QueueOK, clientVars
  <2>2. \A c \in Clients : ClientOK(c)'
    BY <1>1, ClientSame DEF CalmOK, clientVars
  <2> QED BY <1>1, <2>1, <2>2 DEF CalmOK
<1>2. CASE socket \/ BindFails \/ bind
  <2>1. /\ UNCHANGED <<clientVars, up, down, buffer, tpc, backlog, sockfd, reading, connectfd>>
        /\ spc \in {"socket", "bind"} /\ spc' \in {"socket", "bind", "accept"}
    BY <1>2 DEF socket, BindFails, bind, MainGoto
  <2>2. \A t \in ServerThreads : tpc[t] = "none"
    BY <2>1 DEF BaseOK, BeforeAccept
  <2>3. \A f \in Fds : file[f] \notin Clients
    BY <2>2, Names DEF CalmOK, FdsOK, Active
  <2>4. \A f \in Fds : file'[f] \notin Clients
    <3>1. CASE socket
      BY <1>0, <2>3, <3>1, Names, LowestFree DEF socket
    <3>2. CASE BindFails
      BY <1>0, <2>3, <3>2, Names DEF BindFails
    <3>3. CASE bind
      BY <2>3, <3>3 DEF bind
    <3> QED BY <1>2, <3>1, <3>2, <3>3
  <2>5. FdsOK'
    BY <2>1, <2>2, <2>4, Names DEF FdsOK, Active, ServerUp
  <2> QED BY <1>1, <2>1, <2>5
<1>3. CASE accept
  <2> DEFINE m == Min(Free)
  <2>0. PICK h \in Clients : h = Head(backlog)
    BY <1>0, <1>3, HeadTailProperties DEF accept
  <2>1. /\ UNCHANGED <<clientVars, up, down, buffer, sockfd, reading>> /\ spc = "accept" /\ spc' = "create"
        /\ backlog # <<>> /\ Free # {} /\ connectfd' = m /\ file' = [file EXCEPT ![m] = h]
        /\ tpc' = [tpc EXCEPT ![h] = "due"] /\ backlog' = Tail(backlog)
    BY <1>3, <2>0 DEF accept, MainGoto
  <2>2. /\ Len(backlog) \in Nat /\ Len(backlog) # 0 /\ h = backlog[1] /\ backlog' \in Seq(Clients)
        /\ Len(backlog') = Len(backlog) - 1 /\ \A k \in 1 .. Len(backlog) - 1 : backlog'[k] = backlog[k + 1]
    BY <1>0, <2>0, <2>1, HeadTailProperties, EmptySeq
  <2>3. m \in Fds /\ file[m] = NoSocket
    BY <2>1, LowestFree
  <2>4. tpc[h] = "none" /\ cpc[h] = "on" /\ h \in ServerThreads /\ 1 \in 1 .. Len(backlog)
    <3>1. 1 \in 1 .. Len(backlog)
      BY <2>2
    <3> QED BY <2>2, <3>1, Names DEF WaitOK, CalmOK, QueueOK
  <2> HIDE DEF m
  <2>5. file'[m] = h /\ tpc'[h] = "due" /\ \A x \in ServerThreads : x # h => tpc'[x] = tpc[x]
    BY <1>0, <2>1, <2>3, <2>4
  <2>6. \A f \in Fds : f # m => file'[f] = file[f]
    BY <1>0, <2>1
  <2>7. \A x \in Clients : tpc[x] # "due"
    BY <2>1 DEF CalmOK, FdsOK
  <2>8. ~Active(h)' /\ \A x \in Clients : x # h => (Active(x)' <=> Active(x))
    BY <2>5, Names DEF Active
  <2>9. FdsOK'
    <3>1. ServerUp' /\ \A s \in Strays : tpc'[s] = "none"
      BY <2>1, <2>2, <2>5, Names DEF CalmOK, FdsOK, ServerUp
    <3>2. (spc = "create" => connectfd \in Fds /\ file[connectfd] \in Clients
          /\ tpc[file[connectfd]] = "due")'
      BY <2>1, <2>2, <2>3, <2>5
    <3>3. ASSUME NEW x \in Clients
          PROVE  /\ tpc'[x] = "due" => spc' = "create" /\ file'[connectfd'] = x
                 /\ Active(x)' => sockfd'[x] \in Fds /\ file'[sockfd'[x]] = x
                 /\ tpc'[x] = "read" => reading'[x] = x
      <4>1. CASE x = h
        BY <2>1, <2>5, <2>8, <4>1
      <4>2. CASE x # h
        <5>1. tpc'[x] = tpc[x] /\ tpc[x] # "due" /\ (Active(x)' <=> Active(x))
          BY <2>5, <2>7, <2>8, <4>2, Names
        <5>2. Active(x) => sockfd[x] \in Fds /\ file[sockfd[x]] = x /\ sockfd[x] # m
          BY <2>3, Names DEF CalmOK, FdsOK
        <5>3. tpc[x] = "read" => reading[x] = x
          BY DEF CalmOK, FdsOK
        <5> QED BY <2>1, <2>6, <5>1, <5>2, <5>3
      <4> QED BY <4>1, <4>2
    <3>4. ASSUME NEW f \in Fds, file'[f] \in Clients
          PROVE  \/ Active(file[f])' /\ sockfd'[file'[f]] = f
                 \/ tpc'[file'[f]] = "due" /\ connectfd' = f
      <4>1. CASE f = m
        BY <2>1, <2>5, <4>1
      <4>2. CASE f # m
        <5>1. Active(file[f]) /\ sockfd[file[f]] = f /\ file'[f] = file[f] /\ file[f] \in Clients
          BY <2>6, <2>7, <3>4, <4>2 DEF CalmOK, FdsOK
        <5>2. file[f] # h
          BY <2>4, <5>1 DEF Active
        <5> QED BY <2>1, <2>8, <5>1, <5>2
      <4> QED BY <4>1, <4>2
    <3> QED BY <3>1, <3>2, <3>3, <3>4 DEF FdsOK
  <2>10. QueueOK'
    <3>1. ASSUME NEW k \in 1 .. Len(backlog') PROVE cpc'[backlog'[k]] = "on"
      <4>1. k + 1 \in 1 .. Len(backlog) /\ backlog'[k] = backlog[k + 1]
        BY <2>2
      <4> QED BY <2>1, <4>1 DEF CalmOK, QueueOK, clientVars
    <3>2. ASSUME NEW x \in Clients, cpc'[x] = "on", tpc'[x] = "none"
          PROVE  \E k \in 1 .. Len(backlog') : backlog'[k] = x
      <4>1. x # h /\ tpc[x] = "none" /\ cpc[x] = "on"
        BY <2>1, <2>5, <3>2, Names DEF clientVars
      <4>2. PICK k \in 1 .. Len(backlog) : backlog[k] = x
        BY <4>1 DEF CalmOK, QueueOK
      <4>3. k # 1
        BY <2>2, <4>1, <4>2
      <4>4. k - 1 \in 1 .. Len(backlog') /\ k - 1 \in 1 .. Len(backlog) - 1 /\ (k - 1) + 1 = k
        BY <2>2, <4>3
      <4>5. backlog'[k - 1] = x
        BY <2>2, <4>2, <4>4
      <4> QED BY <4>4, <4>5
    <3> QED BY <3>1, <3>2 DEF QueueOK
  <2>11. StateOK(h, cpc[h], "due", typed[h], shut[h], printed[h], down[h], buffer[h], up[h])
    <3>1. StateOK(h, cpc[h], tpc[h], typed[h], shut[h], printed[h], down[h], buffer[h], up[h])
      BY <2>2 DEF CalmOK, ClientOK
    <3> QED BY <2>2, <2>4, <3>1, MoveState
  <2>12. /\ buffer' = [buffer EXCEPT ![h] = buffer[h]] /\ down' = [down EXCEPT ![h] = down[h]]
         /\ up' = [up EXCEPT ![h] = up[h]] /\ buffer[h] \in Items \cup {<<>>}
         /\ down[h] \in Seq(Items) /\ up[h] \in Seq(Items)
    BY <1>0, <2>1, <2>2, <2>4
  <2>13. UNCHANGED clientVars /\ tpc' = [tpc EXCEPT ![h] = "due"]
    BY <2>1
  <2> QED BY <2>9, <2>10, <2>11, <2>12, <2>13, CalmServes, Zenon
<1>4. CASE pthread_create
  <2>1. PICK t \in ServerThreads :
          /\ UNCHANGED <<clientVars, up, down, buffer, backlog, connectfd, reading, file>>
          /\ spc = "create" /\ spc' = "accept" /\ tpc[t] = "due"
          /\ tpc' = [tpc EXCEPT ![t] = "start"] /\ sockfd' = [sockfd EXCEPT ![t] = connectfd]
    BY <1>4 DEF pthread_create, StartThread
  <2>2. t \in Clients /\ file[connectfd] = t /\ connectfd \in Fds
    BY <2>1, Names DEF CalmOK, FdsOK
  <2>3. /\ tpc'[t] = "start" /\ sockfd'[t] = connectfd
        /\ \A x \in ServerThreads : x # t => tpc'[x] = tpc[x] /\ sockfd'[x] = sockfd[x]
    BY <1>0, <2>1
  <2>4. Active(t)' /\ \A x \in Clients : x # t => (Active(x)' <=> Active(x))
    BY <2>3, Names DEF Active
  <2>5. \A x \in Clients : tpc'[x] # "due"
    BY <2>1, <2>2, <2>3, Names DEF CalmOK, FdsOK
  <2>6. FdsOK'
    <3>1. ServerUp' /\ (\A s \in Strays : tpc'[s] = "none") /\ spc' # "create"
      BY <2>1, <2>2, <2>3, Names DEF CalmOK, FdsOK, ServerUp
    <3>3. ASSUME NEW x \in Clients
          PROVE  /\ Active(x)' => sockfd'[x] \in Fds /\ file'[sockfd'[x]] = x
                 /\ tpc'[x] = "read" => reading'[x] = x
      BY <2>1, <2>2, <2>3, <2>4, Names DEF CalmOK, FdsOK
    <3>4. ASSUME NEW f \in Fds, file'[f] \in Clients PROVE Active(file[f])' /\ sockfd'[file'[f]] = f
      <4>1. CASE file[f] = t
        BY <2>1, <2>2, <2>3, <2>4, <3>4, <4>1 DEF CalmOK, FdsOK, Active
      <4>2. CASE file[f] # t
        <5>1. tpc[file[f]] # "due"
          BY <2>1, <2>2, <3>4, <4>2 DEF CalmOK, FdsOK
        <5> QED BY <2>1, <2>3, <2>4, <3>4, <4>2, <5>1, Names DEF CalmOK, FdsOK
      <4> QED BY <4>1, <4>2
    <3> QED BY <2>5, <3>1, <3>3, <3>4 DEF FdsOK
  <2>7. QueueOK'
    <3>1. \A x \in Clients : tpc'[x] = "none" => tpc[x] = "none"
      BY <2>3, Names
    <3> QED BY <2>1, <3>1, QueueSame DEF CalmOK, clientVars
  <2>8. StateOK(t, cpc[t], "start", typed[t], shut[t], printed[t], down[t], buffer[t], up[t])
    <3>1. StateOK(t, cpc[t], tpc[t], typed[t], shut[t], printed[t], down[t], buffer[t], up[t])
      BY <2>2 DEF CalmOK, ClientOK
    <3> QED BY <2>1, <2>2, <3>1, MoveState
  <2>9. /\ buffer' = [buffer EXCEPT ![t] = buffer[t]] /\ down' = [down EXCEPT ![t] = down[t]]
        /\ up' = [up EXCEPT ![t] = up[t]] /\ buffer[t] \in Items \cup {<<>>}
        /\ down[t] \in Seq(Items) /\ up[t] \in Seq(Items)
    BY <1>0, <2>1, <2>2
  <2>10. UNCHANGED clientVars /\ tpc' = [tpc EXCEPT ![t] = "start"] /\ t \in Clients
    BY <2>1, <2>2
  <2> QED BY <2>6, <2>7, <2>8, <2>9, <2>10, CalmServes, Zenon
<1>5. CASE AcceptFails \/ KillServer
  BY <1>5 DEF AcceptFails, KillServer, Fault
<1>6. CASE PortFreed
  <2>1. UNCHANGED <<clientVars, up, down, buffer, tpc, backlog, spc, connectfd, threadVars, file>>
    BY <1>6 DEF PortFreed, threadVars
  <2>2. FdsOK'
    BY <2>1 DEF CalmOK, FdsOK, ServerUp, Active, threadVars
  <2> QED BY <1>1, <2>1, <2>2
<1> QED BY <1>2, <1>3, <1>4, <1>5, <1>6 DEF main

\* A thread that leaves read while its descriptor is open lets go of nothing.
LEMMA NothingClosed ==
  ASSUME BaseOK, FdsOK, NEW c \in Clients, Active(c), NEW rest, NEW in,
         \A t \in ServerThreads \ {c} : in[t] = reading[t], DOMAIN in = ServerThreads, DOMAIN rest = Clients,
         reading[c] \in {c, NoSocket}, down \in [Clients -> Seq(Items)],
         HangUp(Held(file, reading) \ Held(file, in), rest), rest \in [Clients -> Seq(Items)]
  PROVE  up' = rest /\ down' = down
<1>1. file \in [Fds -> Clients \cup {Listen, NoSocket}]
      /\ reading \in [ServerThreads -> Clients \cup {NoSocket}]
  BY DEF BaseOK, ThreadTypeOK
<1>2. sockfd[c] \in Fds /\ file[sockfd[c]] = c
  BY DEF FdsOK
<1>3. c \in Range(file)
  BY <1>1, <1>2 DEF Range
<1>4. Held(file, reading) \subseteq Held(file, in)
  <2> SUFFICES ASSUME NEW x \in Clients, x \in Range(reading), x \notin Range(file) PROVE x \in Range(in)
    BY DEF Held
  <2>1. PICK t \in ServerThreads : reading[t] = x
    BY <1>1 DEF Range
  <2>2. t # c
    BY <1>3, <2>1, Names
  <2> QED BY <2>1, <2>2 DEF Range
<1>5. Held(file, reading) \ Held(file, in) = {}
  BY <1>4
<1>6. up' = [x \in Clients |-> rest[x]] /\ down' = [x \in Clients |-> down[x]]
  BY <1>5 DEF HangUp
<1> QED BY <1>6

\* Its own connection is all that a thread lets go of by close.
LEMMA OwnClosed ==
  ASSUME BaseOK, WaitOK, CalmOK, NEW c \in Clients, tpc[c] = "close", cpc[c] = "on", up[c] = <<EOF(c)>>,
         NEW table, table = [f \in Fds |-> IF f = sockfd[c] THEN NoSocket ELSE file[f]],
         HangUp(Held(file, reading) \ Held(table, reading), up)
  PROVE  up' = [up EXCEPT ![c] = <<>>] /\ down' = [down EXCEPT ![c] = Append(down[c], EOF(c))]
<1>1. /\ file \in [Fds -> Clients \cup {Listen, NoSocket}]
      /\ reading \in [ServerThreads -> Clients \cup {NoSocket}]
      /\ backlog \in Seq(Clients) /\ down \in [Clients -> Seq(Items)] /\ up \in [Clients -> Seq(Items)]
      /\ \A t \in ServerThreads : (tpc[t] = "read") = (reading[t] # NoSocket)
  BY DEF BaseOK, ThreadTypeOK, CalmOK, DataOK
<1>2. sockfd[c] \in Fds /\ file[sockfd[c]] = c
  BY DEF CalmOK, FdsOK, Active
<1>3. c \in Held(file, reading)
  BY <1>1, <1>2 DEF Held, Range
<1>4. c \notin Range(table)
  <2> SUFFICES ASSUME NEW f \in Fds, table[f] = c PROVE FALSE
    BY DEF Range
  <2>1. f # sockfd[c] /\ file[f] = c
    BY Names
  <2> QED BY <2>1 DEF CalmOK, FdsOK
<1>5. c \notin Range(reading)
  <2> SUFFICES ASSUME NEW t \in ServerThreads, reading[t] = c PROVE FALSE
    BY <1>1 DEF Range
  <2>1. tpc[t] = "read"
    BY <1>1, Names
  <2>2. t \in Clients /\ reading[t] = t
    BY <2>1, Names DEF CalmOK, FdsOK
  <2> QED BY <2>1, <2>2
<1>6. ASSUME NEW x \in Held(file, reading), x # c PROVE x \in Held(table, reading)
  <2>1. CASE x \in Range(file)
    <3>1. PICK f \in Fds : file[f] = x
      BY <1>1, <2>1 DEF Range
    <3>2. table[f] = x /\ f \in DOMAIN table
      BY <1>2, <1>6, <3>1
    <3> QED BY <3>2 DEF Held, Range
  <2>2. CASE x \in Range(reading)
    BY <2>2 DEF Held
  <2> QED BY <2>1, <2>2 DEF Held
<1>7. Held(file, reading) \ Held(table, reading) = {c}
  BY <1>3, <1>4, <1>5, <1>6 DEF Held
<1>8. c \notin Range(backlog)
  <2> SUFFICES ASSUME NEW k \in DOMAIN backlog, backlog[k] = c PROVE FALSE
    BY DEF Range
  <2>1. k \in 1 .. Len(backlog)
    BY <1>1
  <2> QED BY <2>1 DEF WaitOK
<1>9. ~(\E k \in DOMAIN up[c] : IsLine(up[c][k]))
  <2>1. \A k \in DOMAIN <<EOF(c)>> : <<EOF(c)>>[k] = EOF(c)
    OBVIOUS
  <2> QED BY <2>1, ItemFacts
<1>10. ~Ended(c)
  BY DEF Ended
<1>11. /\ up' = [x \in Clients |-> IF x \in {c} THEN <<>> ELSE up[x]]
       /\ down' = [x \in Clients |-> IF x \notin {c} \/ Ended(x) THEN down[x]
                     ELSE Append(down[x], IF x \in Range(backlog) \/ \E k \in DOMAIN up[x] : IsLine(up[x][k])
                                            THEN RST(x) ELSE EOF(x))]
  BY <1>7 DEF HangUp
<1>12. up' = [up EXCEPT ![c] = <<>>]
  BY <1>1, <1>11
<1>13. ASSUME NEW x \in Clients PROVE down'[x] = [down EXCEPT ![c] = Append(down[c], EOF(c))][x]
  BY <1>1, <1>8, <1>9, <1>10, <1>11
<1>14. DOMAIN down' = Clients /\ down' = [x \in Clients |-> down'[x]]
  BY <1>11
<1>15. down' = [down EXCEPT ![c] = Append(down[c], EOF(c))]
  BY <1>1, <1>13, <1>14
<1> QED BY <1>12, <1>15

\* The steps of a thread that has its own descriptor: read finds its
\* connection, there is no SIGPIPE and no reset, and close ends this
\* connection only.
LEMMA CalmThread ==
  ASSUME BaseOK, WaitOK, CalmOK, NEW t \in ServerThreads, ~raced', str_serv(t)
  PROVE  CalmOK'
<1>0. /\ file \in [Fds -> Clients \cup {Listen, NoSocket}] /\ connectfd \in Fds \cup {-1}
      /\ tpc \in [ServerThreads -> {"none", "due", "start", "call", "read", "write", "close", "done"}]
      /\ sockfd \in [ServerThreads -> Fds \cup {-1}] /\ reading \in [ServerThreads -> Clients \cup {NoSocket}]
      /\ down \in [Clients -> Seq(Items)] /\ up \in [Clients -> Seq(Items)]
      /\ buffer \in [ServerThreads -> Items \cup {<<>>}]
      /\ \A x \in ServerThreads : (tpc[x] = "read") = (reading[x] # NoSocket)
  BY DEF BaseOK, ThreadTypeOK, CalmOK, DataOK
<1>1. tpc[t] \in {"start", "call", "read", "write", "close"}
  BY DEF str_serv, CopyFd, CallRead, BadFd, ReadLine, Write, Sigpipe, ReadEOF, ReadFails, Close, ThreadGoto
<1>2. PICK c \in Clients : c = t
  BY <1>1, Names DEF CalmOK, FdsOK
<1>3. Active(c) /\ sockfd[c] \in Fds /\ file[sockfd[c]] = c /\ (tpc[c] = "read" => reading[c] = c) /\ FdsOK
      /\ QueueOK
  BY <1>1, <1>2 DEF Active, CalmOK, FdsOK
<1>4. Open(sockfd[c])
  BY <1>3, Names DEF Open
<1> DEFINE th == tpc[c]
           n == typed[c]
           s == shut[c]
           p == printed[c]
           d == down[c]
           b == buffer[c]
           u == up[c]
           cl == cpc[c]
<1>5. n \in Nat /\ s \in BOOLEAN /\ p \in Seq(Items) /\ d \in Seq(Items) /\ u \in Seq(Items)
      /\ b \in Items \cup {<<>>}
  BY <1>0, <1>2, ClientFacts
<1>6. StateOK(c, cl, th, n, s, p, d, b, u)
  BY ClientFacts DEF ClientOK
<1>7. down = [down EXCEPT ![c] = d] /\ up = [up EXCEPT ![c] = u] /\ buffer = [buffer EXCEPT ![c] = b]
  BY <1>0, <1>2
<1>8. ASSUME NEW to \in {"call", "read", "write", "close", "done"}, tpc' = [tpc EXCEPT ![c] = to],
      UNCHANGED <<backlog, cpc>>
      PROVE  QueueOK'
  <2>1. \A x \in Clients : tpc'[x] = "none" => tpc[x] = "none"
    BY <1>0, <1>8, Names
  <2> QED BY <1>3, <1>8, <2>1, QueueSame
<1> HIDE DEF th, n, s, p, d, b, u, cl
<1>9. CASE CopyFd(c)
  <2>1. /\ UNCHANGED <<clientVars, mainVars, backlog, up, down, file, reading, buffer>> /\ tpc[c] = "start"
        /\ tpc' = [tpc EXCEPT ![c] = "call"] /\ sockfd' = [sockfd EXCEPT ![c] = connectfd]
        /\ raced' = (raced \/ connectfd # sockfd[c])
    BY <1>9 DEF CopyFd, ThreadGoto
  <2>2. sockfd' = sockfd
    BY <1>0, <2>1
  <2>3. FdsOK'
    BY <1>3, <2>1, <2>2, FdsActive DEF mainVars
  <2>4. StateOK(c, cl, "call", n, s, p, d, b, u)
    BY <1>6, <2>1, MoveState DEF th
  <2>5. QueueOK'
    BY <1>8, <2>1 DEF clientVars
  <2>6. /\ UNCHANGED clientVars /\ tpc' = [tpc EXCEPT ![c] = "call"]
        /\ down' = [down EXCEPT ![c] = d] /\ up' = [up EXCEPT ![c] = u] /\ buffer' = [buffer EXCEPT ![c] = b]
    BY <1>7, <2>1
  <2> QED BY <1>5, <2>3, <2>4, <2>5, <2>6, CalmServes, Zenon DEF cl, n, s, p
<1>10. CASE CallRead(c)
  <2>1. /\ UNCHANGED <<clientVars, mainVars, backlog, up, down, file, sockfd, buffer>> /\ tpc[c] = "call"
        /\ tpc' = [tpc EXCEPT ![c] = "read"] /\ reading' = [reading EXCEPT ![c] = file[sockfd[c]]]
    BY <1>10 DEF CallRead, ThreadGoto
  <2>2. reading'[c] = c /\ \A x \in Clients \ {c} : reading'[x] = reading[x]
    BY <1>0, <1>2, <1>3, <2>1, Names
  <2>3. FdsOK'
    BY <1>3, <2>1, <2>2, FdsActive DEF mainVars
  <2>4. StateOK(c, cl, "read", n, s, p, d, b, u)
    BY <1>6, <2>1, MoveState DEF th
  <2>5. QueueOK'
    BY <1>8, <2>1 DEF clientVars
  <2>6. /\ UNCHANGED clientVars /\ tpc' = [tpc EXCEPT ![c] = "read"]
        /\ down' = [down EXCEPT ![c] = d] /\ up' = [up EXCEPT ![c] = u] /\ buffer' = [buffer EXCEPT ![c] = b]
    BY <1>7, <2>1
  <2> QED BY <1>5, <2>3, <2>4, <2>5, <2>6, CalmServes, Zenon DEF cl, n, s, p
<1>11. CASE BadFd(c)
  BY <1>4, <1>11 DEF BadFd
<1>12. CASE ReadLine(c)
  <2>1. /\ UNCHANGED <<clientVars, mainVars, backlog, file, sockfd>> /\ tpc[c] = "read"
        /\ tpc' = [tpc EXCEPT ![c] = "write"] /\ reading' = [reading EXCEPT ![c] = NoSocket]
        /\ up[reading[c]] # <<>> /\ IsLine(Head(up[reading[c]]))
        /\ buffer' = [buffer EXCEPT ![c] = Head(up[reading[c]])]
        /\ HangUp(Held(file, reading) \ Held(file, reading'),
           [up EXCEPT ![reading[c]] = Tail(up[reading[c]])])
    BY <1>12 DEF ReadLine, ThreadGoto
  <2>2. reading[c] = c
    BY <1>3, <2>1
  <2>3. u # <<>> /\ IsLine(Head(u)) /\ buffer' = [buffer EXCEPT ![c] = Head(u)]
    BY <2>1, <2>2 DEF u
  <2>4. StateOK(c, cl, "write", n, s, p, d, Head(u), Tail(u))
    <3>1. StateOK(c, cl, "read", n, s, p, d, b, u)
      BY <1>6, <2>1 DEF th
    <3> QED BY <1>5, <2>3, <3>1, ReadState
  <2>5. Head(u) \in Items /\ Tail(u) \in Seq(Items)
    BY <1>5, <2>3, SeqFacts
  <2>6. up' = [up EXCEPT ![c] = Tail(u)] /\ down' = down
    <3> DEFINE rest == [up EXCEPT ![c] = Tail(u)]
               in == reading'
    <3>1. /\ \A x \in ServerThreads \ {c} : in[x] = reading[x]
          /\ DOMAIN in = ServerThreads
      BY <1>0, <2>1
    <3>2. rest \in [Clients -> Seq(Items)] /\ DOMAIN rest = Clients
      BY <1>0, <2>5
    <3>3. HangUp(Held(file, reading) \ Held(file, in), rest)
      BY <2>1, <2>2 DEF u
    <3> HIDE DEF rest, in
    <3>4. up' = rest /\ down' = down
      BY <1>0, <1>3, <2>2, <3>1, <3>2, <3>3, NothingClosed
    <3> QED BY <3>4 DEF rest
  <2>7. FdsOK'
    <3>1. \A x \in Clients \ {c} : reading'[x] = reading[x]
      BY <1>0, <2>1, Names
    <3> QED BY <1>3, <2>1, <3>1, FdsActive DEF mainVars
  <2>8. QueueOK'
    BY <1>8, <2>1 DEF clientVars
  <2>9. UNCHANGED clientVars /\ tpc' = [tpc EXCEPT ![c] = "write"] /\ down' = [down EXCEPT ![c] = d]
    BY <1>7, <2>1, <2>6
  <2>10. Head(u) \in Items \cup {<<>>}
    BY <2>5
  <2> QED BY <1>5, <2>3, <2>4, <2>5, <2>6, <2>7, <2>8, <2>9, <2>10, CalmServes, Zenon DEF cl, n, s, p
<1>13. CASE Write(c)
  <2>1. /\ UNCHANGED <<clientVars, mainVars, backlog, up, file, sockfd, reading>> /\ tpc[c] = "write"
        /\ tpc' = [tpc EXCEPT ![c] = "call"] /\ buffer' = [buffer EXCEPT ![c] = <<>>]
        /\ down' = IF c = NoSocket \/ Ended(c) THEN down ELSE [down EXCEPT ![c] = Append(@, b)]
    BY <1>3, <1>4, <1>13 DEF Write, ThreadGoto, b
  <2>2. cl = "on" /\ b \in Items /\ StateOK(c, cl, "call", n, s, p, Append(d, b), <<>>, u)
    <3>1. StateOK(c, cl, "write", n, s, p, d, b, u)
      BY <1>6, <2>1 DEF th
    <3> QED BY <1>5, <3>1, WriteState
  <2>3. down' = [down EXCEPT ![c] = Append(d, b)]
    BY <2>1, <2>2, Names DEF Ended, cl, d
  <2>4. Append(d, b) \in Seq(Items)
    BY <1>5, <2>2
  <2>5. FdsOK'
    BY <1>3, <2>1, FdsActive DEF mainVars
  <2>6. QueueOK'
    BY <1>8, <2>1 DEF clientVars
  <2>7. UNCHANGED clientVars /\ tpc' = [tpc EXCEPT ![c] = "call"] /\ up' = [up EXCEPT ![c] = u]
        /\ buffer' = [buffer EXCEPT ![c] = <<>>]
    BY <1>7, <2>1
  <2>8. <<>> \in Items \cup {<<>>}
    OBVIOUS
  <2> QED BY <1>5, <2>2, <2>3, <2>4, <2>5, <2>6, <2>7, <2>8, CalmServes, Zenon DEF cl, n, s, p
<1>14. CASE Sigpipe(c)
  <2>1. tpc[c] = "write" /\ Ended(c)
    BY <1>3, <1>14 DEF Sigpipe
  <2>2. cl = "on"
    <3>1. StateOK(c, cl, "write", n, s, p, d, b, u)
      BY <1>6, <2>1 DEF th
    <3> QED BY <1>5, <3>1, WriteState
  <2> QED BY <2>1, <2>2 DEF Ended, cl
<1>15. CASE ReadEOF(c)
  <2>1. /\ UNCHANGED <<clientVars, mainVars, backlog, file, sockfd, buffer>> /\ tpc[c] = "read"
        /\ tpc' = [tpc EXCEPT ![c] = "close"] /\ reading' = [reading EXCEPT ![c] = NoSocket]
        /\ up[reading[c]] # <<>> /\ Head(up[reading[c]]) = EOF(reading[c])
        /\ HangUp(Held(file, reading) \ Held(file, reading'), up)
    BY <1>15 DEF ReadEOF, ThreadGoto
  <2>2. reading[c] = c
    BY <1>3, <2>1
  <2>3. u # <<>> /\ ~IsLine(Head(u))
    BY <2>1, <2>2, ItemFacts DEF u
  <2>4. StateOK(c, cl, "close", n, s, p, d, b, u)
    <3>1. StateOK(c, cl, "read", n, s, p, d, b, u)
      BY <1>6, <2>1 DEF th
    <3> QED BY <1>5, <2>3, <3>1, ReadState
  <2>6. up' = up /\ down' = down
    <3> DEFINE in == reading'
    <3>1. /\ \A x \in ServerThreads \ {c} : in[x] = reading[x]
          /\ DOMAIN in = ServerThreads
      BY <1>0, <2>1
    <3>2. DOMAIN up = Clients
      BY <1>0
    <3>3. HangUp(Held(file, reading) \ Held(file, in), up)
      BY <2>1
    <3> HIDE DEF in
    <3> QED BY <1>0, <1>3, <2>2, <3>1, <3>2, <3>3, NothingClosed
  <2>7. FdsOK'
    <3>1. \A x \in Clients \ {c} : reading'[x] = reading[x]
      BY <1>0, <2>1, Names
    <3> QED BY <1>3, <2>1, <3>1, FdsActive DEF mainVars
  <2>8. QueueOK'
    BY <1>8, <2>1 DEF clientVars
  <2>9. /\ UNCHANGED clientVars /\ tpc' = [tpc EXCEPT ![c] = "close"]
        /\ down' = [down EXCEPT ![c] = d] /\ up' = [up EXCEPT ![c] = u] /\ buffer' = [buffer EXCEPT ![c] = b]
    BY <1>7, <2>1, <2>6
  <2> QED BY <1>5, <2>4, <2>7, <2>8, <2>9, CalmServes, Zenon DEF cl, n, s, p
<1>16. CASE ReadFails(c)
  <2>1. tpc[c] = "read" /\ up[reading[c]] # <<>> /\ Head(up[reading[c]]) = RST(reading[c])
    BY <1>16 DEF ReadFails
  <2>2. u # <<>> /\ ~IsLine(Head(u)) /\ Head(u) # EOF(c)
    BY <1>3, <2>1, ItemFacts DEF u
  <2>3. StateOK(c, cl, "read", n, s, p, d, b, u)
    BY <1>6, <2>1 DEF th
  <2> QED BY <1>5, <2>2, <2>3, ReadState
<1>17. CASE Close(c)
  <2>1. /\ UNCHANGED <<clientVars, mainVars, backlog, reading, buffer>> /\ tpc[c] = "close"
        /\ tpc' = [tpc EXCEPT ![c] = "done"] /\ sockfd' = [sockfd EXCEPT ![c] = -1]
        /\ file' = [f \in Fds |-> IF f = sockfd[c] THEN NoSocket ELSE file[f]]
        /\ HangUp(Held(file, reading) \ Held(file', reading), up)
    BY <1>17 DEF Close, ThreadGoto
  <2>2. cl = "on" /\ u = <<EOF(c)>> /\ StateOK(c, cl, "done", n, s, p, Append(d, EOF(c)), b, <<>>)
    <3>1. StateOK(c, cl, "close", n, s, p, d, b, u)
      BY <1>6, <2>1 DEF th
    <3> QED BY <1>5, <3>1, CloseState
  <2>3. up' = [up EXCEPT ![c] = <<>>] /\ down' = [down EXCEPT ![c] = Append(d, EOF(c))]
    <3> DEFINE table == file'
    <3>1. table = [f \in Fds |-> IF f = sockfd[c] THEN NoSocket ELSE file[f]]
      BY <2>1
    <3>2. HangUp(Held(file, reading) \ Held(table, reading), up)
      BY <2>1
    <3>3. cpc[c] = "on" /\ up[c] = <<EOF(c)>> /\ tpc[c] = "close"
      BY <2>1, <2>2 DEF cl, u
    <3> HIDE DEF table
    <3> QED BY <3>1, <3>2, <3>3, OwnClosed DEF d
  <2>4. Append(d, EOF(c)) \in Seq(Items) /\ <<>> \in Seq(Items)
    BY <1>5, ItemFacts
  <2>5. FdsOK'
    <3>1. tpc'[c] = "done" /\ \A x \in ServerThreads : x # c => tpc'[x] = tpc[x] /\ sockfd'[x] = sockfd[x]
      BY <1>0, <1>2, <2>1
    <3>2. ~Active(c)' /\ \A x \in Clients : x # c => (Active(x)' <=> Active(x))
      BY <3>1, Names DEF Active
    <3>3. \A f \in Fds : file'[f] = IF f = sockfd[c] THEN NoSocket ELSE file[f]
      BY <2>1
    <3>4. ServerUp' /\ (\A x \in Strays : tpc'[x] = "none") /\ spc' = spc /\ connectfd' = connectfd
          /\ reading' = reading
      BY <1>3, <2>1, <3>1, Names DEF FdsOK, ServerUp, mainVars
    <3>5. (spc = "create" => connectfd \in Fds /\ file[connectfd] \in Clients
          /\ tpc[file[connectfd]] = "due")'
      <4> SUFFICES ASSUME spc = "create"
          PROVE  connectfd \in Fds /\ file'[connectfd] \in Clients /\ tpc'[file'[connectfd]] = "due"
        BY <3>4
      <4>1. connectfd \in Fds /\ file[connectfd] \in Clients /\ tpc[file[connectfd]] = "due"
        BY <1>3 DEF FdsOK
      <4>2. connectfd # sockfd[c] /\ file[connectfd] # c
        BY <1>3, <2>1, <4>1
      <4> QED BY <3>1, <3>3, <4>1, <4>2, Names
    <3>6. ASSUME NEW x \in Clients
          PROVE  /\ tpc'[x] = "due" => spc' = "create" /\ file'[connectfd'] = x
                 /\ Active(x)' => sockfd'[x] \in Fds /\ file'[sockfd'[x]] = x
                 /\ tpc'[x] = "read" => reading'[x] = x
      <4>1. CASE x = c
        BY <3>1, <3>2, <4>1
      <4>2. CASE x # c
        <5>1. tpc'[x] = tpc[x] /\ sockfd'[x] = sockfd[x] /\ (Active(x)' <=> Active(x))
          BY <3>1, <3>2, <4>2, Names
        <5>2. tpc[x] = "due" => spc = "create" /\ connectfd \in Fds /\ file[connectfd] = x
          BY <1>3 DEF FdsOK
        <5>3. Active(x) => sockfd[x] \in Fds /\ file[sockfd[x]] = x
          BY <1>3 DEF FdsOK
        <5>4. tpc[x] = "read" => reading[x] = x
          BY <1>3 DEF FdsOK
        <5> QED BY <1>3, <3>3, <3>4, <4>2, <5>1, <5>2, <5>3, <5>4
      <4> QED BY <4>1, <4>2
    <3>7. ASSUME NEW f \in Fds, file'[f] \in Clients
          PROVE  \/ Active(file[f])' /\ sockfd'[file'[f]] = f
                 \/ tpc'[file'[f]] = "due" /\ connectfd' = f
      <4>1. f # sockfd[c] /\ file'[f] = file[f] /\ file[f] \in Clients
        BY <3>3, <3>7, Names
      <4>2. file[f] # c
        BY <1>3, <2>1, <4>1 DEF FdsOK
      <4>3. \/ Active(file[f]) /\ sockfd[file[f]] = f
            \/ tpc[file[f]] = "due" /\ connectfd = f
        BY <1>3, <4>1 DEF FdsOK
      <4> QED BY <3>1, <3>2, <3>4, <4>1, <4>2, <4>3, Names
    <3> QED BY <3>4, <3>5, <3>6, <3>7 DEF FdsOK
  <2>6. QueueOK'
    BY <1>8, <2>1 DEF clientVars
  <2>7. UNCHANGED clientVars /\ tpc' = [tpc EXCEPT ![c] = "done"] /\ buffer' = [buffer EXCEPT ![c] = b]
    BY <1>7, <2>1
  <2> QED BY <1>5, <2>2, <2>3, <2>4, <2>5, <2>6, <2>7, CalmServes, Zenon DEF cl, n, s, p
<1> QED BY <1>2, <1>9, <1>10, <1>11, <1>12, <1>13, <1>14, <1>15, <1>16, <1>17 DEF str_serv

\* The inductive invariant, at the start and over every step.
LEMMA ThreadInvInit == ThreadInit => ThreadInv
<1> SUFFICES ASSUME ThreadInit PROVE ThreadInv
  OBVIOUS
<1>1. /\ taken \in BOOLEAN /\ shut = [c \in Clients |-> FALSE] /\ raced = FALSE
  BY DEF ThreadInit
<1>2. ThreadTypeOK
  <2>1. /\ cpc \in [Clients -> {"off", "on", "exit0", "failed", "refused", "killed"}]
        /\ typed \in [Clients -> 0 .. Lines]
        /\ spc \in {"socket", "bind", "accept", "create", "gone"}
        /\ connectfd \in Fds \cup {-1} /\ file \in [Fds -> Clients \cup {Listen, NoSocket}]
        /\ tpc \in [ServerThreads -> {"none", "due", "start", "call", "read", "write", "close", "done"}]
        /\ sockfd \in [ServerThreads -> Fds \cup {-1}]
        /\ reading \in [ServerThreads -> Clients \cup {NoSocket}]
        /\ \A t \in ServerThreads : (tpc[t] = "read") = (reading[t] # NoSocket)
        /\ faults \subseteq Clients \cup {Listen}
    BY SizesAssumption DEF ThreadInit
  <2>2. shut \in [Clients -> BOOLEAN] /\ raced \in BOOLEAN
    BY <1>1, Zenon
  <2> QED BY <1>1, <2>1, <2>2 DEF ThreadTypeOK
<1>3. BaseOK
  BY <1>2, Names DEF ThreadInit, BaseOK, ListenApart, BeforeAccept
<1>4. backlog = <<>> /\ Len(backlog) = 0 /\ \A k \in 1 .. Len(backlog) : FALSE
  BY EmptySeq DEF ThreadInit
<1>5. WaitOK
  BY <1>4, Names DEF WaitOK, ThreadInit
<1>6. FdsOK /\ QueueOK
  BY <1>4, Names DEF FdsOK, QueueOK, ThreadInit, Active, ServerUp
<1>7. DataOK
  BY DEF DataOK, ThreadInit
<1>8. ASSUME NEW c \in Clients PROVE ClientOK(c)
  <2>1. /\ cpc[c] = "off" /\ tpc[c] = "none" /\ typed[c] = 0 /\ ~shut[c] /\ printed[c] = <<>> /\ up[c] = <<>>
        /\ down[c] = <<>>
    BY Names DEF ThreadInit
  <2> QED BY <2>1 DEF ClientOK, StateOK
<1> QED BY <1>3, <1>5, <1>6, <1>7, <1>8 DEF ThreadInv, CalmOK

LEMMA ThreadInvStep == ThreadInv /\ [ThreadNext]_threadedVars => ThreadInv'
<1> SUFFICES ASSUME ThreadInv, [ThreadNext]_threadedVars PROVE ThreadInv'
  OBVIOUS
<1>0. BaseOK /\ WaitOK
  BY DEF ThreadInv
<1>1. CASE main \/ AcceptFails \/ KillServer \/ PortFreed
  <2>1. BaseOK' /\ WaitOK'
    BY <1>0, <1>1, BaseMain, WaitMain
  <2>2. raced' = raced /\ (faults' = {} => faults = {})
    <3>1. raced' = raced
      BY <1>1 DEF main, socket, BindFails, bind, accept, pthread_create, StartThread, AcceptFails, KillServer,
                  ServerEnds, PortFreed, MainGoto
    <3>2. faults' = faults \/ faults' = faults \cup {Listen}
      BY <1>1 DEF main, socket, BindFails, bind, accept, pthread_create, StartThread, AcceptFails, KillServer,
                  PortFreed, Fault
    <3> QED BY <3>1, <3>2
  <2>3. ASSUME Calm' PROVE CalmOK'
    <3>1. CalmOK
      BY <2>2, <2>3 DEF ThreadInv, Calm
    <3> QED BY <1>0, <1>1, <2>3, <3>1, CalmMain DEF Calm
  <2> QED BY <2>1, <2>3 DEF ThreadInv
<1>2. ASSUME NEW t \in ServerThreads, str_serv(t) PROVE ThreadInv'
  <2>1. BaseOK' /\ WaitOK'
    BY <1>0, <1>2, BaseThread, WaitThread
  <2>2. (~raced' => ~raced) /\ faults' = faults
    <3>1. CASE CopyFd(t)
      <4>1. raced' = (raced \/ connectfd # sockfd[t]) /\ faults' = faults
        BY <3>1 DEF CopyFd, ThreadGoto
      <4> QED BY <4>1, Zenon
    <3>2. CASE ~CopyFd(t)
      BY <1>2, <3>2 DEF str_serv, CallRead, BadFd, ReadLine, Write, Sigpipe, ReadEOF, ReadFails, Close,
         ThreadGoto,
                        ServerEnds
    <3> QED BY <3>1, <3>2
  <2>3. ASSUME Calm' PROVE CalmOK'
    <3>1. CalmOK
      BY <2>2, <2>3 DEF ThreadInv, Calm
    <3> QED BY <1>0, <1>2, <2>3, <3>1, CalmThread DEF Calm
  <2> QED BY <2>1, <2>3 DEF ThreadInv
<1>3. ASSUME NEW c \in Clients, connect(c) \/ ConnectRefused(c) \/ copyto(c) \/ receive(c) \/ KillClient(c)
      PROVE  ThreadInv'
  <2>1. BaseOK' /\ WaitOK'
    BY <1>0, <1>3, BaseClient, WaitClient
  <2>2. raced' = raced /\ (faults' = {} => faults = {})
    BY <1>3 DEF connect, ConnectRefused, copyto, receive, SendLine, SendFails, Shutdown, ShowEcho,
       ServerClosed,
                KillClient, ClientGoto, Fault
  <2>3. ASSUME Calm' PROVE CalmOK'
    <3>1. CalmOK
      BY <2>2, <2>3 DEF ThreadInv, Calm
    <3> QED BY <1>0, <1>3, <2>3, <3>1, CalmClient DEF Calm
  <2> QED BY <2>1, <2>3 DEF ThreadInv
<1>4. CASE UNCHANGED threadedVars
  <2>1. /\ UNCHANGED <<cpc, typed, shut, printed, spc, connectfd, taken, tpc, sockfd, reading, buffer>>
        /\ UNCHANGED <<up, down, backlog, file, raced, faults>>
    BY <1>4 DEF threadedVars, clientVars, mainVars, threadVars
  <2>2. BaseOK' /\ WaitOK'
    BY <1>0, <2>1 DEF BaseOK, ThreadTypeOK, ListenApart, BeforeAccept, WaitOK, ServerUp
  <2>3. ASSUME Calm' PROVE CalmOK'
    <3>1. CalmOK
      BY <2>1, <2>3 DEF ThreadInv, Calm
    <3>2. FdsOK' /\ QueueOK' /\ DataOK'
      BY <2>1, <3>1 DEF CalmOK, FdsOK, QueueOK, DataOK, ServerUp, Active
    <3>3. \A c \in Clients : ClientOK(c)'
      BY <2>1, <3>1, ClientSame DEF CalmOK
    <3> QED BY <3>2, <3>3 DEF CalmOK
  <2> QED BY <2>2, <2>3 DEF ThreadInv
<1> QED BY <1>1, <1>2, <1>3, <1>4 DEF ThreadNext

LEMMA ThreadInvHolds == ThreadSpec => []ThreadInv
BY ThreadInvInit, ThreadInvStep, PTL DEF ThreadSpec

\* Every variable of the threaded server and of its clients keeps its type,
\* for any clients, lines, descriptors and faults: even a thread that took the
\* descriptor of another connection never reads from the listening socket, and
\* the client at the head of the queue has no thread yet.
THEOREM ThreadTypeCorrect == ThreadSpec => []ThreadTypeOK
<1>1. ThreadInv => ThreadTypeOK
  BY DEF ThreadInv, BaseOK
<1> QED BY <1>1, ThreadInvHolds, PTL

\* While calm, every descriptor of a connection has its own thread.
LEMMA EachOneThread ==
  ASSUME BaseOK, FdsOK
  PROVE  OneThreadEach
<1> SUFFICES ASSUME NEW f \in Fds
             PROVE  /\ Cardinality(Users(f)) <= 1
                    /\ file[f] \in Clients => Users(f) = IF spc = "create" /\ f = connectfd THEN {}
                       ELSE {file[f]}
                    /\ Users(f) # {} => file[f] \in Clients
  BY DEF OneThreadEach
<1>1. ASSUME NEW t \in Users(f) PROVE t \in Clients /\ file[f] = t /\ Active(t)
  <2>1. t \in ServerThreads /\ sockfd[t] = f /\ Active(t)
    BY DEF Users, Active
  <2>2. t \in Clients
    BY <2>1, Names DEF FdsOK, Active
  <2> QED BY <2>1, <2>2 DEF FdsOK
<1>2. Users(f) \subseteq {file[f]}
  BY <1>1
<1>3. Cardinality(Users(f)) <= 1
  <2>1. Users(f) = {} \/ Users(f) = {file[f]}
    BY <1>2
  <2>2. Cardinality({}) = 0 /\ Cardinality({file[f]}) = 1
    BY FS_EmptySet, FS_Singleton
  <2> QED BY <2>1, <2>2
<1>4. ASSUME file[f] \in Clients PROVE Users(f) = IF spc = "create" /\ f = connectfd THEN {} ELSE {file[f]}
  <2>1. CASE spc = "create" /\ f = connectfd
    <3>1. tpc[file[f]] = "due"
      BY <2>1 DEF FdsOK
    <3>2. ~Active(file[f])
      BY <3>1 DEF Active
    <3> QED BY <1>1, <2>1, <3>2
  <2>2. CASE ~(spc = "create" /\ f = connectfd)
    <3>1. Active(file[f]) /\ sockfd[file[f]] = f
      BY <1>4, <2>2 DEF FdsOK
    <3>2. file[f] \in Users(f)
      BY <1>4, <3>1, Names DEF Users, Active
    <3> QED BY <1>2, <2>2, <3>2
  <2> QED BY <2>1, <2>2
<1>5. Users(f) # {} => file[f] \in Clients
  BY <1>1
<1> QED BY <1>3, <1>4, <1>5

\* As long as no thread reads connectfd too late and nothing is killed or
\* fails, the server stays up, every connection has its own thread, and each
\* client that ends has shown its own lines, all and in order: the read of
\* *(int *)sockfdPtr is the only place where the threads of version_6 get in
\* each other's way.
THEOREM RaceAloneHarms == ThreadSpec => []OnlyRaceHarms
<1>1. ThreadInv => OnlyRaceHarms
  <2> SUFFICES ASSUME ThreadInv, ~raced, faults = {}
               PROVE  /\ ServerUp /\ OneThreadEach
                      /\ \A c \in Clients : Ended(c) /\ cpc[c] # "refused" =>
                           cpc[c] = "exit0" /\ printed[c] = [k \in 1 .. Lines |-> <<c, k>>]
    BY DEF OnlyRaceHarms
  <2>1. BaseOK /\ CalmOK
    BY DEF ThreadInv, Calm
  <2>2. ServerUp /\ OneThreadEach
    BY <2>1, EachOneThread DEF CalmOK, FdsOK
  <2>3. ASSUME NEW c \in Clients, Ended(c), cpc[c] # "refused"
        PROVE  cpc[c] = "exit0" /\ printed[c] = [k \in 1 .. Lines |-> <<c, k>>]
    <3>1. StateOK(c, cpc[c], tpc[c], typed[c], shut[c], printed[c], down[c], buffer[c], up[c])
          /\ printed[c] \in Seq(Items)
      BY <2>1, ClientFacts DEF ClientOK
    <3>2. cpc[c] = "exit0"
      BY <2>3, <3>1 DEF Ended, StateOK
    <3>3. Run(c, printed[c], 0, 0) /\ Len(printed[c]) = Lines
      BY <3>1, <3>2 DEF StateOK
    <3>4. \A k \in 1 .. Lines : printed[c][k] = <<c, k>>
      <4>1. \A k \in 1 .. Lines - 0 : printed[c][k] = <<c, 0 + k>>
        BY <3>3 DEF Run
      <4> QED BY <4>1, SizesAssumption
    <3>5. DOMAIN printed[c] = 1 .. Lines /\ printed[c] = [k \in DOMAIN printed[c] |-> printed[c][k]]
      BY <3>1, <3>3
    <3> QED BY <3>2, <3>4, <3>5
  <2> QED BY <2>2, <2>3
<1> QED BY <1>1, ThreadInvHolds, PTL
=============================================================================
