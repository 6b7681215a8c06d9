------------------------ MODULE SemMultiBuff_proofs ------------------------
(***************************************************************************)
(* For any number of buffers, chunks and runs of the two programs: a run   *)
(* that starts on fresh semaphores, or that uses O_EXCL, never uses one    *)
(* buffer from both threads at a time and puts out a prefix of the file,   *)
(* all of it when it exits.                                                *)
(***************************************************************************)
EXTENDS SemMultiBuff, SequenceTheorems, TLAPS

\* The runs that the properties speak of.
Good == ~tainted \/ program = "count"

\* Units of /semempty the producer has taken and the consumer given back, and of
\* /semstore the producer has posted and the consumer taken, in this run.
Taken == pi + (IF \/ prod \in {"mutex", "storing", "reading", "last"}
                  \/ prod \in {"unmutex", "done"} /\ program = "copy" THEN 1 ELSE 0)
Given == ci - (IF cons = "post" \/ (cons = "unmutex" /\ program = "count") THEN 1 ELSE 0)
Posted == pi + (IF prod = "post" \/ (prod = "unmutex" /\ program = "count") THEN -1
                ELSE IF prod = "done" /\ program = "copy" THEN 1 ELSE 0)
Got == ci + (IF \/ cons \in {"mutex", "checking", "writing"}
                \/ cons \in {"unmutex", "done"} /\ program = "copy" THEN 1 ELSE 0)

\* What exists under the three names, through opening and unlinking.
NamesOK ==
    /\ main \in {"off", "exit0"} => \A n \in Names : sem[n] = Absent
    /\ main \in {"unlinkempty", "unlinkstore"} => sem["/semmutex"] = Absent
    /\ main = "unlinkstore" => sem["/semempty"] = Absent
    /\ ~tainted /\ main = "openmutex" => \A n \in Names : sem[n] = Absent
    /\ ~tainted /\ main = "openempty" => sem["/semempty"] = Absent /\ sem["/semstore"] = Absent
    /\ ~tainted /\ main = "openstore" => sem["/semstore"] = Absent
    /\ main \in {"openempty", "openstore", "running"} => sem["/semmutex"] \in Nat
    /\ main \in {"openstore", "running"} => sem["/semempty"] \in Nat
    /\ main = "running" => sem["/semstore"] \in Nat
    /\ failed # {} => program = "count" /\ tainted

\* A semaphore that was opened counts the units that are in nobody's hands; on
\* one that was not, nothing has happened.
UnitsOK ==
    Good =>
      /\ main \in {"openstore", "running"} =>
           IF "/semempty" \in failed THEN Taken = 0
                                     ELSE sem["/semempty"] = NBUFF - Taken + Given
      /\ main = "running" =>
           IF "/semstore" \in failed THEN Posted = 0 /\ Got = 0
                                     ELSE sem["/semstore"] = Posted - Got

\* Threads have not begun before the names are open; afterwards each is at a
\* point of its own program, and is done only at the end of the file.
ControlOK ==
    /\ main = "off" => pi = 0 /\ ci = 0
    /\ main \in {"openmutex", "openempty", "openstore"} =>
         prod = "empty" /\ cons = "store" /\ pi = 0 /\ ci = 0
    /\ prod \in {"reading", "last"} \/ cons = "writing" => program = "copy"
    /\ prod = "storing" \/ cons = "checking" => program = "count"
    /\ program = "count" /\ prod \in {"mutex", "storing"} => pi < Chunks
    /\ main # "off" /\ prod \in {"last", "done"} => pi = Chunks
    /\ main # "off" /\ Good /\ cons = "done" => ci = Chunks
    /\ main \in {"unlinkempty", "unlinkstore", "exit0"} => prod = "done" /\ cons = "done"

\* The items between the two indices are in their slots, and behind the last one
\* the mark of the end.
RingOK ==
    Good =>
      /\ ci <= pi
      /\ \A k \in ci .. pi - 1 : data[k % NBUFF] = k + 1
      /\ main # "off" /\ program = "copy" /\ prod \in {"last", "done"} => data[pi % NBUFF] = EOF

OutputOK == Good => Len(output) = ci /\ \A k \in 1 .. ci : output[k] = k

IndInv == TypeOK /\ NamesOK /\ UnitsOK /\ ControlOK /\ RingOK /\ OutputOK

-----------------------------------------------------------------------------
LEMMA SlotType == \A k \in Nat : k % NBUFF \in 0 .. NBUFF - 1
BY SizesAssumption

LEMMA Indices ==
  ASSUME TypeOK
  PROVE  /\ pi \in Nat /\ ci \in Nat
         /\ pi % NBUFF \in 0 .. NBUFF - 1 /\ ci % NBUFF \in 0 .. NBUFF - 1
<1>1. pi \in Nat /\ ci \in Nat
  BY SizesAssumption DEF TypeOK
<1> QED BY <1>1, SlotType

\* Two indices less than a ring apart fall into different buffers.
LEMMA DistinctSlots ==
  ASSUME NEW a \in Nat, NEW b \in Nat, a < b, b < a + NBUFF
  PROVE  a % NBUFF # b % NBUFF
<1> SUFFICES ASSUME a % NBUFF = b % NBUFF PROVE FALSE
  OBVIOUS
<1> DEFINE d == b \div NBUFF - a \div NBUFF
<1>0. NBUFF \in Nat \ {0}
  BY SizesAssumption
<1>1. /\ a = NBUFF * (a \div NBUFF) + (a % NBUFF)
      /\ b = NBUFF * (b \div NBUFF) + (b % NBUFF)
      /\ a \div NBUFF \in Int /\ b \div NBUFF \in Int
  BY <1>0
<1>2. d \in Int /\ b - a = NBUFF * d
  BY <1>0, <1>1
<1> HIDE DEF d
<1>3. CASE d <= 0
  <2>1. NBUFF * d <= 0
    BY <1>0, <1>2, <1>3
  <2> QED BY <1>2, <2>1
<1>4. CASE d >= 1
  <2>1. NBUFF * d >= NBUFF
    BY <1>0, <1>2, <1>4
  <2> QED BY <1>0, <1>2, <2>1
<1> QED BY <1>2, <1>3, <1>4

\* What a semaphore's value says: no more buffers taken than there are, no more
\* items taken than were posted.
LEMMA Entitled ==
  ASSUME IndInv, Good, main = "running"
  PROVE  Taken <= NBUFF + Given /\ Got <= Posted
<1> USE DEF IndInv, NamesOK, UnitsOK, TypeOK
<1>1. Taken \in Int /\ Given \in Int /\ Got \in Int /\ Posted \in Int
  BY DEF Taken, Given, Got, Posted
<1>2. Got <= Posted
  BY <1>1
<1>3. CASE "/semempty" \in failed
  BY <1>2, <1>3, SizesAssumption DEF Taken, Given, RingOK
<1>4. CASE "/semempty" \notin failed
  BY <1>1, <1>2, <1>4, SizesAssumption
<1> QED BY <1>3, <1>4

\* What the threads may rely on when they use a buffer outside of the mutex.
LEMMA Apart ==
  ASSUME IndInv, Good, main = "running"
  PROVE  /\ prod \in {"storing", "reading"} => pi < ci + NBUFF
         /\ cons = "checking" => ci < pi
         /\ cons = "writing" => ci < pi \/ (ci = pi /\ pi = Chunks /\ prod = "done")
<1> USE DEF IndInv, TypeOK
<1>0. Taken <= NBUFF + Given /\ Got <= Posted
  BY Entitled
<1>1. prod \in {"storing", "reading"} => pi < ci + NBUFF
  BY <1>0, SizesAssumption DEF Taken, Given
<1>2. cons = "checking" => ci < pi
  BY <1>0, SizesAssumption DEF Got, Posted, ControlOK
<1>3. cons = "writing" => ci < pi \/ (ci = pi /\ pi = Chunks /\ prod = "done")
  BY <1>0, SizesAssumption DEF Got, Posted, ControlOK, RingOK
<1> QED BY <1>1, <1>2, <1>3

LEMMA InitInd == Init => IndInv
<1> SUFFICES ASSUME Init PROVE IndInv
  OBVIOUS
<1> USE DEF Init
<1>1. TypeOK
  <2>1. tainted \in BOOLEAN
    OBVIOUS
  <2>2. /\ runs \in 0 .. MaxRuns /\ pi \in 0 .. Chunks /\ ci \in Nat
        /\ data \in [0 .. NBUFF - 1 -> 0 .. Chunks] /\ output \in Seq(1 .. Chunks)
    BY SizesAssumption DEF EOF
  <2> QED BY <2>1, <2>2 DEF TypeOK
<1>2. NamesOK /\ UnitsOK /\ ControlOK /\ OutputOK
  BY DEF NamesOK, UnitsOK, ControlOK, OutputOK, Names
<1>3. RingOK
  BY DEF RingOK
<1> QED BY <1>1, <1>2, <1>3 DEF IndInv

LEMMA StartInd == ASSUME IndInv, main_start PROVE IndInv'
<1> USE DEF IndInv, main_start
<1>1. TypeOK'
  <2>1. tainted' \in BOOLEAN
    OBVIOUS
  <2>2. /\ runs' \in 0 .. MaxRuns /\ pi' \in 0 .. Chunks /\ ci' \in Nat
        /\ data' \in [0 .. NBUFF - 1 -> 0 .. Chunks] /\ output' \in Seq(1 .. Chunks)
    BY SizesAssumption DEF TypeOK, EOF
  <2> QED BY <2>1, <2>2 DEF TypeOK
<1>2. NamesOK'
  BY DEF NamesOK, TypeOK
<1>4. UnitsOK' /\ ControlOK' /\ OutputOK'
  BY DEF UnitsOK, ControlOK, OutputOK
<1>3. RingOK'
  BY DEF RingOK
<1> QED BY <1>1, <1>2, <1>3, <1>4

LEMMA OpenInd == ASSUME IndInv, main_open PROVE IndInv'
<1> USE DEF IndInv, main_open, sem_open, OpenMutex, OpenEmpty, OpenStore, threads
<1>1. InitialValue \in [Names -> Nat]
  BY SizesAssumption DEF InitialValue, Names
<1>2. TypeOK'
  BY <1>1 DEF TypeOK, Names
<1>3. NamesOK'
  BY <1>1, AbsentAssumption DEF NamesOK, TypeOK, Names
<1>4. UnitsOK'
  BY SizesAssumption
  DEF UnitsOK, TypeOK, Names, NamesOK, ControlOK, InitialValue, Taken, Given, Posted, Got, Good
<1>5. ControlOK' /\ RingOK' /\ OutputOK'
  BY DEF ControlOK, RingOK, OutputOK, Good, TypeOK
<1> QED BY <1>2, <1>3, <1>4, <1>5

LEMMA ProdWaitEmptyInd == ASSUME IndInv, ProdWaitEmpty PROVE IndInv'
<1> USE DEF IndInv, ProdWaitEmpty, ProdStep, sem_wait, sem_post
<1>1. TypeOK' /\ NamesOK'
  BY DEF TypeOK, NamesOK, Names
<1>2. UnitsOK'
  BY SizesAssumption DEF UnitsOK, TypeOK, Names, NamesOK, ControlOK, Taken, Given, Posted, Got, Good
<1>3. ControlOK' /\ RingOK' /\ OutputOK'
  BY DEF ControlOK, RingOK, OutputOK, Good, TypeOK
<1> QED BY <1>1, <1>2, <1>3

LEMMA ProdWaitMuInd == ASSUME IndInv, ProdWaitMu PROVE IndInv'
<1> USE DEF IndInv, ProdWaitMu, ProdStep, sem_wait, sem_post
<1>1. TypeOK' /\ NamesOK'
  BY DEF TypeOK, NamesOK, Names
<1>2. UnitsOK'
  BY SizesAssumption DEF UnitsOK, TypeOK, Names, NamesOK, ControlOK, Taken, Given, Posted, Got, Good
<1>3. ControlOK' /\ RingOK' /\ OutputOK'
  BY DEF ControlOK, RingOK, OutputOK, Good, TypeOK
<1> QED BY <1>1, <1>2, <1>3

LEMMA ProdPostMuInd == ASSUME IndInv, ProdPostMu PROVE IndInv'
<1> USE DEF IndInv, ProdPostMu, ProdStep, sem_wait, sem_post
<1>1. TypeOK' /\ NamesOK'
  BY DEF TypeOK, NamesOK, Names
<1>2. UnitsOK'
  BY SizesAssumption DEF UnitsOK, TypeOK, Names, NamesOK, ControlOK, Taken, Given, Posted, Got, Good
<1>3. ControlOK' /\ RingOK' /\ OutputOK'
  BY DEF ControlOK, RingOK, OutputOK, Good, TypeOK
<1> QED BY <1>1, <1>2, <1>3

LEMMA ProdPostStoreInd == ASSUME IndInv, ProdPostStore PROVE IndInv'
<1> USE DEF IndInv, ProdPostStore, ProdStep, sem_wait, sem_post
<1>1. TypeOK' /\ NamesOK'
  BY DEF TypeOK, NamesOK, Names
<1>2. UnitsOK'
  BY SizesAssumption DEF UnitsOK, TypeOK, Names, NamesOK, ControlOK, Taken, Given, Posted, Got, Good
<1>3. ControlOK' /\ RingOK' /\ OutputOK'
  BY DEF ControlOK, RingOK, OutputOK, Good, TypeOK
<1> QED BY <1>1, <1>2, <1>3

LEMMA ProdReturnInd == ASSUME IndInv, ProdReturn PROVE IndInv'
<1> USE DEF IndInv, ProdReturn, ProdStep, sem_wait, sem_post
<1>1. TypeOK' /\ NamesOK'
  BY DEF TypeOK, NamesOK, Names
<1>2. UnitsOK'
  BY SizesAssumption DEF UnitsOK, TypeOK, Names, NamesOK, ControlOK, Taken, Given, Posted, Got, Good
<1>3. ControlOK' /\ RingOK' /\ OutputOK'
  BY DEF ControlOK, RingOK, OutputOK, Good, TypeOK
<1> QED BY <1>1, <1>2, <1>3

LEMMA ProdLoopEndsInd == ASSUME IndInv, ProdLoopEnds PROVE IndInv'
<1> USE DEF IndInv, ProdLoopEnds, ProdStep, sem_wait, sem_post
<1>1. TypeOK' /\ NamesOK'
  BY DEF TypeOK, NamesOK, Names
<1>2. UnitsOK'
  BY SizesAssumption DEF UnitsOK, TypeOK, Names, NamesOK, ControlOK, Taken, Given, Posted, Got, Good
<1>3. ControlOK' /\ RingOK' /\ OutputOK'
  BY DEF ControlOK, RingOK, OutputOK, Good, TypeOK
<1> QED BY <1>1, <1>2, <1>3

LEMMA ProdStoreInd == ASSUME IndInv, ProdStore PROVE IndInv'
<1> USE DEF IndInv, ProdStore, ProdStep
<1>0. /\ Good /\ Good' /\ pi < Chunks /\ pi < ci + NBUFF
      /\ pi \in Nat /\ ci \in Nat /\ pi' = pi + 1 /\ pi % NBUFF \in 0 .. NBUFF - 1
  BY Apart, Indices DEF ControlOK, Good
<1>1. TypeOK' /\ NamesOK'
  BY <1>0, SizesAssumption DEF TypeOK, NamesOK
<1>2. UnitsOK'
  BY DEF UnitsOK, TypeOK, NamesOK, ControlOK, Taken, Given, Posted, Got, Good
<1>3. ControlOK' /\ OutputOK'
  BY DEF ControlOK, OutputOK, Good, TypeOK
<1>4. RingOK'
  <2>1. ASSUME NEW k \in ci' .. pi' - 1 PROVE data'[k % NBUFF] = k + 1
    <3>1. k \in Nat /\ k % NBUFF \in 0 .. NBUFF - 1 /\ ci <= k /\ k <= pi
      BY <1>0, SlotType
    <3>2. k < pi => k % NBUFF # pi % NBUFF
      <4>1. pi < k + NBUFF
        BY <1>0, <3>1, SizesAssumption
      <4> QED BY <1>0, <3>1, <4>1, DistinctSlots
    <3>3. k < pi => data[k % NBUFF] = k + 1
      BY <1>0, <3>1 DEF RingOK
    <3> QED BY <1>0, <3>1, <3>2, <3>3 DEF TypeOK
  <2> QED BY <1>0, <2>1 DEF RingOK, ControlOK
<1> QED BY <1>1, <1>2, <1>3, <1>4

LEMMA ProdReadInd == ASSUME IndInv, ProdRead PROVE IndInv'
<1> USE DEF IndInv, ProdRead, ProdStep, EOF
<1>0. /\ program = "copy" /\ pi \in Nat /\ ci \in Nat /\ pi % NBUFF \in 0 .. NBUFF - 1
      /\ Good => pi < ci + NBUFF /\ ci <= pi /\ Good'
      /\ IF pi < Chunks THEN /\ prod' = "post" /\ pi' = pi + 1
                             /\ data' = [data EXCEPT ![pi % NBUFF] = pi + 1]
                        ELSE /\ pi = Chunks /\ prod' = "last" /\ pi' = pi
                             /\ data' = [data EXCEPT ![pi % NBUFF] = EOF]
  <2>1. program = "copy" /\ pi \in Nat /\ ci \in Nat /\ pi % NBUFF \in 0 .. NBUFF - 1
    BY Indices DEF ControlOK
  <2>2. Good => pi < ci + NBUFF /\ ci <= pi /\ Good'
    BY Apart DEF Good, RingOK
  <2> QED BY <2>1, <2>2, SizesAssumption DEF TypeOK
<1>1. TypeOK' /\ NamesOK'
  BY <1>0, SizesAssumption DEF TypeOK, NamesOK
<1>2. UnitsOK'
  BY <1>0 DEF UnitsOK, TypeOK, NamesOK, ControlOK, Taken, Given, Posted, Got, Good
<1>3. ControlOK' /\ OutputOK'
  BY <1>0 DEF ControlOK, OutputOK, Good, TypeOK
<1>4. RingOK'
  <2> SUFFICES ASSUME Good' PROVE /\ ci' <= pi'
                                  /\ \A k \in ci' .. pi' - 1 : data'[k % NBUFF] = k + 1
                                  /\ prod' \in {"last", "done"} => data'[pi' % NBUFF] = EOF
    BY DEF RingOK
  <2>0. Good
    BY DEF Good
  <2>1. ASSUME NEW k \in ci' .. pi' - 1 PROVE data'[k % NBUFF] = k + 1
    <3>1. k \in Nat /\ k % NBUFF \in 0 .. NBUFF - 1 /\ ci <= k /\ k < pi'
      BY <1>0, <2>0, SlotType
    <3>2. k < pi => k % NBUFF # pi % NBUFF
      <4>1. pi < k + NBUFF
        BY <1>0, <2>0, <3>1, SizesAssumption
      <4> QED BY <1>0, <3>1, <4>1, DistinctSlots
    <3>3. k < pi => data[k % NBUFF] = k + 1
      BY <1>0, <2>0, <3>1 DEF RingOK
    <3> QED BY <1>0, <3>1, <3>2, <3>3 DEF TypeOK
  <2> QED BY <1>0, <2>0, <2>1 DEF TypeOK
<1> QED BY <1>1, <1>2, <1>3, <1>4

LEMMA ConsWaitStoreInd == ASSUME IndInv, ConsWaitStore PROVE IndInv'
<1> USE DEF IndInv, ConsWaitStore, ConsStep, sem_wait, sem_post
<1>1. TypeOK' /\ NamesOK'
  BY DEF TypeOK, NamesOK, Names
<1>2. UnitsOK'
  BY SizesAssumption DEF UnitsOK, TypeOK, Names, NamesOK, ControlOK, Taken, Given, Posted, Got, Good
<1>3. ControlOK' /\ RingOK' /\ OutputOK'
  BY DEF ControlOK, RingOK, OutputOK, Good, TypeOK
<1> QED BY <1>1, <1>2, <1>3

LEMMA ConsWaitMuInd == ASSUME IndInv, ConsWaitMu PROVE IndInv'
<1> USE DEF IndInv, ConsWaitMu, ConsStep, sem_wait, sem_post
<1>1. TypeOK' /\ NamesOK'
  BY DEF TypeOK, NamesOK, Names
<1>2. UnitsOK'
  BY SizesAssumption DEF UnitsOK, TypeOK, Names, NamesOK, ControlOK, Taken, Given, Posted, Got, Good
<1>3. ControlOK' /\ RingOK' /\ OutputOK'
  BY DEF ControlOK, RingOK, OutputOK, Good, TypeOK
<1> QED BY <1>1, <1>2, <1>3

LEMMA ConsPostMuInd == ASSUME IndInv, ConsPostMu PROVE IndInv'
<1> USE DEF IndInv, ConsPostMu, ConsStep, sem_wait, sem_post
<1>1. TypeOK' /\ NamesOK'
  BY DEF TypeOK, NamesOK, Names
<1>2. UnitsOK'
  BY SizesAssumption DEF UnitsOK, TypeOK, Names, NamesOK, ControlOK, Taken, Given, Posted, Got, Good
<1>3. ControlOK' /\ RingOK' /\ OutputOK'
  BY DEF ControlOK, RingOK, OutputOK, Good, TypeOK
<1> QED BY <1>1, <1>2, <1>3

LEMMA ConsPostEmptyInd == ASSUME IndInv, ConsPostEmpty PROVE IndInv'
<1> USE DEF IndInv, ConsPostEmpty, ConsStep, sem_wait, sem_post
<1>1. TypeOK' /\ NamesOK'
  BY DEF TypeOK, NamesOK, Names
<1>2. UnitsOK'
  BY SizesAssumption DEF UnitsOK, TypeOK, Names, NamesOK, ControlOK, Taken, Given, Posted, Got, Good
<1>3. ControlOK' /\ RingOK' /\ OutputOK'
  BY DEF ControlOK, RingOK, OutputOK, Good, TypeOK
<1> QED BY <1>1, <1>2, <1>3

LEMMA ConsLoopEndsInd == ASSUME IndInv, ConsLoopEnds PROVE IndInv'
<1> USE DEF IndInv, ConsLoopEnds, ConsStep, sem_wait, sem_post
<1>1. TypeOK' /\ NamesOK'
  BY DEF TypeOK, NamesOK, Names
<1>2. UnitsOK'
  BY SizesAssumption DEF UnitsOK, TypeOK, Names, NamesOK, ControlOK, Taken, Given, Posted, Got, Good
<1>3. ControlOK' /\ RingOK' /\ OutputOK'
  BY DEF ControlOK, RingOK, OutputOK, Good, TypeOK
<1> QED BY <1>1, <1>2, <1>3

LEMMA ConsReturnInd == ASSUME IndInv, ConsReturn PROVE IndInv'
<1> USE DEF IndInv, ConsReturn, ConsStep, EOF
<1>0. Good => ci = Chunks
  BY Apart DEF RingOK, TypeOK
<1>1. TypeOK' /\ NamesOK'
  BY DEF TypeOK, NamesOK
<1>2. UnitsOK'
  BY DEF UnitsOK, TypeOK, NamesOK, ControlOK, Taken, Given, Posted, Got, Good
<1>3. ControlOK' /\ RingOK' /\ OutputOK'
  BY <1>0 DEF ControlOK, RingOK, OutputOK, Good, TypeOK
<1> QED BY <1>1, <1>2, <1>3

\* Both programs put out the item of the slot and go on to the next.
LEMMA PutOut ==
  ASSUME IndInv, main = "running", cons \in {"checking", "writing"},
         output' = Append(output, data[ci % NBUFF]), ci' = ci + 1,
         cons = "writing" => data[ci % NBUFF] # EOF,
         UNCHANGED <<program, data, prod, pi, main, tainted>>
  PROVE  /\ output' \in Seq(1 .. Chunks) /\ ci' \in Nat
         /\ RingOK' /\ OutputOK'
<1> USE DEF IndInv
<1>1. ci \in Nat /\ pi \in Nat /\ Chunks \in Nat /\ ci % NBUFF \in 0 .. NBUFF - 1
  BY Indices, SizesAssumption
<1>2. Good => ci < pi /\ data[ci % NBUFF] = ci + 1
  <2> SUFFICES ASSUME Good PROVE ci < pi /\ data[ci % NBUFF] = ci + 1
    OBVIOUS
  <2>1. cons = "writing" => ~(ci = pi /\ prod = "done")
    BY <1>1 DEF RingOK, ControlOK
  <2>2. ci < pi
    BY <2>1, Apart
  <2> QED BY <1>1, <2>2 DEF RingOK
<1>3. data[ci % NBUFF] \in 1 .. Chunks
  BY <1>1, <1>2 DEF TypeOK, ControlOK, EOF, Good
<1>4. output' \in Seq(1 .. Chunks) /\ ci' \in Nat
  BY <1>1, <1>3 DEF TypeOK
<1>5. RingOK'
  BY <1>1, <1>2 DEF RingOK, Good
<1>6. OutputOK'
  BY <1>1, <1>2, <1>3 DEF OutputOK, Good, TypeOK
<1> QED BY <1>4, <1>5, <1>6

LEMMA ConsCheckInd == ASSUME IndInv, ConsCheck PROVE IndInv'
<1> USE DEF IndInv, ConsCheck, ConsStep
<1>0. output' \in Seq(1 .. Chunks) /\ ci' \in Nat /\ RingOK' /\ OutputOK'
  BY PutOut
<1>1. TypeOK' /\ NamesOK'
  BY <1>0 DEF TypeOK, NamesOK
<1>2. UnitsOK'
  BY DEF UnitsOK, TypeOK, NamesOK, ControlOK, Taken, Given, Posted, Got, Good
<1>3. ControlOK'
  BY DEF ControlOK, Good, TypeOK
<1> QED BY <1>0, <1>1, <1>2, <1>3

LEMMA ConsWriteInd == ASSUME IndInv, ConsWrite PROVE IndInv'
<1> USE DEF IndInv, ConsWrite, ConsStep
<1>0. output' \in Seq(1 .. Chunks) /\ ci' \in Nat /\ RingOK' /\ OutputOK'
  BY PutOut
<1>1. TypeOK' /\ NamesOK'
  BY <1>0 DEF TypeOK, NamesOK
<1>2. UnitsOK'
  BY DEF UnitsOK, TypeOK, NamesOK, ControlOK, Taken, Given, Posted, Got, Good
<1>3. ControlOK'
  BY DEF ControlOK, Good, TypeOK
<1> QED BY <1>0, <1>1, <1>2, <1>3

LEMMA ExitInd == ASSUME IndInv, main_exit PROVE IndInv'
<1> USE DEF IndInv, main_exit, Unlink, UnlinkMutex, UnlinkEmpty, UnlinkStore, threads
<1>1. TypeOK'
  BY DEF TypeOK, Names
<1>3. NamesOK'
  BY DEF TypeOK, NamesOK, Names
<1>2. UnitsOK' /\ ControlOK' /\ RingOK' /\ OutputOK'
  BY DEF UnitsOK, ControlOK, RingOK, OutputOK, Good, TypeOK
<1> QED BY <1>1, <1>2, <1>3

LEMMA KilledInd == ASSUME IndInv, Crash \/ Kill PROVE IndInv'
<1> USE DEF IndInv, Crash, Kill, threads
<1>1. TypeOK' /\ NamesOK'
  BY DEF TypeOK, NamesOK
<1>2. UnitsOK' /\ ControlOK' /\ RingOK' /\ OutputOK'
  BY DEF UnitsOK, ControlOK, RingOK, OutputOK, Good, TypeOK
<1> QED BY <1>1, <1>2

LEMMA StutterInd == ASSUME IndInv, UNCHANGED vars PROVE IndInv'
<1> USE DEF IndInv, vars, threads
<1>1. TypeOK' /\ NamesOK' /\ ControlOK' /\ RingOK' /\ OutputOK'
  BY DEF TypeOK, NamesOK, ControlOK, RingOK, OutputOK, Good
<1>2. UnitsOK'
  BY DEF UnitsOK, Taken, Given, Posted, Got, Good
<1> QED BY <1>1, <1>2

LEMMA Inductive == Spec => []IndInv
<1>1. Init => IndInv
  BY InitInd
<1>2. IndInv /\ [Next]_vars => IndInv'
  <2> SUFFICES ASSUME IndInv, [Next]_vars PROVE IndInv'
    OBVIOUS
  <2>1. CASE main_start \/ main_open \/ main_exit \/ Crash \/ Kill
    BY <2>1, StartInd, OpenInd, ExitInd, KilledInd
  <2>2. CASE producer
    BY <2>2, ProdWaitEmptyInd, ProdWaitMuInd, ProdPostMuInd, ProdReadInd, ProdPostStoreInd,
       ProdReturnInd, ProdStoreInd, ProdLoopEndsInd DEF producer
  <2>3. CASE consumer
    BY <2>3, ConsWaitStoreInd, ConsWaitMuInd, ConsPostMuInd, ConsReturnInd, ConsWriteInd,
       ConsPostEmptyInd, ConsCheckInd, ConsLoopEndsInd DEF consumer
  <2>4. CASE UNCHANGED vars
    BY <2>4, StutterInd
  <2> QED BY <2>1, <2>2, <2>3, <2>4 DEF Next
<1> QED BY <1>1, <1>2, PTL DEF Spec

-----------------------------------------------------------------------------
\* Every variable keeps its type, in every run of either program: the producer's
\* index stops at the end of the file, and only chunks are put out, even from a
\* ring that a killed run's semaphores have unbalanced.
THEOREM TypeCorrect == Spec => []TypeOK
<1>1. IndInv => TypeOK
  BY DEF IndInv
<1> QED BY <1>1, Inductive, PTL

\* SemMultiBuff.c gives its mutex back before it touches the buffers; the counts
\* of the other two semaphores alone keep the reader and the writer apart, for
\* any number of buffers, in a run that follows a run which was not killed.
THEOREM BuffersNeverTorn == Spec => []NoTornBuffer
<1>1. IndInv => NoTornBuffer
  <2> SUFFICES ASSUME IndInv, ~tainted, main = "running", prod = "reading", cons = "writing"
               PROVE  pi % NBUFF # ci % NBUFF
    BY DEF NoTornBuffer
  <2>1. pi \in Nat /\ ci \in Nat /\ ci < pi /\ pi < ci + NBUFF
    BY Apart, SizesAssumption DEF Good, IndInv, TypeOK
  <2> QED BY <2>1, DistinctSlots
<1> QED BY <1>1, Inductive, PTL

\* A run of either program that follows a run which was not killed, and every run
\* of the one that opens with O_EXCL, puts out a prefix of the file at every
\* moment and the whole file by the time it exits.
THEOREM CleanRunsCopy == Spec => []CleanRunCopies
<1>1. IndInv => CleanRunCopies
  <2> SUFFICES ASSUME IndInv, Good
               PROVE  IsPrefix(output, File) /\ (main = "exit0" => output = File)
    BY DEF CleanRunCopies, Good
  <2> USE DEF IndInv
  <2>1. /\ Chunks \in Nat /\ ci \in 0 .. Chunks /\ output \in Seq(1 .. Chunks)
        /\ Len(output) = ci /\ \A k \in 1 .. ci : output[k] = k
    BY SizesAssumption DEF TypeOK, RingOK, OutputOK
  <2>2. File \in Seq(1 .. Chunks) /\ Len(File) = Chunks /\ \A k \in 1 .. Chunks : File[k] = k
    BY <2>1 DEF File
  <2>3. IsPrefix(output, File)
    BY <2>1, <2>2 DEF IsPrefix
  <2>4. main = "exit0" => output = File
    <3> SUFFICES ASSUME main = "exit0" PROVE output = File
      OBVIOUS
    <3>1. ci = Chunks
      BY DEF ControlOK
    <3> QED BY <2>1, <2>2, <3>1, SeqEqual
  <2> QED BY <2>3, <2>4
<1> QED BY <1>1, Inductive, PTL
=============================================================================
