------------------------------- MODULE Stream -------------------------------
(***************************************************************************)
(* What every producer/consumer program of IPC/ promises, whatever it uses *)
(* to synchronise: the items 0, 1, ..., Total-1 pass once each and in      *)
(* order through a buffer of Capacity slots, and the program ends without  *)
(* ever printing its "wrong" diagnostic.                                   *)
(***************************************************************************)
EXTENDS Naturals

CONSTANTS Total,      \* items in the whole run (MAXITEMS, cycleTimes)
          Capacity    \* slots of the shared buffer

VARIABLES produced,   \* items put into the buffer so far
          consumed,   \* items checked and taken out so far
          outcome     \* "running", "exit0", or "wrong" (the exit(-1) path)

vars == <<produced, consumed, outcome>>

Init == produced = 0 /\ consumed = 0 /\ outcome = "running"

Produce == /\ outcome = "running"
           /\ produced < Total
           /\ produced - consumed < Capacity
           /\ produced' = produced + 1
           /\ UNCHANGED <<consumed, outcome>>

Consume == /\ outcome = "running"
           /\ consumed < produced
           /\ consumed' = consumed + 1
           /\ UNCHANGED <<produced, outcome>>

Finish == /\ outcome = "running"
          /\ consumed = Total
          /\ outcome' = "exit0"
          /\ UNCHANGED <<produced, consumed>>

Next == Produce \/ Consume \/ Finish

Safety == Init /\ [][Next]_vars

Spec == Safety /\ WF_vars(Next)
=============================================================================
