---------------------------- MODULE MCScheduler ----------------------------
(* Scheduler on small instances, and its refinement of SlotPool.           *)
EXTENDS Scheduler

\* Requests are interchangeable: nothing in the scheduler tells them apart.
RequestSymmetry == Permutations(Requests)

(* The owner of each slot, read off what each request holds.               *)
Owners(h) ==
    [s \in Slots |-> IF \E r \in Requests : h[r] = s
                     THEN CHOOSE r \in Requests : h[r] = s
                     ELSE None]

Holder == Owners(held)

Pool == INSTANCE SlotPool WITH holder <- Holder

(* admit() and its finally clause hand every slot to one request at a      *)
(* time: the scheduler implements SlotPool.                                *)
ImplementsSlotPool == Pool!Spec
=============================================================================
