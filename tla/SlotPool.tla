------------------------------ MODULE SlotPool ------------------------------
(***************************************************************************)
(* What the admission layer promises the engine: a KV slot serves one      *)
(* request at a time, and a request has at most one slot.                  *)
(***************************************************************************)
CONSTANTS Requests, Slots, None

VARIABLE holder   \* the request that owns each slot, or None

Init == holder = [s \in Slots |-> None]

Acquire(r, s) ==
    /\ holder[s] = None
    /\ \A t \in Slots : holder[t] # r
    /\ holder' = [holder EXCEPT ![s] = r]

Release(r, s) ==
    /\ holder[s] = r
    /\ holder' = [holder EXCEPT ![s] = None]

Next == \E r \in Requests, s \in Slots : Acquire(r, s) \/ Release(r, s)

Spec == Init /\ [][Next]_holder
=============================================================================
