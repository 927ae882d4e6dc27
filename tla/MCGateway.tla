------------------------------ MODULE MCGateway ------------------------------
(* Gateway with two slots decoded in one batch, and with one slot, where   *)
(* the engine may speculate: the initial state chooses the server.         *)
EXTENDS Gateway, TLC

CONSTANT Servers                \* numbers of slots to explore, of 1 and 2

VARIABLE nslots

One == INSTANCE Gateway WITH NSlots <- 1

ASSUME ServersAssumption == Servers \subseteq {1, 2} /\ NSlots = 2

ServerInit == /\ nslots \in Servers
              /\ IF nslots = 1 THEN One!Init ELSE Init
StepOfOne == nslots = 1 /\ One!Next /\ UNCHANGED nslots
StepOfTwo == nslots = 2 /\ Next /\ UNCHANGED nslots
ServerNext == StepOfOne \/ StepOfTwo
ServerSpec == ServerInit /\ [][ServerNext]_<<nslots, vars>>

Interchangeable == Permutations(Requests)
----------------------------------------------------------------------------
(* The types of the server that runs.  The other invariants of Gateway do  *)
(* not mention the number of slots and are checked as they stand.          *)
ServerTypeOK == IF nslots = 1 THEN One!TypeOK ELSE TypeOK
=============================================================================
