----------------------------- MODULE ExpertCache -----------------------------
(***************************************************************************)
(* The routed-expert cache of c/colibri.c under PILOT_REAL=1: the main     *)
(* thread computes the sparse layers of a forward in order, while pilot    *)
(* loads fill the caches of the layers ahead of it.  The two sides share   *)
(* ecache[layer], and agree through g_pilot_mx, g_cur_moe_layer and        *)
(* g_pilot_inflight (the handshake comment above g_pilot_mx).              *)
(*                                                                         *)
(* The router and the hints of pilot_prefetch pick any expert.  The order  *)
(* of use behind LRU and the eviction guard is abstracted: a victim is any *)
(* slot the scan may look at, a guarded load is one that never happens.    *)
(* Pinned experts are never missed nor hinted, and are left out.           *)
(***************************************************************************)
EXTENDS Naturals, Sequences, FiniteSets

CONSTANTS Experts,   \* the experts of a layer
          NLayers,   \* sparse layers, 1 being the first of a forward
          Loads,     \* pilot threads, or elements of one io_uring batch
          Cap,       \* ecap at the start
          CapFloor,  \* rss_guard does not lower ecap below this (2 in the code)
          NoExpert   \* a slab no expert was read into

ASSUME ExpertCacheAssumption ==
    /\ IsFiniteSet(Experts) /\ IsFiniteSet(Loads) /\ NoExpert \notin Experts
    /\ NLayers \in Nat \ {0}
    /\ CapFloor \in Nat \ {0}
    /\ Cap \in Nat /\ Cap >= CapFloor

Layers == 1..NLayers

VARIABLES
    cache,     \* ecache[l][0..ecn[l]-1], a sequence of slots
    ecap,      \* m->ecap
    cur,       \* g_cur_moe_layer; 0 stands for -1
    inflight,  \* g_pilot_inflight
    mpc,       \* where the main thread is
    use,       \* slots of cache[cur] the matmul reads
    todo,      \* missed experts of the block still to be promoted
    load,      \* each pilot load: its step, and the slot it was given
    uring      \* the io_uring path publishes eid under the lock, the other does not

mainVars == <<mpc, use, todo, ecap>>
vars == <<cache, cur, inflight, mainVars, load, uring>>

(* eid is e when resident, -(e+2) when reserved for e, -1 when free; data  *)
(* is what the slab holds.                                                 *)
Slot(state, e, data) == [state |-> state, eid |-> e, data |-> data]
FreeSlot == Slot("free", NoExpert, NoExpert)

\* Mutant: reservations are not seen.
HasResident(l, e) == \E z \in DOMAIN cache[l] : cache[l][z].state = "resident" /\ cache[l][z].eid = e

Has(l, e) == \E z \in DOMAIN cache[l] : cache[l][z].state # "free" /\ cache[l][z].eid = e
Hit(l, e) == \E z \in DOMAIN cache[l] : cache[l][z].state = "resident" /\ cache[l][z].eid = e

NoLoad == [at |-> "idle", layer |-> 0, slot |-> 0, eid |-> NoExpert]

Init ==
    /\ cache = [l \in Layers |-> <<>>]
    /\ ecap = Cap
    /\ cur = 0
    /\ inflight = [l \in Layers |-> 0]
    /\ mpc = "next" /\ use = {} /\ todo = {}
    /\ load = [p \in Loads |-> NoLoad]
    /\ uring \in BOOLEAN

----------------------------------------------------------------------------
(* The slots a new expert may take in a layer's cache: a new one, or else  *)
(* one of those the scan accepts.                                          *)
Grows(l) == Len(cache[l]) < ecap
Put(l, z, slot) ==
    cache' = [cache EXCEPT ![l] = IF z > Len(@) THEN Append(@, slot) ELSE [@ EXCEPT ![z] = slot]]

(* moe() on the main thread.                                               *)

\* Take possession of the layer; from here on the pilots drop loads for it.
EnterMoe ==
    /\ mpc = "next"
    /\ cur' = cur + 1
    /\ mpc' = "barrier"
    /\ UNCHANGED <<cache, inflight, use, todo, ecap, load, uring>>

\* Mutant: no wait.
PassAtOnce ==
    /\ mpc = "barrier"
    /\ mpc' = "resolve"
    /\ UNCHANGED <<cache, cur, inflight, use, todo, ecap, load, uring>>

PassBarrier ==
    /\ mpc = "barrier"
    /\ inflight[cur] = 0
    /\ mpc' = "resolve"
    /\ UNCHANGED <<cache, cur, inflight, use, todo, ecap, load, uring>>

(* The router has picked the experts of the block: hits are used where     *)
(* they are, misses are read into ws[], and the last ecap of them will be  *)
(* promoted.                                                               *)
Resolve(routed) ==
    /\ mpc = "resolve"
    /\ use' = {z \in DOMAIN cache[cur] : cache[cur][z].state = "resident" /\ cache[cur][z].eid \in routed}
    /\ LET miss == {e \in routed : ~Hit(cur, e)} IN
       \E kept \in SUBSET miss :
         /\ kept = miss \/ Cardinality(kept) = ecap
         /\ Cardinality(kept) <= ecap
         /\ todo' = kept
    /\ mpc' = "matmul"
    /\ UNCHANGED <<cache, cur, inflight, ecap, load, uring>>

Matmul ==
    /\ mpc = "matmul"
    /\ mpc' = "promote"
    /\ use' = {}
    /\ UNCHANGED <<cache, cur, inflight, todo, ecap, load, uring>>

\* ws[q] is swapped into a new slot, or into the least recently used one.
Promote(e) ==
    /\ mpc = "promote"
    /\ e \in todo
    /\ \E z \in 1..(Len(cache[cur]) + 1) :
         /\ Grows(cur) <=> z > Len(cache[cur])
         /\ Put(cur, z, Slot("resident", e, e))
    /\ todo' = todo \ {e}
    /\ UNCHANGED <<cur, inflight, mpc, use, ecap, load, uring>>

(* moe() takes the experts of the batch 64 at a time; which experts a next *)
(* block has is left open.                                                 *)
NextBlock ==
    /\ mpc = "promote"
    /\ todo = {}
    /\ mpc' = "resolve"
    /\ UNCHANGED <<cache, cur, inflight, use, todo, ecap, load, uring>>

LeaveMoe ==
    /\ mpc = "promote"
    /\ todo = {}
    /\ mpc' = IF cur = NLayers THEN "safe" ELSE "next"
    /\ UNCHANGED <<cache, cur, inflight, use, todo, ecap, load, uring>>

\* layers_forward_rows: a new forward gives up the layers of the last one.
NewForward ==
    /\ mpc = "safe"
    /\ cur' = 0
    /\ mpc' = "next"
    /\ UNCHANGED <<cache, inflight, use, todo, ecap, load, uring>>

(* rss_guard, at the safe point between two forwards: under the lock, hide *)
(* a published slot and free its slab.                                     *)
DropSlot(l, z) ==
    /\ mpc = "safe"
    /\ cache[l][z].state = "resident"
    /\ cache[l][z].data # NoExpert
    /\ Put(l, z, FreeSlot)
    /\ UNCHANGED <<cur, inflight, mainVars, load, uring>>

\* Mutant: no floor.
LowerCapFreely ==
    /\ mpc = "safe"
    /\ ecap > 0
    /\ ecap' = ecap - 1
    /\ UNCHANGED <<cache, cur, inflight, mpc, use, todo, load, uring>>

LowerCap ==
    /\ mpc = "safe"
    /\ ecap > CapFloor
    /\ ecap' = ecap - 1
    /\ UNCHANGED <<cache, cur, inflight, mpc, use, todo, load, uring>>

----------------------------------------------------------------------------
(* A pilot load: pilot_realload, or an element of pilot_uring_batch.       *)

\* Mutant: another load's reservation may be the victim.
VictimAny(l, z) ==
    (\E y \in DOMAIN cache[l] : cache[l][y].state = "free") => cache[l][z].state = "free"

\* Free slots first; never a slot another load has reserved.
Victim(l, z) ==
    IF \E y \in DOMAIN cache[l] : cache[l][y].state = "free"
    THEN cache[l][z].state = "free"
    ELSE cache[l][z].state = "resident"

\* Mutant: the layer the main thread is in passes the test.
ReserveCurrent(p, l, e) ==
    /\ load[p].at = "idle"
    /\ l >= cur
    /\ ~Has(l, e)
    /\ \E z \in 1..(Len(cache[l]) + 1) :
         /\ IF Grows(l) THEN z = Len(cache[l]) + 1
                        ELSE z \in DOMAIN cache[l] /\ Victim(l, z)
         /\ Put(l, z, Slot("reserved", e, NoExpert))
         /\ load' = [load EXCEPT ![p] = [at |-> "reading", layer |-> l, slot |-> z, eid |-> e]]
    /\ inflight' = [inflight EXCEPT ![l] = @ + 1]
    /\ UNCHANGED <<cur, mainVars, uring>>

(* First critical section: drop the hint if the main thread has reached    *)
(* the layer or the expert is there or on its way; else reserve a slot.    *)
(* The load scribbles over the slab from here on.                          *)
Reserve(p, l, e) ==
    /\ load[p].at = "idle"
    /\ l > cur
    /\ ~Has(l, e)
    /\ \E z \in 1..(Len(cache[l]) + 1) :
         /\ IF Grows(l) THEN z = Len(cache[l]) + 1
                        ELSE z \in DOMAIN cache[l] /\ Victim(l, z)
         /\ Put(l, z, Slot("reserved", e, NoExpert))
         /\ load' = [load EXCEPT ![p] = [at |-> "reading", layer |-> l, slot |-> z, eid |-> e]]
    /\ inflight' = [inflight EXCEPT ![l] = @ + 1]
    /\ UNCHANGED <<cur, mainVars, uring>>

\* expert_load ends outside the lock, and publishes eid itself; uring does not.
ReadDone(p) ==
    LET ld == load[p] IN
    /\ ld.at = "reading"
    /\ load' = [load EXCEPT ![p].at = "read"]
    /\ Put(ld.layer, ld.slot, Slot(IF uring THEN "reserved" ELSE "resident", ld.eid, ld.eid))
    /\ UNCHANGED <<cur, inflight, mainVars, uring>>

\* An I/O error, a short read, no memory for the slab.
ReadFails(p) ==
    /\ load[p].at = "reading"
    /\ load' = [load EXCEPT ![p].at = "failed"]
    /\ UNCHANGED <<cache, cur, inflight, mainVars, uring>>

\* Mutants: a failed load keeps its label; it is never taken off inflight.
SettleFailedLabel(p) ==
    LET ld == load[p] IN
    /\ ld.at \in {"read", "failed"}
    /\ IF ld.at = "failed" \/ uring
       THEN Put(ld.layer, ld.slot, Slot("resident", ld.eid, IF ld.at = "failed" THEN NoExpert ELSE ld.eid))
       ELSE UNCHANGED cache
    /\ inflight' = [inflight EXCEPT ![ld.layer] = @ - 1]
    /\ load' = [load EXCEPT ![p] = NoLoad]
    /\ UNCHANGED <<cur, mainVars, uring>>

SettleLeaks(p) ==
    LET ld == load[p] IN
    /\ ld.at \in {"read", "failed"}
    /\ IF ld.at = "failed" THEN Put(ld.layer, ld.slot, FreeSlot)
       ELSE IF uring THEN Put(ld.layer, ld.slot, Slot("resident", ld.eid, ld.eid))
       ELSE UNCHANGED cache
    /\ inflight' = IF ld.at = "failed" THEN inflight ELSE [inflight EXCEPT ![ld.layer] = @ - 1]
    /\ load' = [load EXCEPT ![p] = NoLoad]
    /\ UNCHANGED <<cur, mainVars, uring>>

\* Second critical section, with the broadcast that the barrier waits for.
Settle(p) ==
    LET ld == load[p] IN
    /\ ld.at \in {"read", "failed"}
    /\ IF ld.at = "failed" THEN Put(ld.layer, ld.slot, FreeSlot)
       ELSE IF uring THEN Put(ld.layer, ld.slot, Slot("resident", ld.eid, ld.eid))
       ELSE UNCHANGED cache
    /\ inflight' = [inflight EXCEPT ![ld.layer] = @ - 1]
    /\ load' = [load EXCEPT ![p] = NoLoad]
    /\ UNCHANGED <<cur, mainVars, uring>>

----------------------------------------------------------------------------
Main ==
    \/ EnterMoe \/ PassBarrier \/ Matmul \/ NextBlock \/ LeaveMoe \/ NewForward \/ LowerCap
    \/ \E routed \in SUBSET Experts : Resolve(routed)
    \/ \E e \in todo : Promote(e)
    \/ \E l \in Layers : \E z \in DOMAIN cache[l] : DropSlot(l, z)

Pilot(p) ==
    \/ \E l \in Layers, e \in Experts : Reserve(p, l, e)
    \/ ReadDone(p) \/ ReadFails(p) \/ Settle(p)

Next == Main \/ \E p \in Loads : Pilot(p)

Spec == Init /\ [][Next]_vars

(* A read that was started ends, its thread then takes the lock, and the   *)
(* main thread passes a barrier that stays open.                           *)
Fairness ==
    /\ WF_vars(PassBarrier)
    /\ \A p \in Loads : WF_vars(ReadDone(p) \/ ReadFails(p)) /\ WF_vars(Settle(p))

FairSpec == Spec /\ Fairness

----------------------------------------------------------------------------
TypeOK ==
    /\ cache \in [Layers -> Seq([state : {"free", "reserved", "resident"},
                                 eid : Experts \cup {NoExpert}, data : Experts \cup {NoExpert}])]
    /\ ecap \in CapFloor..Cap
    /\ cur \in 0..NLayers
    /\ inflight \in [Layers -> 0..Cardinality(Loads)]
    /\ mpc \in {"next", "barrier", "resolve", "matmul", "promote", "safe"}
    /\ todo \subseteq Experts
    /\ \A p \in Loads : load[p].at \in {"idle", "reading", "read", "failed"}

Past == {"resolve", "matmul", "promote"}

(* Part 1 of the handshake comment: no pilot load is in flight on the      *)
(* layer the main thread resolves, multiplies with and promotes in, nor at *)
(* the safe point in any layer at all.                                     *)
LayerIsOurs ==
    \A p \in Loads : load[p].at # "idle" =>
        /\ mpc \in Past => load[p].layer # cur
        /\ mpc # "safe"

(* A slab that can be hit holds the expert it is labelled with, whole.     *)
HitsAreWhole ==
    \A l \in Layers : \A z \in DOMAIN cache[l] :
        cache[l][z].state = "resident" => cache[l][z].data = cache[l][z].eid

(* An expert is never in two slots of a layer, resident or on its way: the *)
(* re-check under the lock makes a redundant hint harmless.                *)
NoDuplicates ==
    \A l \in Layers : \A y, z \in DOMAIN cache[l] :
        /\ y # z
        /\ cache[l][y].state # "free" /\ cache[l][z].state # "free"
        => cache[l][y].eid # cache[l][z].eid

(* Every reservation is some load's, and a slab is read into by one load.  *)
OneLoadPerSlab ==
    /\ \A l \in Layers : \A z \in DOMAIN cache[l] : cache[l][z].state = "reserved" =>
         \E p \in Loads : load[p].at # "idle" /\ load[p].layer = l /\ load[p].slot = z
    /\ \A p, r \in Loads :
         p # r /\ load[p].at = "reading" /\ load[r].at = "reading"
           => <<load[p].layer, load[p].slot>> # <<load[r].layer, load[r].slot>>

(* The matmul's slots do not change under it: between the barrier and the  *)
(* promotion nobody touches the layer's cache.                             *)
CacheIsStable ==
    [][(mpc \in {"resolve", "matmul"}) => cache'[cur] = cache[cur]]_vars

(* The barrier of moe() always opens, whatever the loads it waits for.     *)
BarrierOpens == mpc = "barrier" ~> mpc = "resolve"
=============================================================================
