----------------------------- MODULE OlmoeCache -----------------------------
(***************************************************************************)
(* The expert cache of c/olmoe.c under PILOT: the main thread walks the    *)
(* layers of a token, fetching the experts the router picks, while one     *)
(* worker loads the experts that pilot_prefetch predicted for later        *)
(* layers.  Both take slots of the same caches under g_pilot_mx and read   *)
(* the disk outside it; unlike colibri.c nothing makes them keep out of    *)
(* each other's layers.                                                    *)
(*                                                                         *)
(* Router, predictor and heat are abstracted: any experts are picked,      *)
(* predicted and hot, and the LFRU guard drops any load.                   *)
(***************************************************************************)
EXTENDS Naturals, Sequences, FiniteSets, SequencesExt

CONSTANTS Experts,    \* experts of a layer
          NLayers,    \* layers, all with experts
          Cap,        \* slots of a layer's cache
          Size,       \* entries of pilot_q
          TopK,       \* experts a token uses in a layer
          Wide,       \* experts predicted for a layer, at most
          Ahead,      \* PILOT: how many layers ahead
          MaxPins,    \* experts pin_hot_experts finds hot, at most
          MaxTokens,  \* bound on the tokens
          NoExpert    \* eid = -1, and a slab whose bytes are no expert's

OlmoeCacheAssumption ==
    /\ IsFiniteSet(Experts) /\ NoExpert \notin Experts
    /\ NLayers \in Nat \ {0} /\ TopK \in 1..Cardinality(Experts) /\ Wide \in Nat /\ Size \in Nat
    /\ Ahead \in 0..3 /\ MaxPins \in Nat /\ MaxTokens \in Nat
    /\ Cap \in Nat /\ Cap >= 2      \* with one slot the last resort of expert_get takes a slot in flight

Layers == 1..NLayers

VARIABLES
    cache,      \* per layer, the slots in use: [eid, pinned, data]
    age,        \* per layer, the slots by used, the least recent first
    queued,     \* is_queued
    hot,        \* is_pinned
    ring,       \* pilot_q[pilot_r .. pilot_w - 1]
    main,       \* where the main thread is, in which layer
    todo,       \* what it still has to do there: experts, hints or pins
    slot,       \* the slot of the main thread's load or matmul
    worker,     \* where the worker is, with its slot
    tokens      \* tokens done, and whether pin_hot_experts has run

vars == <<cache, age, queued, hot, ring, main, todo, slot, worker, tokens>>

Idle == [at |-> "idle", slot |-> 0]

Init ==
    /\ cache = [l \in Layers |-> <<>>]
    /\ age = [l \in Layers |-> <<>>]
    /\ queued = {} /\ hot = {} /\ ring = <<>>
    /\ main = [at |-> "step", layer |-> 1, back |-> ""] /\ todo = <<>> /\ slot = 0
    /\ worker = Idle
    /\ tokens = [done |-> 0, pinned |-> FALSE]

----------------------------------------------------------------------------
(* Slots.                                                                  *)
Resident(l, e) == \E z \in DOMAIN cache[l] : cache[l][z].eid = e
Touched(l, z) == Append(SelectSeq(age[l], LAMBDA y : y # z), z)
Oldest(l, Allowed(_)) == SelectSeq(age[l], Allowed)

\* The slots the scan of a load may evict: neither pinned nor in flight.
Loose(l) == Oldest(l, LAMBDA z : ~cache[l][z].pinned /\ cache[l][z].eid # NoExpert)
Settled(l) == Oldest(l, LAMBDA z : cache[l][z].eid # NoExpert)

\* Mutant: pins and loads in flight are not looked at.
MainVictimAny(l) == IF Len(cache[l]) < Cap THEN Len(cache[l]) + 1 ELSE Head(age[l])

(* The slot expert_get takes: a new one, the least recent loose one, the   *)
(* least recent one that is not in flight, the first.                      *)
MainVictim(l) ==
    IF Len(cache[l]) < Cap THEN Len(cache[l]) + 1
    ELSE IF Loose(l) # <<>> THEN Head(Loose(l))
    ELSE IF Settled(l) # <<>> THEN Head(Settled(l)) ELSE 1

\* The slots pilot_realload may take: it gives up when there is none.
PilotVictims(l) ==
    IF Len(cache[l]) < Cap THEN {Len(cache[l]) + 1}
    ELSE IF Loose(l) # <<>> THEN {Head(Loose(l))} ELSE {}

\* eid = -1: the slot is out of the cache while its bytes are overwritten.
Reserve(l, z) ==
    /\ cache' = [cache EXCEPT ![l] =
                    LET s == [eid |-> NoExpert, pinned |-> FALSE, data |-> NoExpert] IN
                    IF z > Len(@) THEN Append(@, s) ELSE [@ EXCEPT ![z] = s]]
    /\ age' = [age EXCEPT ![l] = Touched(l, z)]

\* The read has ended; the slot still has no name.
Fill(l, z, e) == cache' = [cache EXCEPT ![l][z].data = e]

Publish(l, z, e) ==
    /\ cache' = [cache EXCEPT ![l][z].eid = e, ![l][z].pinned = <<l, e>> \in hot]
    /\ age' = [age EXCEPT ![l] = Touched(l, z)]

----------------------------------------------------------------------------
(* The main thread.                                                        *)
Goto(at) == main' = [main EXCEPT !.at = at]
Layer == main.layer

\* step(): the hints of the last token are dropped, but not from the ring.
StartToken ==
    /\ main.at = "step"
    /\ tokens.done < MaxTokens
    /\ queued' = IF Ahead > 0 /\ tokens.done > 0 THEN {} ELSE queued
    /\ main' = [at |-> "before", layer |-> 1, back |-> ""]
    /\ UNCHANGED <<cache, age, hot, ring, todo, slot, worker, tokens>>

(* pilot_prefetch: some experts of layer l, in the order of their numbers. *)
Hints(l) == {[i \in 1..Cardinality(s) |-> <<l, SetToSortSeq(s, <)[i]>>] :
                 s \in {s \in SUBSET Experts : Cardinality(s) \in 1..Wide}}
Predict(l, back) ==
    /\ \/ l \in Layers /\ todo' \in Hints(l) /\ main' = [main EXCEPT !.at = "look", !.back = back]
       \/ l \notin Layers /\ todo' = <<>> /\ Goto(back)
    /\ UNCHANGED <<cache, age, queued, hot, ring, slot, worker, tokens>>

PredictNext ==
    /\ main.at = "before"
    /\ Predict(IF Ahead >= 1 THEN Layer + 1 ELSE NLayers + 1, "route")
PredictSecond ==
    /\ main.at = "after"
    /\ Predict(IF Ahead >= 2 THEN Layer + 2 ELSE NLayers + 1, "after2")
PredictThird ==
    /\ main.at = "after2"
    /\ Predict(IF Ahead >= 3 THEN Layer + 3 ELSE NLayers + 1, "leave")

\* Two critical sections for each hint, and the push outside them.
Look ==
    /\ main.at = "look"
    /\ IF todo = <<>> THEN Goto(main.back) /\ UNCHANGED todo
       ELSE IF Resident(Head(todo)[1], Head(todo)[2]) THEN todo' = Tail(todo) /\ UNCHANGED main
       ELSE Goto("mark") /\ UNCHANGED todo
    /\ UNCHANGED <<cache, age, queued, hot, ring, slot, worker, tokens>>

Mark ==
    /\ main.at = "mark"
    /\ IF Head(todo) \in queued THEN todo' = Tail(todo) /\ Goto("look") /\ UNCHANGED queued
                                ELSE queued' = queued \cup {Head(todo)} /\ Goto("push") /\ UNCHANGED todo
    /\ UNCHANGED <<cache, age, hot, ring, slot, worker, tokens>>

\* Mutant: a hint that finds the ring full stays marked.
PushMarked ==
    /\ main.at = "push"
    /\ ring' = IF Len(ring) < Size THEN Append(ring, Head(todo)) ELSE ring
    /\ todo' = Tail(todo) /\ Goto("look")
    /\ UNCHANGED <<cache, age, queued, hot, slot, worker, tokens>>

Push ==
    /\ main.at = "push"
    /\ IF Len(ring) < Size THEN ring' = Append(ring, Head(todo)) /\ UNCHANGED queued
                           ELSE queued' = queued \ {Head(todo)} /\ UNCHANGED ring
    /\ todo' = Tail(todo) /\ Goto("look")
    /\ UNCHANGED <<cache, age, hot, slot, worker, tokens>>

\* moe(): the router's choice, each expert of it once.
Route ==
    /\ main.at = "route"
    /\ todo' \in {q \in [1..TopK -> Experts] : IsInjective(q)}
    /\ Goto("get")
    /\ UNCHANGED <<cache, age, queued, hot, ring, slot, worker, tokens>>

(* expert_get, first critical section.  A load of the same expert that is  *)
(* in flight has no name yet and is not seen.                              *)
Get ==
    /\ main.at = "get" /\ todo # <<>>
    /\ \/ /\ Resident(Layer, Head(todo))
          /\ slot' = CHOOSE z \in DOMAIN cache[Layer] :
                       /\ cache[Layer][z].eid = Head(todo)
                       /\ \A y \in 1..(z - 1) : cache[Layer][y].eid # Head(todo)
          /\ age' = [age EXCEPT ![Layer] = Touched(Layer, slot')]
          /\ Goto("matmul") /\ UNCHANGED cache
       \/ /\ ~Resident(Layer, Head(todo))
          /\ slot' = MainVictim(Layer)
          /\ Reserve(Layer, slot')
          /\ Goto("load")
    /\ UNCHANGED <<queued, hot, ring, todo, worker, tokens>>

\* load_expert_merged ends the process when the container's sizes are wrong.
Exit == main' = [main EXCEPT !.at = "exited"]

MainLoad ==
    /\ main.at = "load"
    /\ \/ Fill(Layer, slot, Head(todo)) /\ Goto("publish")
       \/ Exit /\ UNCHANGED cache
    /\ UNCHANGED <<age, queued, hot, ring, todo, slot, worker, tokens>>

MainPublish ==
    /\ main.at = "publish"
    /\ Publish(Layer, slot, Head(todo))
    /\ Goto("matmul")
    /\ UNCHANGED <<queued, hot, ring, todo, slot, worker, tokens>>

Matmul ==
    /\ main.at = "matmul"
    /\ todo' = Tail(todo) /\ slot' = 0
    /\ Goto(IF Len(todo) > 1 THEN "get" ELSE "after")
    /\ UNCHANGED <<cache, age, queued, hot, ring, worker, tokens>>

(* The end of a layer, or of the token: after the warm-up the most used    *)
(* experts of every layer are pinned, once.                                *)
LeaveLayer ==
    /\ main.at = "leave"
    /\ \/ Layer < NLayers /\ main' = [main EXCEPT !.at = "before", !.layer = Layer + 1] /\ UNCHANGED <<todo, tokens>>
       \/ /\ Layer = NLayers
          /\ \/ /\ ~tokens.pinned
                /\ todo' \in {SetToSeq(p) : p \in {p \in SUBSET (Layers \X Experts) : Cardinality(p) <= MaxPins}}
                /\ Goto("pin")
                /\ tokens' = [done |-> tokens.done + 1, pinned |-> TRUE]
             \/ /\ main' = [at |-> "step", layer |-> 1, back |-> ""]
                /\ tokens' = [tokens EXCEPT !.done = @ + 1] /\ UNCHANGED todo
    /\ UNCHANGED <<cache, age, queued, hot, ring, slot, worker>>

\* pin_hot_experts marks an expert before it takes the lock.
PinMark ==
    /\ main.at = "pin"
    /\ \/ todo = <<>> /\ main' = [at |-> "step", layer |-> 1, back |-> ""] /\ UNCHANGED hot
       \/ todo # <<>> /\ hot' = hot \cup {Head(todo)} /\ Goto("pinslot")
    /\ UNCHANGED <<cache, age, queued, ring, todo, slot, worker, tokens>>

PinSlot ==
    /\ main.at = "pinslot"
    /\ LET l == Head(todo)[1] e == Head(todo)[2]
           found == {z \in DOMAIN cache[l] : cache[l][z].eid = e} IN
       IF found # {}
       THEN /\ \E z \in found : /\ \A y \in found : z <= y
                                /\ cache' = [cache EXCEPT ![l][z].pinned = TRUE]
            /\ todo' = Tail(todo) /\ Goto("pin")
       ELSE /\ IF Ahead > 0 THEN UNCHANGED todo /\ Goto("pinpush") ELSE todo' = Tail(todo) /\ Goto("pin")
            /\ UNCHANGED cache
    /\ UNCHANGED <<age, queued, hot, ring, slot, worker, tokens>>

PinPush ==
    /\ main.at = "pinpush"
    /\ IF Head(todo) \notin queued /\ Len(ring) < Size
       THEN ring' = Append(ring, Head(todo)) /\ queued' = queued \cup {Head(todo)}
       ELSE UNCHANGED <<ring, queued>>
    /\ todo' = Tail(todo) /\ Goto("pin")
    /\ UNCHANGED <<cache, age, hot, slot, worker, tokens>>

----------------------------------------------------------------------------
(* The worker: pilot_worker and pilot_realload, on the head of the ring.   *)
Hint == Head(ring)

\* First critical section: a reason to drop the hint, or a slot for it.
Drop ==
    /\ worker.at = "idle" /\ ring # <<>>
    /\ Hint \notin queued \/ Resident(Hint[1], Hint[2]) \/ Len(cache[Hint[1]]) = Cap
    /\ queued' = queued \ {Hint}
    /\ worker' = [worker EXCEPT !.at = "advance"]
    /\ UNCHANGED <<cache, age, hot, ring, main, todo, slot, tokens>>

Begin ==
    /\ worker.at = "idle" /\ ring # <<>>
    /\ Hint \in queued /\ ~Resident(Hint[1], Hint[2])
    /\ \E z \in PilotVictims(Hint[1]) : /\ Reserve(Hint[1], z)
                                        /\ worker' = [at |-> "load", slot |-> z]
    /\ UNCHANGED <<queued, hot, ring, main, todo, slot, tokens>>

PilotLoad ==
    /\ worker.at = "load"
    /\ \/ Fill(Hint[1], worker.slot, Hint[2]) /\ worker' = [worker EXCEPT !.at = "publish"] /\ UNCHANGED main
       \/ Exit /\ UNCHANGED <<cache, worker>>
    /\ UNCHANGED <<age, queued, hot, ring, todo, slot, tokens>>

\* Mutant: the mark of the hint outlives it.
PilotPublishMarked ==
    /\ worker.at = "publish"
    /\ Publish(Hint[1], worker.slot, Hint[2])
    /\ worker' = [at |-> "advance", slot |-> 0]
    /\ UNCHANGED <<queued, hot, ring, main, todo, slot, tokens>>

PilotPublish ==
    /\ worker.at = "publish"
    /\ Publish(Hint[1], worker.slot, Hint[2])
    /\ queued' = queued \ {Hint}
    /\ worker' = [at |-> "advance", slot |-> 0]
    /\ UNCHANGED <<hot, ring, main, todo, slot, tokens>>

\* pilot_r moves past the element only now: main cannot overwrite it before.
Advance ==
    /\ worker.at = "advance"
    /\ ring' = Tail(ring) /\ worker' = Idle
    /\ UNCHANGED <<cache, age, queued, hot, main, todo, slot, tokens>>

----------------------------------------------------------------------------
MainStep ==
    \/ StartToken \/ PredictNext \/ PredictSecond \/ PredictThird
    \/ Look \/ Mark \/ Push
    \/ Route \/ Get \/ MainLoad \/ MainPublish \/ Matmul \/ LeaveLayer
    \/ PinMark \/ PinSlot \/ PinPush
WorkerStep == Drop \/ Begin \/ PilotLoad \/ PilotPublish \/ Advance

Next == main.at # "exited" /\ (MainStep \/ WorkerStep)

Spec == Init /\ [][Next]_vars

----------------------------------------------------------------------------
TypeOK ==
    /\ \A l \in Layers :
         /\ Len(cache[l]) <= Cap
         /\ \A z \in DOMAIN cache[l] :
              cache[l][z] \in [eid : Experts \cup {NoExpert}, pinned : BOOLEAN, data : Experts \cup {NoExpert}]
         /\ Len(age[l]) = Len(cache[l]) /\ ToSet(age[l]) = DOMAIN cache[l]
    /\ queued \subseteq Layers \X Experts /\ hot \subseteq Layers \X Experts
    /\ Len(ring) <= Size /\ ToSet(ring) \subseteq Layers \X Experts
    /\ worker.at \in {"idle", "load", "publish", "advance"}
    /\ tokens \in [done : 0..MaxTokens, pinned : BOOLEAN]

(* expert_get, pilot_realload: a slot with an expert's name holds that     *)
(* expert's bytes, and the two threads never read into one slot, so no     *)
(* name is given to a mixture.                                             *)
NamedSlotsAreWhole ==
    /\ \A l \in Layers : \A z \in DOMAIN cache[l] :
         cache[l][z].eid # NoExpert => cache[l][z].data = cache[l][z].eid
    /\ ~(/\ main.at \in {"load", "publish"} /\ worker.at \in {"load", "publish"}
         /\ Layer = Hint[1] /\ slot = worker.slot)

(* is_queued keeps an expert from being hinted again, so a mark without an *)
(* entry would stop its loads for the rest of the token: every mark has    *)
(* an entry in the ring, or one that the main thread is about to push.     *)
MarksArePending ==
    \A h \in queued : h \in ToSet(ring) \/ (main.at = "push" /\ Head(todo) = h)

(* pin_hot_experts: whichever thread brings a hot expert in, and whenever, *)
(* an expert that is in the cache after its turn to be pinned is pinned.   *)
PinsHold ==
    \A h \in hot :
        /\ Resident(h[1], h[2])
        /\ ~(main.at = "pinslot" /\ Head(todo) = h)
        => \E z \in DOMAIN cache[h[1]] : cache[h[1]][z].eid = h[2] /\ cache[h[1]][z].pinned

(* moe multiplies with the slot expert_get returned, outside the lock and  *)
(* with nothing to hold it, so the worker may take it.  It does not while  *)
(* the layer has more unpinned slots than the worker can load experts for  *)
(* it meanwhile: those in the ring, at most, or those predicted for a      *)
(* token, the hot ones and the load under way from before.                 *)
Unpinned(l) == Cardinality({z \in DOMAIN cache[l] : ~cache[l][z].pinned})
HotOf(l) == Cardinality({h \in hot : h[1] = l})
MatmulKeepsItsSlot ==
    /\ main.at = "matmul"
    /\ \E loads \in {Size, Ahead * Wide + HotOf(Layer) + 1} : Unpinned(Layer) > loads
    => cache[Layer][slot].eid = Head(todo) /\ cache[Layer][slot].data = Head(todo)

PilotIsSound == main.at # "exited" => NamedSlotsAreWhole /\ MarksArePending /\ PinsHold /\ MatmulKeepsItsSlot
=============================================================================
