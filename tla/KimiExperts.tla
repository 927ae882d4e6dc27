---------------------------- MODULE KimiExperts ----------------------------
(***************************************************************************)
(* The routed experts of a layer in c/kimi_k3.c: the union of the experts  *)
(* a chunk of positions selected, the part of it that the Vulkan tier has, *)
(* and the rest in blocks, each resolved against the layer's cache, read   *)
(* by the loader pool (K3_PIPE) while the main thread computes, and        *)
(* promoted.  An output is the bag of experts added to a position, each    *)
(* as the slab held it when it was multiplied with.                        *)
(***************************************************************************)
EXTENDS Naturals, Sequences, FiniteSets, SequencesExt

CONSTANTS Experts,    \* numbers of experts
          Workers,    \* threads of the pool
          Block,      \* LP_MAX: experts in a block, slots of m->ws
          Cap,        \* slots of the layer's cache
          Routings,   \* the chunks: per position, the experts it selected
          DiskOrder,  \* the experts in the order of their offsets in the shards
          Missing,    \* experts without tensors in the index
          Uploads,    \* uploads into the tier per chunk
          TierRoom,   \* experts the device has memory for
          MaxCalls,   \* bound on the chunks
          NoExpert    \* a slab that holds no expert's bytes

KimiExpertsAssumption ==
    /\ IsFiniteSet(Experts) /\ IsFiniteSet(Workers) /\ Workers # {} /\ NoExpert \notin Experts
    /\ Block \in Nat \ {0} /\ Cap \in Nat /\ MaxCalls \in Nat /\ Uploads \in Nat /\ TierRoom \in Nat
    /\ ToSet(DiskOrder) = Experts /\ IsInjective(DiskOrder) /\ Missing \subseteq Experts
    /\ \A r \in Routings : r \in Seq(Seq(Experts)) /\ \A t \in DOMAIN r : IsInjective(r[t])

VARIABLES
    setup,    \* whether the pool and the tier are on
    at,       \* where the main thread is
    chunk,    \* the chunk: the routing, the calls so far
    left,     \* the union's experts not yet computed
    block,    \* the block: its experts, and the slot of each
    cache,    \* the layer's slots
    age,      \* those slots by used, the least recent first
    ws,       \* m->ws
    pool,     \* g_lp: job, ready, next, count
    worker,   \* where each thread of the pool is, and its job
    tier,     \* experts on the device, as they were uploaded; uploads left; full
    out       \* per position, what was added

vars == <<setup, at, chunk, left, block, cache, age, ws, pool, worker, tier, out>>

Slot(e, data) == [eid |-> e, data |-> data]
NoWork == [at |-> "top", idx |-> 0]
NoBlock == [eids |-> <<>>, slots |-> <<>>, done |-> 0]
NoBytes == [e \in Experts |-> NoExpert]

Init ==
    /\ setup \in [pipe : BOOLEAN, vulkan : BOOLEAN]
    /\ at = "start" /\ chunk = [routing |-> <<>>, calls |-> 0]
    /\ left = <<>> /\ block = NoBlock
    /\ cache = <<>> /\ age = <<>>
    /\ ws = [q \in 1..Block |-> Slot(NoExpert, NoExpert)]
    /\ pool = [job |-> <<>>, ready |-> {}, next |-> 1, count |-> 0]
    /\ worker = [w \in Workers |-> NoWork]
    /\ tier = [has |-> NoBytes, budget |-> Uploads, full |-> FALSE]
    /\ out = <<>>

----------------------------------------------------------------------------
(* moe_forward: the union in disk order, the positions of each expert.     *)
Union(routing) == SelectSeq(DiskOrder, LAMBDA e : \E t \in DOMAIN routing : e \in ToSet(routing[t]))
Positions(e) == {t \in DOMAIN chunk.routing : e \in ToSet(chunk.routing[t])}

Added(e, data) == [t \in DOMAIN out |-> IF t \in Positions(e) THEN Append(out[t], data) ELSE out[t]]

StartChunk(routing) ==
    /\ at = "start" /\ chunk.calls < MaxCalls
    /\ chunk' = [routing |-> routing, calls |-> chunk.calls + 1]
    /\ left' = Union(routing)
    /\ out' = [t \in DOMAIN routing |-> <<>>]
    /\ tier' = [tier EXCEPT !.budget = Uploads]
    /\ at' = "tier"
    /\ UNCHANGED <<setup, block, cache, age, ws, pool, worker>>

\* Mutant: what the tier has computed is not taken off the union.
UseTierKeeps(done) ==
    /\ at = "tier"
    /\ done \subseteq ToSet(left)
    /\ done # {} => setup.vulkan /\ Len(chunk.routing) = 1
    /\ \A e \in done : tier.has[e] # NoExpert
    /\ out' = [t \in DOMAIN out |-> out[t] \o
                   [i \in 1..Cardinality(done) |-> tier.has[SelectSeq(left, LAMBDA e : e \in done)[i]]]]
    /\ at' = "resolve"
    /\ UNCHANGED <<setup, chunk, left, block, cache, age, ws, pool, worker, tier>>

(* A decode step takes what it can from the tier; a submission may fail,   *)
(* which leaves its expert to the disk path.                               *)
UseTier(done) ==
    /\ at = "tier"
    /\ done \subseteq ToSet(left)
    /\ done # {} => setup.vulkan /\ Len(chunk.routing) = 1
    /\ \A e \in done : tier.has[e] # NoExpert
    /\ left' = SelectSeq(left, LAMBDA e : e \notin done)
    /\ out' = [t \in DOMAIN out |-> out[t] \o
                   [i \in 1..Cardinality(done) |-> tier.has[SelectSeq(left, LAMBDA e : e \in done)[i]]]]
    /\ at' = "resolve"
    /\ UNCHANGED <<setup, chunk, block, cache, age, ws, pool, worker, tier>>

----------------------------------------------------------------------------
(* experts_apply_union, one block.                                         *)
First(n, s) == SubSeq(s, 1, IF Len(s) < n THEN Len(s) ELSE n)
Found(e) == {z \in DOMAIN cache : cache[z].eid = e}
Misses(eids) == SelectSeq(eids, LAMBDA e : Found(e) = {})
PlaceOf(e, s) == CHOOSE i \in DOMAIN s : s[i] = e

\* Hits are touched in the order of the block; misses take m->ws from the front.
Resolve ==
    /\ at = "resolve" /\ left # <<>>
    /\ LET eids == First(Block, left) IN
       /\ block' = [eids |-> eids, done |-> 0,
                    slots |-> [i \in DOMAIN eids |->
                                 IF Found(eids[i]) = {} THEN [ws |-> TRUE, z |-> PlaceOf(eids[i], Misses(eids))]
                                 ELSE [ws |-> FALSE, z |-> CHOOSE z \in Found(eids[i]) : TRUE]]]
       /\ age' = FoldLeft(LAMBDA a, e : IF Found(e) = {} THEN a
                                        ELSE SelectSeq(a, LAMBDA z : z \notin Found(e)) \o SetToSeq(Found(e)),
                          age, eids)
       /\ at' = IF Misses(eids) = <<>> THEN "compute" ELSE IF setup.pipe THEN "jobs" ELSE "read"
    /\ UNCHANGED <<setup, chunk, left, cache, ws, pool, worker, tier, out>>

Missed == Misses(block.eids)

\* Without the pool every miss is read before the block is computed.
ReadAll ==
    /\ at = "read"
    /\ IF ToSet(Missed) \cap Missing # {} THEN at' = "exited" /\ UNCHANGED ws
       ELSE /\ at' = "compute"
            /\ ws' = [q \in DOMAIN ws |-> IF q \in DOMAIN Missed THEN Slot(Missed[q], Missed[q]) ELSE ws[q]]
    /\ UNCHANGED <<setup, chunk, left, block, cache, age, pool, worker, tier, out>>

\* The jobs are written outside the lock, then published under it.
WriteJobs ==
    /\ at = "jobs"
    /\ pool' = [pool EXCEPT !.job = Missed \o SubSeq(@, Len(Missed) + 1, Len(@))]
    /\ at' = "submit"
    /\ UNCHANGED <<setup, chunk, left, block, cache, age, ws, worker, tier, out>>

\* Mutants: the flags of the last batch stay up; nobody is told.
SubmitReady ==
    /\ at = "submit"
    /\ pool' = [pool EXCEPT !.next = 1, !.count = Len(Missed)]
    /\ worker' = [w \in Workers |-> IF worker[w].at = "parked" THEN NoWork ELSE worker[w]]
    /\ at' = "compute"
    /\ UNCHANGED <<setup, chunk, left, block, cache, age, ws, tier, out>>

SubmitSilently ==
    /\ at = "submit"
    /\ pool' = [pool EXCEPT !.ready = {}, !.next = 1, !.count = Len(Missed)]
    /\ at' = "compute"
    /\ UNCHANGED <<setup, chunk, left, block, cache, age, ws, worker, tier, out>>

Submit ==
    /\ at = "submit"
    /\ pool' = [pool EXCEPT !.ready = {}, !.next = 1, !.count = Len(Missed)]
    /\ worker' = [w \in Workers |-> IF worker[w].at = "parked" THEN NoWork ELSE worker[w]]
    /\ at' = "compute"
    /\ UNCHANGED <<setup, chunk, left, block, cache, age, ws, tier, out>>

(* The block's experts in turn: wait for the read, upload it if the tier   *)
(* has room, apply it to its positions.                                    *)
Now == block.done + 1
Held(s) == IF s.ws THEN ws[s.z] ELSE cache[s.z]
Awaited == setup.pipe /\ block.slots[Now].ws

\* vk_expert_try_upload: the tier is full once, for good.
Room == Cardinality({e \in Experts : tier.has[e] # NoExpert}) < TierRoom
Offered == setup.vulkan /\ block.slots[Now].ws /\ ~tier.full /\ tier.budget > 0
           /\ tier.has[block.eids[Now]] = NoExpert

\* Mutant: the flag of the read is not waited for.
ComputeAtOnce ==
    /\ at = "compute" /\ Now \in DOMAIN block.eids
    /\ out' = Added(block.eids[Now], Held(block.slots[Now]).data)
    /\ block' = [block EXCEPT !.done = @ + 1]
    /\ UNCHANGED <<setup, at, chunk, left, cache, age, ws, pool, worker, tier>>

Compute ==
    /\ at = "compute" /\ Now \in DOMAIN block.eids
    /\ Awaited => block.slots[Now].z \in pool.ready
    /\ LET e == block.eids[Now] data == Held(block.slots[Now]).data IN
       /\ out' = Added(e, data)
       /\ tier' = IF ~Offered THEN tier
                  ELSE IF ~Room THEN [tier EXCEPT !.full = TRUE]
                  ELSE [tier EXCEPT !.has[e] = data, !.budget = @ - 1]
    /\ block' = [block EXCEPT !.done = @ + 1]
    /\ UNCHANGED <<setup, at, chunk, left, cache, age, ws, pool, worker>>

\* An upload that fails half-way is undone, and the tier is closed.
ComputeUploadFails ==
    /\ at = "compute" /\ Now \in DOMAIN block.eids
    /\ Awaited => block.slots[Now].z \in pool.ready
    /\ Offered /\ Room
    /\ out' = Added(block.eids[Now], Held(block.slots[Now]).data)
    /\ tier' = [tier EXCEPT !.full = TRUE]
    /\ block' = [block EXCEPT !.done = @ + 1]
    /\ UNCHANGED <<setup, at, chunk, left, cache, age, ws, pool, worker>>

(* Promotion: the last of the misses first, each swapped with a new slot   *)
(* or with the least recently used one.                                    *)
Promoted(s, q) ==
    LET grows == Len(s.cache) < Cap
        z == IF grows THEN Len(s.cache) + 1 ELSE Head(s.age)
        old == IF grows THEN Slot(NoExpert, NoExpert) ELSE s.cache[z]
    IN [cache |-> IF grows THEN Append(s.cache, s.ws[q]) ELSE [s.cache EXCEPT ![z] = s.ws[q]],
        ws |-> [s.ws EXCEPT ![q] = old],
        age |-> Append(SelectSeq(s.age, LAMBDA y : y # z), z)]

PromotedCount(n) == IF n < Cap THEN n ELSE Cap
PromotedOrder(n) == [a \in 1..PromotedCount(n) |-> n + 1 - a]

EndBlock ==
    /\ at = "compute" /\ block.done = Len(block.eids)
    /\ LET s == FoldLeft(Promoted, [cache |-> cache, ws |-> ws, age |-> age], PromotedOrder(Len(Missed))) IN
       cache' = s.cache /\ ws' = s.ws /\ age' = s.age
    /\ left' = SubSeq(left, Len(block.eids) + 1, Len(left))
    /\ block' = NoBlock /\ at' = "resolve"
    /\ UNCHANGED <<setup, chunk, pool, worker, tier, out>>

EndChunk ==
    /\ at = "resolve" /\ left = <<>>
    /\ at' = "start"
    /\ UNCHANGED <<setup, chunk, left, block, cache, age, ws, pool, worker, tier, out>>

----------------------------------------------------------------------------
(* lp_main.  A worker claims a job under the lock or waits there; it reads *)
(* the job, and count once more, after it has let the lock go.             *)
Goto(w, p) == worker' = [worker EXCEPT ![w].at = p]

\* Mutant: the cursor is read, not advanced.
ClaimByRead(w) ==
    /\ worker[w].at = "top"
    /\ IF pool.next > pool.count THEN Goto(w, "parked") /\ UNCHANGED pool
       ELSE \/ /\ worker' = [worker EXCEPT ![w] = [at |-> "claimed", idx |-> pool.next]]
               /\ pool' = [pool EXCEPT !.next = @ + 1]
            \/ worker' = [worker EXCEPT ![w] = [at |-> "claimed", idx |-> pool.next]] /\ UNCHANGED pool
    /\ UNCHANGED <<setup, at, chunk, left, block, cache, age, ws, tier, out>>

Claim(w) ==
    /\ worker[w].at = "top"
    /\ IF pool.next > pool.count THEN Goto(w, "parked") /\ UNCHANGED pool
       ELSE /\ worker' = [worker EXCEPT ![w] = [at |-> "claimed", idx |-> pool.next]]
            /\ pool' = [pool EXCEPT !.next = @ + 1]
    /\ UNCHANGED <<setup, at, chunk, left, block, cache, age, ws, tier, out>>

BeginRead(w) ==
    LET q == worker[w].idx IN
    /\ worker[w].at = "claimed"
    /\ IF q > pool.count THEN Goto(w, "top") /\ UNCHANGED <<at, ws>>
       ELSE IF pool.job[q] \in Missing THEN at' = "exited" /\ UNCHANGED <<ws, worker>>
       ELSE Goto(w, "reading") /\ ws' = [ws EXCEPT ![q].data = NoExpert] /\ UNCHANGED at
    /\ UNCHANGED <<setup, chunk, left, block, cache, age, pool, tier, out>>

\* expert_read names the slot at its end.
EndRead(w) ==
    LET q == worker[w].idx IN
    /\ worker[w].at = "reading"
    /\ ws' = [ws EXCEPT ![q] = Slot(pool.job[q], pool.job[q])]
    /\ Goto(w, "read")
    /\ UNCHANGED <<setup, at, chunk, left, block, cache, age, pool, tier, out>>

SetReady(w) ==
    /\ worker[w].at = "read"
    /\ pool' = [pool EXCEPT !.ready = @ \cup {worker[w].idx}]
    /\ worker' = [worker EXCEPT ![w] = NoWork]
    /\ UNCHANGED <<setup, at, chunk, left, block, cache, age, ws, tier, out>>

----------------------------------------------------------------------------
Main ==
    \/ \E r \in Routings : StartChunk(r)
    \/ \E done \in SUBSET ToSet(left) : UseTier(done)
    \/ Resolve \/ ReadAll \/ WriteJobs \/ Submit \/ Compute \/ ComputeUploadFails \/ EndBlock \/ EndChunk

\* The threads are started with the first submission.
Worker(w) == setup.pipe /\ (Claim(w) \/ BeginRead(w) \/ EndRead(w) \/ SetReady(w))

Next == at # "exited" /\ (Main \/ \E w \in Workers : Worker(w))

Spec == Init /\ [][Next]_vars

----------------------------------------------------------------------------
TypeOK ==
    /\ at \in {"start", "tier", "resolve", "read", "jobs", "submit", "compute", "exited"}
    /\ Len(cache) <= Cap /\ Len(age) = Len(cache) /\ ToSet(age) = DOMAIN cache
    /\ \A q \in DOMAIN ws : ws[q].data \in Experts \cup {NoExpert}
    /\ pool.next \in 1..(Block + 1) /\ pool.count \in 0..Block /\ pool.ready \subseteq 1..Block
    /\ \A w \in Workers : worker[w].at \in {"top", "parked", "claimed", "reading", "read"}
    /\ tier.budget \in 0..Uploads

Count(x, s) == Cardinality({i \in DOMAIN s : s[i] = x})

(* moe_forward, experts_apply_union: at the end of a chunk every position  *)
(* was given each expert it selected once, from whole slabs, whoever read  *)
(* them, in whatever order, and wherever they were computed; without the   *)
(* tier in the order of the disk, so that the sums of a chunk are the bits *)
(* of those of a position alone (step_chunk's comment).                    *)
EveryExpertOnce ==
    at = "resolve" /\ left = <<>> =>
        \A t \in DOMAIN out :
            /\ ToSet(out[t]) = ToSet(chunk.routing[t])
            /\ Len(out[t]) = Len(chunk.routing[t])
            /\ ~setup.vulkan => out[t] = SelectSeq(DiskOrder, LAMBDA e : e \in ToSet(chunk.routing[t]))

(* The layer's cache names every expert once, and the bytes are its own;   *)
(* so are those on the device.                                             *)
CacheIsSound ==
    /\ \A z \in DOMAIN cache : cache[z].data = cache[z].eid /\ cache[z].eid # NoExpert
    /\ \A y, z \in DOMAIN cache : cache[y].eid = cache[z].eid => y = z
    /\ \A e \in Experts : tier.has[e] \in {e, NoExpert}

(* The comment above the pool: one batch in flight at a time, so the flags *)
(* need no generation counter.  While the main thread waits for a read,    *)
(* exactly one worker has it, or some worker is on its way to claim it:    *)
(* no wakeup is lost and no job is done twice.                             *)
WaitedReadIsComing ==
    at = "compute" /\ Now \in DOMAIN block.eids /\ Awaited /\ block.slots[Now].z \notin pool.ready =>
        LET q == block.slots[Now].z IN
        IF q < pool.next
        THEN Cardinality({w \in Workers : worker[w].at \in {"claimed", "reading", "read"} /\ worker[w].idx = q}) = 1
        ELSE \E w \in Workers : worker[w].at # "parked"

ExpertsAreSound == EveryExpertOnce /\ CacheIsSound /\ (at # "exited" => WaitedReadIsComing)
=============================================================================
