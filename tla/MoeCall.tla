------------------------------ MODULE MoeCall ------------------------------
(***************************************************************************)
(* The second half of moe in c/colibri.c: the experts a batch was routed   *)
(* to are resolved, loaded and computed in blocks, on the CPU, on Metal,   *)
(* on CUDA devices (issued early, as groups, or left as partial sums), or  *)
(* by the Vulkan tier, and those loaded are promoted into the cache.       *)
(*                                                                         *)
(* A slab is the layer and expert its bytes belong to; while it is being   *)
(* read it belongs to no layer.  The output is, for every expert, the      *)
(* contributions it received: "right" when it came from that expert's      *)
(* weights in this layer and from the input these weights need, else what  *)
(* is wrong with it.  All rows of an expert share its fate.  The pilot's   *)
(* loads are in ExpertCache.                                               *)
(***************************************************************************)
EXTENDS Naturals, Sequences, FiniteSets, SequencesExt

CONSTANTS Layers, Experts,
          Devices,    \* CUDA devices
          Home,       \* for a layer, its pinned experts and where each is: a device or 0
          Registry,   \* for a layer, the experts of the Vulkan tier and their device
          Setups,     \* builds and environments to explore
          Routings,   \* the uniq[] lists a call may have
          BlockSize,  \* the 64 experts of a block
          Cap,        \* ecap
          MaxCalls    \* bound of the model

MoeCallAssumption ==
    /\ 0 \notin Layers /\ 0 \notin Devices
    /\ \A l \in Layers : DOMAIN Home[l] \cup DOMAIN Registry[l] \subseteq Experts
    /\ {BlockSize, Cap, MaxCalls} \subseteq Nat \ {0}

VARIABLES
    setup,   \* build, pipe, async, resident, xexp, rotated, lossy
    call,    \* layer, experts still to do, with_shared, calls so far
    at,      \* where moe is
    block,   \* the experts of the block, those missed, the cursor of the loop
    ws,      \* the load buffers
    loading, \* buffers with a read under way
    lru,     \* ecache of each layer, the least recently used first
    dev,     \* what was issued to devices, and what came of it
    out      \* contributions

vars == <<setup, call, at, block, ws, loading, lru, dev, out>>

Slab(l, e) == [layer |-> l, eid |-> e]
Empty == Slab(0, "none")
NoBlock == [experts |-> <<>>, missed |-> <<>>, next |-> 1, base |-> 0]
NoDev == [begun |-> FALSE, cpu |-> {}, early |-> {}, group |-> {}, async |-> FALSE,
          ok |-> [d \in Devices |-> 0], issued |-> {}]
Nothing == [e \in Experts \cup {"shared"} |-> <<>>]

Init ==
    /\ setup \in Setups
    /\ \E l \in Layers, r \in Routings, w \in BOOLEAN :
           call = [layer |-> l, todo |-> r, shared |-> w, routed |-> ToSet(r), n |-> 1]
    /\ at = "block" /\ block = NoBlock
    /\ ws = [q \in 1..BlockSize |-> Empty] /\ loading = {}
    /\ lru = [l \in Layers |-> <<>>]
    /\ dev = NoDev /\ out = Nothing

Layer == call.layer
Vulkan(e) == setup.build = "vulkan" /\ e \in DOMAIN Registry[Layer]
Pinned(e) == e \in DOMAIN Home[Layer]
Cached(e) == \E i \in DOMAIN lru[Layer] : lru[Layer][i].eid = e
Missed(e) == e \in ToSet(block.missed)
Buffer(e) == CHOOSE q \in DOMAIN block.missed : block.missed[q] = e
OnCuda(e) == setup.build = "cuda" /\ Pinned(e) /\ Home[Layer][e] # 0
InBlock == ToSet(block.experts)

SlabOf(e) ==
    IF Missed(e) THEN ws[Buffer(e)]
    ELSE IF Pinned(e) THEN Slab(Layer, e)
    ELSE lru[Layer][CHOOSE i \in DOMAIN lru[Layer] : lru[Layer][i].eid = e]

\* E8_XE and e8_rot_rows: rotated weights need a rotated input.
Input == IF setup.rotated THEN "rotated" ELSE "plain"

\* A contribution of expert e from a slab, with the input a path prepares.
Made(slab, e, input) ==
    CASE slab.eid # e -> "another expert"
      [] slab.layer # Layer -> "another layer"
      [] input # Input -> "not rotated"
      [] OTHER -> "right"

Summed(o, from) == [e \in DOMAIN o |-> IF e \in DOMAIN from THEN Append(o[e], from[e]) ELSE o[e]]
FromSlabs(es) == [e \in es |-> Made(SlabOf(e), e, Input)]
OnDevice(es) == [e \in es |-> "right"]
----------------------------------------------------------------------------
(* Phase C: a block is resolved and its misses are loaded.                 *)

Bumped(cache, es) ==
    LET Of(e) == SelectSeq(cache, LAMBDA s : s.eid = e)
        Used(s) == s.eid \in ToSet(es) /\ ~Pinned(s.eid) /\ ~Vulkan(s.eid)
    IN SelectSeq(cache, LAMBDA s : ~Used(s))
       \o FlattenSeq([i \in DOMAIN es |-> IF Pinned(es[i]) \/ Vulkan(es[i]) THEN <<>> ELSE Of(es[i])])

Resolve ==
    /\ at = "block" /\ call.todo # <<>>
    /\ LET n == IF Len(call.todo) < BlockSize THEN Len(call.todo) ELSE BlockSize
           es == SubSeq(call.todo, 1, n)
       IN /\ block' = [experts |-> es, next |-> 1, base |-> block.base + 1,
                       missed |-> SelectSeq(es, LAMBDA e : ~Vulkan(e) /\ ~Pinned(e) /\ ~Cached(e))]
          /\ lru' = [lru EXCEPT ![Layer] = Bumped(@, es)]
          /\ call' = [call EXCEPT !.todo = SubSeq(@, n + 1, Len(@))]
    /\ at' = "submit" /\ dev' = [NoDev EXCEPT !.cpu = ToSet(block'.experts)]
    /\ UNCHANGED <<setup, ws, loading, out>>

\* Metal: the experts at hand, with the shared expert in the first block,
\* are computed while the others are read.
Submit ==
    /\ at = "submit" /\ at' = "load"
    /\ \/ /\ setup.build = "metal" /\ dev' = [dev EXCEPT !.begun = TRUE]
       \/ UNCHANGED dev
    /\ UNCHANGED <<setup, call, block, ws, loading, lru, out>>

\* pipe_dispatch starts the reads; without it they are done before the rest.
Load ==
    LET n == Len(block.missed)
        Filled(l) == [q \in DOMAIN ws |-> IF q <= n THEN Slab(l, block.missed[q]) ELSE ws[q]]
    IN /\ at = "load" /\ at' = setup.build
       /\ IF setup.pipe THEN ws' = Filled(0) /\ loading' = 1..n
                        ELSE ws' = Filled(Layer) /\ UNCHANGED loading
       /\ UNCHANGED <<setup, call, block, lru, dev, out>>

\* A worker of the pool finishes a read.
Loaded(q) ==
    /\ q \in loading /\ loading' = loading \ {q}
    /\ ws' = [ws EXCEPT ![q].layer = Layer]
    /\ UNCHANGED <<setup, call, at, block, lru, dev, out>>

\* Mutant: an expert is used without waiting for its read.
Unawaited(e) == TRUE

\* pipe_wait.
Awaited(e) == Missed(e) => Buffer(e) \notin loading
----------------------------------------------------------------------------
(* Phase D on Metal.                                                       *)

\* Mutant: a failed submission of the misses is not computed again.
MetalMissesLost ==
    /\ at = "metal" /\ \A e \in InBlock : Awaited(e)
    /\ LET es == {e \in InBlock : Missed(e)}
       IN \/ out' = Summed(out, FromSlabs(es))
          \/ UNCHANGED out
    /\ dev' = [dev EXCEPT !.cpu = {e \in InBlock : ~Missed(e)}]
    /\ at' = "metal take"
    /\ UNCHANGED <<setup, call, block, ws, loading, lru>>

MetalMisses ==
    /\ at = "metal" /\ \A e \in InBlock : Awaited(e)
    /\ LET es == {e \in InBlock : Missed(e)}
       IN \/ /\ out' = Summed(out, FromSlabs(es))
             /\ dev' = [dev EXCEPT !.cpu = @ \ es]
          \/ UNCHANGED <<out, dev>>
    /\ at' = "metal take"
    /\ UNCHANGED <<setup, call, block, ws, loading, lru>>

MetalTake ==
    LET es == {e \in InBlock : ~Missed(e)}
        shared == IF block.base = 1 /\ call.shared THEN {"shared"} ELSE {}
    IN /\ at = "metal take" /\ at' = "cpu"
       /\ \/ /\ dev.begun
             /\ out' = Summed(out, [e \in es \cup shared |-> "right"])
             /\ dev' = [dev EXCEPT !.cpu = @ \ es]
          \/ UNCHANGED <<out, dev>>
       /\ UNCHANGED <<setup, call, block, ws, loading, lru>>
----------------------------------------------------------------------------
(* Phase D on the CPU and on CUDA.                                         *)

\* COLI_GROUP_ASYNC: the experts on devices are issued before the CPU loop;
\* when one issue fails what was issued is drained and dropped.
EarlyIssue ==
    /\ at = "cuda" /\ at' = "cpu"
    /\ LET es == {e \in InBlock : OnCuda(e)}
       IN \/ setup.async /\ dev' = [dev EXCEPT !.early = es, !.cpu = @ \ es]
          \/ UNCHANGED dev
    /\ UNCHANGED <<setup, call, block, ws, loading, lru, out>>

\* XEXP: one parallel region over the experts of a block that is resident,
\* in the format its kernel reads.
AllAtOnce ==
    /\ at = "cpu" /\ setup.build = "cpu" /\ setup.xexp /\ ~setup.rotated
    /\ block.next = 1 /\ block.missed = <<>>
    /\ out' = Summed(out, FromSlabs(InBlock)) /\ at' = "promote"
    /\ UNCHANGED <<setup, call, block, ws, loading, lru, dev>>

\* The loop over the experts: each is waited for, then skipped when a
\* device has it, put into a group, or computed.
CpuStep ==
    /\ at = "cpu" /\ block.next <= Len(block.experts)
    /\ block' = [block EXCEPT !.next = @ + 1]
    /\ LET e == block.experts[block.next]
       IN /\ Awaited(e)
          /\ IF e \notin dev.cpu THEN UNCHANGED <<dev, out>>
             ELSE IF OnCuda(e)
             THEN dev' = [dev EXCEPT !.group = @ \cup {e}] /\ UNCHANGED out
             ELSE out' = Summed(out, FromSlabs({e})) /\ UNCHANGED dev
    /\ UNCHANGED <<setup, call, at, ws, loading, lru>>

CpuEnd ==
    /\ at = "cpu" /\ block.next > Len(block.experts)
    /\ at' = IF setup.build = "cuda" THEN "take" ELSE "promote"
    /\ UNCHANGED <<setup, call, block, ws, loading, lru, dev, out>>

Of(es, ds) == {e \in es : Home[Layer][e] \in ds}

\* What was issued early is taken; a device that failed has its experts
\* computed by the CPU, from the input as it came.
TakeEarly ==
    /\ at = "take" /\ at' = "groups"
    /\ \E ok \in SUBSET Devices :
           out' = Summed(out, [e \in dev.early |->
                      IF e \in Of(dev.early, ok) THEN "right" ELSE Made(SlabOf(e), e, "plain")])
    /\ UNCHANGED <<setup, call, block, ws, loading, lru, dev>>

\* The groups of the loop: issued to all devices, or to none.
IssueGroups ==
    /\ at = "groups" /\ at' = "resident"
    /\ \/ /\ setup.async
          /\ \E ok \in SUBSET Devices :
                 dev' = [dev EXCEPT !.async = TRUE, !.ok = [d \in Devices |-> IF d \in ok THEN 1 ELSE 0]]
       \/ UNCHANGED dev
    /\ UNCHANGED <<setup, call, block, ws, loading, lru, out>>

\* The weighted partial sums of a device stay there until moe has returned.
IssueResident ==
    /\ at = "resident" /\ at' = "sync"
    /\ \/ /\ setup.resident /\ ~dev.async
          /\ \E ds \in SUBSET Devices :
                 /\ dev' = [dev EXCEPT !.ok = [d \in Devices |-> IF d \in ds THEN 2 ELSE @[d]]]
                 /\ out' = Summed(out, OnDevice(Of(dev.group, ds)))
       \/ UNCHANGED <<dev, out>>
    /\ UNCHANGED <<setup, call, block, ws, loading, lru>>

\* One call per device that has no result yet.
SyncGroups ==
    /\ at = "sync" /\ at' = "collect"
    /\ \E ds \in SUBSET {d \in Devices : dev.ok[d] = 0} :
           dev' = [dev EXCEPT !.ok = [d \in Devices |-> IF d \in ds THEN 1 ELSE @[d]]]
    /\ UNCHANGED <<setup, call, block, ws, loading, lru, out>>

\* Mutant: the partial sums left on a device are collected as well.
CollectAll ==
    /\ at = "collect" /\ at' = "promote"
    /\ out' = Summed(out, [e \in dev.group |->
                  IF dev.ok[Home[Layer][e]] > 0 THEN "right" ELSE Made(SlabOf(e), e, Input)])
    /\ UNCHANGED <<setup, call, block, ws, loading, lru, dev>>

\* The results, or the experts one by one on their device or on the CPU.
Collect ==
    LET es == {e \in dev.group : dev.ok[Home[Layer][e]] # 2}
    IN /\ at = "collect" /\ at' = "promote"
       /\ out' = Summed(out, [e \in es |->
                     IF dev.ok[Home[Layer][e]] = 1 THEN "right" ELSE Made(SlabOf(e), e, Input)])
       /\ UNCHANGED <<setup, call, block, ws, loading, lru, dev>>
----------------------------------------------------------------------------
(* Phase D with the Vulkan tier.                                           *)

OfTier(d) == {e \in InBlock : Vulkan(e) /\ Registry[Layer][e] = d}

\* The second device from a thread of its own, then the first.
VulkanIssue ==
    /\ at = "vulkan" /\ at' = "vulkan share"
    /\ \E ok \in SUBSET {0, 1} :
           /\ ~setup.lossy => ok = {0, 1}
           /\ dev' = [dev EXCEPT !.issued = ok, !.cpu = {e \in InBlock : ~Vulkan(e)}]
    /\ UNCHANGED <<setup, call, block, ws, loading, lru, out>>

\* The CPU's share, in the order in which the experts become ready, from the
\* input as it came.
VulkanShare(e) ==
    /\ at = "vulkan share" /\ e \in dev.cpu /\ Awaited(e)
    /\ out' = Summed(out, e :> Made(SlabOf(e), e, "plain"))
    /\ dev' = [dev EXCEPT !.cpu = @ \ {e}]
    /\ UNCHANGED <<setup, call, at, block, ws, loading, lru>>

\* A device that was lost: one buffer after those of the misses serves for
\* its experts; it is read again unless it carries the expert's number.
Spare == IF Len(block.missed) < BlockSize - 1 THEN Len(block.missed) + 1 ELSE BlockSize

\* Mutant: it is read only when it is empty.
RecomputedAny(slab, e) == IF slab.eid # Empty.eid THEN slab ELSE Slab(Layer, e)

Recomputed(slab, e) == IF slab.eid = e THEN slab ELSE Slab(Layer, e)

VulkanTake(d, now, next) ==
    LET lost == SelectSeq(block.experts, LAMBDA e : e \in OfTier(d))
        slab[i \in 0..Len(lost)] == IF i = 0 THEN ws[Spare] ELSE Recomputed(slab[i - 1], lost[i])
    IN /\ at = now /\ at' = next
       /\ \/ /\ d \in dev.issued
             /\ out' = Summed(out, OnDevice(OfTier(d))) /\ UNCHANGED ws
          \/ /\ setup.lossy
             /\ out' = Summed(out, [e \in OfTier(d) |-> Made(slab[CHOOSE i \in DOMAIN lost : lost[i] = e], e, "plain")])
             /\ ws' = [ws EXCEPT ![Spare] = slab[Len(lost)]]
       /\ UNCHANGED <<setup, call, block, loading, lru, dev>>

VulkanTakeFirst == dev.cpu = {} /\ VulkanTake(0, "vulkan share", "vulkan second")
VulkanTakeSecond == VulkanTake(1, "vulkan second", "promote")
----------------------------------------------------------------------------
(* The end of a block and of a call.                                       *)

\* The last misses take the place of the least recently used slabs, whose
\* buffers they leave to the next loads.
Swapped(r, q) ==
    IF Len(r.cache) < Cap
    THEN [cache |-> Append(r.cache, r.bufs[q]), bufs |-> [r.bufs EXCEPT ![q] = Empty]]
    ELSE [cache |-> Append(Tail(r.cache), r.bufs[q]), bufs |-> [r.bufs EXCEPT ![q] = Head(r.cache)]]

Promote ==
    LET n == Len(block.missed)
        promo == IF n < Cap THEN n ELSE Cap
        done == FoldLeft(Swapped, [cache |-> lru[Layer], bufs |-> ws], [a \in 1..promo |-> n + 1 - a])
    IN /\ at = "promote"
       /\ lru' = [lru EXCEPT ![Layer] = done.cache] /\ ws' = done.bufs
       /\ at' = IF call.todo = <<>> THEN "shared" ELSE "block"
       /\ UNCHANGED <<setup, call, block, loading, dev, out>>

\* Mutant: the shared expert is added again after a device has added it.
SharedAgain ==
    /\ at = "shared" \/ (at = "block" /\ call.todo = <<>>)
    /\ at' = "end"
    /\ IF call.shared THEN out' = [out EXCEPT !["shared"] = Append(@, "right")] ELSE UNCHANGED out
    /\ UNCHANGED <<setup, call, block, ws, loading, lru, dev>>

\* Phase E.
Shared ==
    /\ at = "shared" \/ (at = "block" /\ call.todo = <<>>)
    /\ at' = "end"
    /\ IF call.shared /\ out["shared"] = <<>>
       THEN out' = [out EXCEPT !["shared"] = <<"right">>] ELSE UNCHANGED out
    /\ UNCHANGED <<setup, call, block, ws, loading, lru, dev>>

NextCall ==
    /\ at = "end" /\ call.n < MaxCalls
    /\ \E l \in Layers, r \in Routings :
           call' = [call EXCEPT !.layer = l, !.todo = r, !.routed = ToSet(r), !.n = @ + 1]
    /\ at' = "block" /\ block' = NoBlock /\ dev' = NoDev /\ out' = Nothing
    /\ UNCHANGED <<setup, ws, loading, lru>>

Next ==
    \/ Resolve \/ Submit \/ Load \/ \E q \in loading : Loaded(q)
    \/ MetalMisses \/ MetalTake
    \/ EarlyIssue \/ AllAtOnce \/ CpuStep \/ CpuEnd
    \/ TakeEarly \/ IssueGroups \/ IssueResident \/ SyncGroups \/ Collect
    \/ VulkanIssue \/ \E e \in Experts : VulkanShare(e)
    \/ VulkanTakeFirst \/ VulkanTakeSecond
    \/ Promote \/ Shared \/ NextCall

Spec == Init /\ [][Next]_vars
----------------------------------------------------------------------------
TypeOK ==
    /\ loading \subseteq DOMAIN ws /\ Len(block.missed) <= BlockSize
    /\ \A l \in Layers : Len(lru[l]) <= Cap
    /\ \A d \in Devices : dev.ok[d] \in 0..2

\* What two fallbacks may get wrong, and no other path: the buffer of a lost
\* Vulkan device is told by its expert's number alone, and a CUDA device that
\* fails after an early issue has its experts computed from the plain input.
Excused(e) ==
    (IF setup.lossy /\ Vulkan(e) THEN {"another layer"} ELSE {})
    \cup (IF setup.async /\ setup.rotated /\ OnCuda(e) THEN {"not rotated"} ELSE {})

\* moe: whichever processors shared the block and whichever of them failed,
\* every expert a batch was routed to contributes once, from its own weights
\* and the input they need but for what the two fallbacks above may do, and
\* the shared expert once; no read outlives its block, and no slab is
\* promoted into the cache of another layer.
EveryExpertOnce ==
    /\ at = "promote" => loading = {}
    /\ at = "end" =>
           /\ \A e \in call.routed : Len(out[e]) = 1 /\ Head(out[e]) \in {"right"} \cup Excused(e)
           /\ \A e \in Experts \ call.routed : out[e] = <<>>
           /\ out["shared"] = IF call.shared THEN <<"right">> ELSE <<>>
    /\ \A l \in Layers : \A i \in DOMAIN lru[l] : lru[l][i].layer = l

\* moe: the experts of a device that failed are computed again on the CPU, as
\* the comments of both fallbacks say: every expert contributes its own
\* weights in this layer, applied to the input they need.
FallbacksAreExact == at = "end" => \A e \in call.routed : out[e] = <<"right">>
=============================================================================
