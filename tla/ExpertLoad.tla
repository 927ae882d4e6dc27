------------------------------ MODULE ExpertLoad ------------------------------
(***************************************************************************)
(* expert_load of c/colibri.c: one thread fills one slot with an expert,   *)
(* from a mapped file, from a peer's RAM bank, by reads striped over the   *)
(* replicas of the model, by one O_DIRECT read or by buffered reads, each  *)
(* of which may fail or fall short and hand over to the next.              *)
(*                                                                         *)
(* The slot is reused: its buffers keep the bytes, and its views the       *)
(* places, of the expert it had before.                                    *)
(*                                                                         *)
(* A byte of a file is the pair of the file and its offset, so a buffer    *)
(* shows where each of its cells came from.  A cell of the scale buffer    *)
(* stands for one float.                                                   *)
(***************************************************************************)
EXTENDS Integers, Sequences, FiniteSets, SequencesExt

CONSTANTS Experts,
          Layout,   \* expert -> [w, q: three tensors each, fewer when some are missing]
          FileSize, \* file -> its length
          Block,    \* alignment of an O_DIRECT read (4096)
          Slack,    \* spare bytes of a slab (8192)
          StripeMin,\* a read shorter than this is not striped (4 MB)
          MaxCalls  \* calls of expert_load on the slot; the bound of the model

ExpertLoadAssumption ==
    /\ Block \in Nat \ {0} /\ Slack \in Nat
    /\ DOMAIN Layout = Experts

VARIABLES
    env,     \* what the process was started with: see Environments
    slot,    \* ESlot: eid, the buffers slab and fslab, the views of the six tensors
    load,    \* the call under way: its step, expert, fatal, replica and start of the weights
    exited,  \* exit(1) was called
    fault    \* history: the replicas that failed a buffered read of this call, and others

vars == <<env, slot, load, exited, fault>>

----------------------------------------------------------------------------
(* What the loader knows of an expert before it reads it: where its three  *)
(* weight tensors (gate, up, down) and their three scale tensors lie,      *)
(* which of its weights one read can fetch, and what the two buffers of a  *)
(* slot must hold when the slot is published.                              *)
Files == DOMAIN FileSize
Junk == <<"junk", 0>>

Weights(e) == Layout[e].w
Scales(e) == Layout[e].q

\* Without scales an expert is not quantised; with some of its tensors it is
\* damaged.
IsPlain(e) == Len(Scales(e)) = 0
IsMissing(e) == ~IsPlain(e) /\ (Len(Weights(e)) # 3 \/ Len(Scales(e)) # 3)

Total(tensors) == tensors[1].n + tensors[2].n + tensors[3].n

\* The order of the weights in the file.
Order(e) == SortSeq(<<1, 2, 3>>, LAMBDA a, b : Weights(e)[a].off < Weights(e)[b].off)

IsContiguous(e) ==
    \A a \in 1..2 :
        LET this == Weights(e)[Order(e)[a]]
            next == Weights(e)[Order(e)[a + 1]]
        IN this.file = next.file /\ this.off + this.n = next.off

FirstWeight(e) == Weights(e)[Order(e)[1]]

\* Where each weight lies in the slab when the first one in the file's order
\* lies at start and the others follow it.
Positions(e, start) ==
    LET n(a) == Weights(e)[Order(e)[a]].n
        rank(k) == CHOOSE a \in 1..3 : Order(e)[a] = k
    IN [k \in 1..3 |-> start + <<0, n(1), n(1) + n(2)>>[rank(k)]]

ScalePositions(e) == <<0, Scales(e)[1].n, Scales(e)[1].n + Scales(e)[2].n>>

RoundUp(n, unit) == ((n + unit - 1) \div unit) * unit

\* An aligned read that covers the weights: where it starts, how many of its
\* bytes the weights need and how many it asks for.
AlignedBase(e) == (FirstWeight(e).off \div Block) * Block
AlignedNeed(e) == (FirstWeight(e).off - AlignedBase(e)) + Total(Weights(e))
AlignedLen(e) == RoundUp(AlignedNeed(e), Block)

Alloc(n) == [i \in 0..(n - 1) |-> Junk]
Allocated(buf) == Cardinality(DOMAIN buf)

\* n bytes of a file, from off, land in a buffer at position pos.
Written(buf, pos, file, off, n) ==
    [i \in DOMAIN buf |-> IF i \in pos..(pos + n - 1) THEN <<file, off + i - pos>> ELSE buf[i]]

\* What a read of n bytes can bring at most: the file ends.
Available(file, off, n) ==
    LET left == FileSize[file] - off
    IN IF left <= 0 THEN 0 ELSE IF left < n THEN left ELSE n

\* A slot shows the expert e: each view is a place in a buffer that holds the
\* tensor's bytes, or a place in a mapped file, or a copy of its own.
Shows(view, buf, tensor) ==
    \/ view = [in |-> "own"]
    \/ view = [in |-> "map", file |-> tensor.file, off |-> tensor.off]
    \/ /\ view.in = "buffer"
       /\ \A i \in 0..(tensor.n - 1) :
              /\ view.pos + i \in DOMAIN buf
              /\ buf[view.pos + i] = <<tensor.file, tensor.off + i>>

IsWhole(e, view, fview, slab, fslab) ==
    \A k \in 1..3 :
        /\ Shows(view[k], slab, Weights(e)[k])
        /\ Shows(fview[k], fslab, Scales(e)[k])

----------------------------------------------------------------------------

NoId == "none"
Primary == "primary"
Mirror == "mirror"
Replicas == {Primary, Mirror}

NoExpert == [hidden |-> TRUE, id |-> NoId]
Public(e) == [hidden |-> FALSE, id |-> e]
Reserved(e) == [hidden |-> TRUE, id |-> e]   \* eid = -(eid+2)

Elsewhere == [in |-> "nowhere"]
InBuffer(pos) == [in |-> "buffer", pos |-> pos]
InMap(tensor) == [in |-> "map", file |-> tensor.file, off |-> tensor.off]
Own == [in |-> "own"]

\* mmap: COLI_MMAP; direct: the replicas that have an O_DIRECT descriptor;
\* bank: COLI_RAM_BANK; mirrored: the files of the second copy of the model
\* that were accepted (none without a mirror); route: expert_route.
Environments ==
    {v \in [mmap : BOOLEAN, direct : SUBSET Replicas, bank : BOOLEAN,
            mirrored : SUBSET Files, route : Replicas] :
        /\ v.mirrored = {} => v.route = Primary /\ Mirror \notin v.direct
        /\ v.mmap => v.direct = {} /\ ~v.bank}

Idle(calls) == [at |-> "idle", e |-> NoId, fatal |-> FALSE, rep |-> Primary, start |-> 0, calls |-> calls]

Init ==
    /\ env \in Environments
    /\ slot = [eid |-> NoExpert, slab |-> Alloc(0), fslab |-> Alloc(0),
               view |-> [k \in 1..3 |-> Elsewhere], fview |-> [k \in 1..3 |-> Elsewhere]]
    /\ load = Idle(0)
    /\ exited = FALSE
    /\ fault = {}

----------------------------------------------------------------------------
(* The callers: a demand load, a re-pin and a pin at start-up are fatal    *)
(* and leave eid alone until the load ends; a pilot load hides the slot    *)
(* first and hides it for good when the load fails.                        *)

Publish(e, view, fview) ==
    /\ slot' = [slot EXCEPT !.eid = Public(e), !.view = view, !.fview = fview]
    /\ load' = Idle(load.calls)
    /\ UNCHANGED <<env, exited, fault>>

\* The load fails with the buffers as they are then.
Fail(slab, fslab) ==
    /\ IF load.fatal
       THEN /\ exited' = TRUE
            /\ load' = Idle(load.calls)
            /\ slot' = [slot EXCEPT !.slab = slab, !.fslab = fslab]
       ELSE /\ load' = Idle(load.calls)
            /\ slot' = [slot EXCEPT !.eid = NoExpert, !.slab = slab, !.fslab = fslab]
            /\ UNCHANGED exited
    /\ UNCHANGED env

\* A shard that the mirror does not hold is read from the primary.
Replica(e) == IF Weights(e)[1].file \in env.mirrored THEN env.route ELSE Primary

Call(e, fatal) ==
    /\ load.at = "idle" /\ ~exited /\ load.calls < MaxCalls
    /\ slot' = IF fatal THEN slot ELSE [slot EXCEPT !.eid = Reserved(e)]
    /\ load' = [at |-> "find", e |-> e, fatal |-> fatal, rep |-> Primary, start |-> 0,
                calls |-> load.calls + 1]
    /\ fault' = {}
    /\ UNCHANGED <<env, exited>>

\* A tensor that is not in the index ends the load.
FindMissing ==
    /\ load.at = "find" /\ IsMissing(load.e)
    /\ Fail(slot.slab, slot.fslab)
    /\ fault' = {"missing"}

\* An expert that is not quantised is read by qt_from_disk, into its own copy.
FindPlain ==
    /\ load.at = "find" /\ IsPlain(load.e)
    /\ Publish(load.e, [k \in 1..3 |-> Own], [k \in 1..3 |-> Own])

IsReadable(e) == ~IsPlain(e) /\ ~IsMissing(e)
IsMappable(e) == \A k \in 1..3 : Weights(e)[k].off % 4 = 0 /\ Scales(e)[k].off % 4 = 0

FindMapped ==
    /\ load.at = "find" /\ IsReadable(load.e)
    /\ env.mmap /\ IsMappable(load.e)
    /\ Publish(load.e, [k \in 1..3 |-> InMap(Weights(load.e)[k])],
                       [k \in 1..3 |-> InMap(Scales(load.e)[k])])

Find ==
    /\ load.at = "find" /\ IsReadable(load.e)
    /\ ~env.mmap \/ ~IsMappable(load.e)
    /\ load' = [load EXCEPT !.at = "slab", !.rep = Replica(load.e)]
    /\ UNCHANGED <<env, slot, exited, fault>>

----------------------------------------------------------------------------
(* The buffers: a slot that is reused between layers may be too small.     *)

\* Mutant: the room for the alignment of the read is forgotten.
NeedsExactSlab(e) == DOMAIN slot.slab = {} \/ Total(Weights(e)) > Allocated(slot.slab)

NeedsSlab(e) == DOMAIN slot.slab = {} \/ Total(Weights(e)) + Slack > Allocated(slot.slab)
NeedsScales(e) == DOMAIN slot.fslab = {} \/ Total(Scales(e)) > Allocated(slot.fslab)

GrowSlab ==
    /\ load.at = "slab"
    /\ slot' = IF NeedsSlab(load.e)
               THEN [slot EXCEPT !.slab = Alloc(Total(Weights(load.e)) + Slack)]
               ELSE slot
    /\ load' = [load EXCEPT !.at = "scales"]
    /\ UNCHANGED <<env, exited, fault>>

NoMemoryForSlab ==
    /\ load.at = "slab" /\ NeedsSlab(load.e)
    /\ Fail(Alloc(0), slot.fslab)
    /\ fault' = {"memory"}

GrowScales ==
    /\ load.at = "scales"
    /\ slot' = IF NeedsScales(load.e)
               THEN [slot EXCEPT !.fslab = Alloc(Total(Scales(load.e)))]
               ELSE slot
    /\ load' = [load EXCEPT !.at = IF IsContiguous(load.e) THEN "peer" ELSE "separate"]
    /\ UNCHANGED <<env, exited, fault>>

NoMemoryForScales ==
    /\ load.at = "scales" /\ NeedsScales(load.e)
    /\ Fail(Alloc(0), Alloc(0))
    /\ fault' = {"memory"}

----------------------------------------------------------------------------
(* Where the bytes come from.  A read that stops early has written what it *)
(* had.                                                                    *)

\* Where a read of n bytes may stop short: the bound of the model.
Cuts(n) == {0, n - 1} \ {-1}

At(step) == load.at = step /\ ~exited
Goto(step) == load' = [load EXCEPT !.at = step]

WriteWeights(e, pos, off, n) ==
    slot' = [slot EXCEPT !.slab = Written(slot.slab, pos, FirstWeight(e).file, off, n)]

\* The peer sends the weights in the file's order, then the scales; its answer
\* is taken only when both have the size that is expected.
PeerScales(e) ==
    [i \in 0..(Total(Scales(e)) - 1) |->
        LET k == CHOOSE k \in 1..3 : i - ScalePositions(e)[k] \in 0..(Scales(e)[k].n - 1)
        IN <<Scales(e)[k].file, Scales(e)[k].off + i - ScalePositions(e)[k]>>]

FirstPeerScales(e, n) ==
    [i \in DOMAIN slot.fslab |-> IF i < n THEN PeerScales(e)[i] ELSE slot.fslab[i]]

PeerHit ==
    /\ At("peer") /\ env.bank
    /\ LET e == load.e IN
       /\ slot' = [slot EXCEPT
              !.slab = Written(@, 0, FirstWeight(e).file, FirstWeight(e).off, Total(Weights(e))),
              !.fslab = FirstPeerScales(e, Total(Scales(e))),
              !.eid = Public(e),
              !.view = [k \in 1..3 |-> InBuffer(Positions(e, 0)[k])],
              !.fview = [k \in 1..3 |-> InBuffer(ScalePositions(e)[k])]]
       /\ load' = Idle(load.calls)
    /\ UNCHANGED <<env, exited, fault>>

\* A miss, no peer, or a connection that ends after some of the bytes.
PeerMiss ==
    /\ At("peer")
    /\ LET e == load.e IN
       \/ UNCHANGED slot
       \/ /\ env.bank
          /\ \E n \in Cuts(Total(Weights(e))) : WriteWeights(e, 0, FirstWeight(e).off, n)
       \/ /\ env.bank
          /\ \E n \in Cuts(Total(Scales(e))) :
                 slot' = [slot EXCEPT
                     !.slab = Written(@, 0, FirstWeight(e).file, FirstWeight(e).off, Total(Weights(e))),
                     !.fslab = FirstPeerScales(e, n)]
    /\ Goto(IF load.rep \in env.direct THEN "striped" ELSE "buffered")
    /\ UNCHANGED <<env, exited, fault>>

\* The aligned read, cut into one chunk per replica that has a descriptor.
Chunk(len) == RoundUp((len + 1) \div 2, Block)
CanStripe(e) == env.direct = Replicas /\ FirstWeight(e).file \in env.mirrored /\ AlignedLen(e) >= StripeMin

\* Mutant: the first chunk alone decides.
FirstStripeIsFull(short) == 1 \notin short

AllStripesAreFull(short) == short = {}

Stripe ==
    /\ At("striped")
    /\ LET e == load.e
           len == AlignedLen(e)
           chunks == IF Chunk(len) < len THEN {1, 2} ELSE {1}
           from(c) == IF c = 1 THEN 0 ELSE Chunk(len)
           size(c) == IF c = 2 THEN len - Chunk(len) ELSE IF chunks = {1} THEN len ELSE Chunk(len)
           file == FirstWeight(e).file
           read(c) == Available(file, AlignedBase(e) + from(c), size(c))
       IN IF ~CanStripe(e)
          THEN Goto("direct") /\ UNCHANGED slot
          ELSE \E failed \in SUBSET chunks :
                   LET short == failed \union {c \in chunks : read(c) < size(c)}
                       done(buf, c) == IF c \in failed \/ c \notin chunks THEN buf
                                       ELSE Written(buf, from(c), file, AlignedBase(e) + from(c), read(c))
                   IN /\ slot' = [slot EXCEPT !.slab = done(done(@, 1), 2)]
                      /\ IF AllStripesAreFull(short)
                         THEN load' = [load EXCEPT !.at = "read_scales",
                                                   !.start = FirstWeight(e).off - AlignedBase(e)]
                         ELSE Goto("direct")
    /\ UNCHANGED <<env, exited, fault>>

\* One O_DIRECT read, not repeated when it is short.
Direct ==
    /\ At("direct")
    /\ LET e == load.e IN
       \E n \in Cuts(AlignedNeed(e)) \union {Available(FirstWeight(e).file, AlignedBase(e), AlignedLen(e))} :
           /\ WriteWeights(e, 0, AlignedBase(e), n)
           /\ IF n >= AlignedNeed(e)
              THEN load' = [load EXCEPT !.at = "read_scales",
                                        !.start = FirstWeight(e).off - AlignedBase(e)]
              ELSE Goto("buffered")
    /\ UNCHANGED <<env, exited, fault>>

\* Mutant: a failure of the mirror is the failure of the read.
OnlyTheReplica(tensor, rep) == IF rep = Mirror /\ tensor.file \in env.mirrored THEN <<Mirror>> ELSE <<Primary>>

\* mir_pread: the replica of the expert if it holds the file, then the
\* primary; pread_full reads all or fails.  ReadFull is true when the bytes
\* are there, and names the replicas that failed.
Sources(tensor, rep) == IF rep = Mirror /\ tensor.file \in env.mirrored THEN <<Mirror, Primary>> ELSE <<Primary>>

FailuresOf(tensor, rep) ==
    {f \in SUBSET Replicas : f \subseteq ToSet(Sources(tensor, rep)) /\
        \A i \in 1..Len(Sources(tensor, rep)) :
            Sources(tensor, rep)[i] \in f => \A j \in 1..(i - 1) : Sources(tensor, rep)[j] \in f}

ReadSucceeds(failed, tensor, rep) == failed # ToSet(Sources(tensor, rep))

Buffered ==
    /\ At("buffered")
    /\ LET e == load.e
           first == FirstWeight(e)
       IN \E failed \in FailuresOf(first, load.rep) :
              /\ fault' = failed
              /\ IF ReadSucceeds(failed, first, load.rep)
                 THEN /\ WriteWeights(e, 0, first.off, Total(Weights(e)))
                      /\ load' = [load EXCEPT !.at = "read_scales", !.start = 0]
                      /\ UNCHANGED <<env, exited>>
                 ELSE \E n \in Cuts(Total(Weights(e))) :
                          Fail(Written(slot.slab, 0, first.file, first.off, n), slot.fslab)

\* The weights are not adjacent: a read of each, in the file's order.
Separate ==
    /\ At("separate")
    /\ LET e == load.e
           put(buf, k) == Written(buf, Positions(e, 0)[k], Weights(e)[k].file,
                                  Weights(e)[k].off, Weights(e)[k].n)
           after(a) == LET o == Order(e) IN
                       CASE a = 0 -> slot.slab
                         [] a = 1 -> put(slot.slab, o[1])
                         [] a = 2 -> put(put(slot.slab, o[1]), o[2])
                         [] a = 3 -> put(put(put(slot.slab, o[1]), o[2]), o[3])
       IN \/ /\ slot' = [slot EXCEPT !.slab = after(3)]
             /\ load' = [load EXCEPT !.at = "read_scales", !.start = 0]
             /\ UNCHANGED <<env, exited, fault>>
          \/ \E a \in 0..2 :
                 \E failed \in FailuresOf(Weights(e)[Order(e)[a + 1]], load.rep) :
                     /\ ~ReadSucceeds(failed, Weights(e)[Order(e)[a + 1]], load.rep)
                     /\ fault' = failed
                     /\ Fail(after(a), slot.fslab)

\* The scales, in the order of the matrices, and the views.
ReadScales ==
    /\ At("read_scales")
    /\ LET e == load.e
           put(buf, k) == Written(buf, ScalePositions(e)[k], Scales(e)[k].file,
                                  Scales(e)[k].off, Scales(e)[k].n)
           after(a) == CASE a = 0 -> slot.fslab
                         [] a = 1 -> put(slot.fslab, 1)
                         [] a = 2 -> put(put(slot.fslab, 1), 2)
                         [] a = 3 -> put(put(put(slot.fslab, 1), 2), 3)
       IN \/ /\ slot' = [slot EXCEPT !.fslab = after(3), !.eid = Public(e),
                             !.view = [k \in 1..3 |-> InBuffer(Positions(e, load.start)[k])],
                             !.fview = [k \in 1..3 |-> InBuffer(ScalePositions(e)[k])]]
             /\ load' = Idle(load.calls)
             /\ UNCHANGED <<env, exited, fault>>
          \/ \E a \in 0..2 : \E failed \in FailuresOf(Scales(e)[a + 1], load.rep) :
                 /\ ~ReadSucceeds(failed, Scales(e)[a + 1], load.rep)
                 /\ fault' = failed
                 /\ Fail(slot.slab, after(a))

Next ==
    \/ \E e \in Experts, fatal \in BOOLEAN : Call(e, fatal)
    \/ FindMissing \/ FindPlain \/ FindMapped \/ Find
    \/ GrowSlab \/ NoMemoryForSlab \/ GrowScales \/ NoMemoryForScales
    \/ PeerHit \/ PeerMiss \/ Stripe \/ Direct \/ Buffered \/ Separate \/ ReadScales

Spec == Init /\ [][Next]_vars

----------------------------------------------------------------------------
(* Properties.                                                             *)

TypeOK ==
    /\ env \in Environments
    /\ slot.eid.hidden \in BOOLEAN /\ slot.eid.id \in Experts \union {NoId}
    /\ load.at \in {"idle", "find", "slab", "scales", "peer", "striped", "direct",
                    "buffered", "separate", "read_scales"}
    /\ load.e \in Experts \union {NoId} /\ load.fatal \in BOOLEAN
    /\ load.rep \in Replicas /\ load.start \in Nat /\ load.calls \in 0..MaxCalls
    /\ exited \in BOOLEAN
    /\ fault \subseteq Replicas \union {"missing", "memory"}

\* A slot that shows an expert, outside of a load that will end the process if
\* it fails, has all the bytes of that expert behind its six views, whichever
\* sources failed or fell short and whatever the slot held before.
PublishedIsWhole ==
    ~slot.eid.hidden /\ load.at = "idle" /\ ~exited
        => IsWhole(slot.eid.id, slot.view, slot.fview, slot.slab, slot.fslab)

\* A read never asks for more than its buffer holds (an O_DIRECT one is
\* longer than the weights at both ends).
ReadsFit ==
    /\ load.at \in {"peer", "striped", "direct", "buffered", "separate", "read_scales"} =>
           /\ Total(Weights(load.e)) <= Allocated(slot.slab)
           /\ Total(Scales(load.e)) <= Allocated(slot.fslab)
    /\ load.at \in {"striped", "direct"} => AlignedLen(load.e) <= Allocated(slot.slab)

\* A speculative load never ends the process, and a demand load does so only
\* when there is no memory, a tensor is missing or the primary copy of the
\* model cannot be read: a mirror that fails is never enough.
ExitIsJustified == exited => load.at = "idle" /\ fault \intersect {Primary, "missing", "memory"} # {}

LoadIsSafe == PublishedIsWhole /\ ReadsFit /\ ExitIsJustified
=============================================================================
