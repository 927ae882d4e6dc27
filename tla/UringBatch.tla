------------------------------ MODULE UringBatch ------------------------------
(***************************************************************************)
(* The io_uring path of c/colibri.c: one owner (the pilot thread, or the   *)
(* main thread for a block of misses) prepares all the reads of a batch of *)
(* expert loads, submits them with one call, and reaps completions until   *)
(* each load is done.  The kernel carries out the reads in any order.      *)
(*                                                                         *)
(* A completion names its read by the read's place in the batch.  Where a  *)
(* read lies within a slot's buffers is in ExpertLoad; here a slot has one *)
(* cell for each read of a load.                                           *)
(***************************************************************************)
EXTENDS Integers, Sequences, FiniteSets, SequencesExt

CONSTANTS Slabs,      \* the slots whose buffers are read into
          Names,      \* experts
          Reads,      \* reads of one load (4 when the weights are adjacent, else 6)
          LoadMax,    \* URING_LOAD_MAX
          ReqMax,     \* URING_REQ_MAX, and the entries of the submission queue
          MaxBatches  \* the bound of the model

\* 64 loads of at most six reads find room in 512 entries.
ASSUME UringBatchAssumption ==
    /\ Reads \in Nat \ {0} /\ LoadMax \in Nat \ {0} /\ ReqMax \in Nat \ {0}
    /\ LoadMax * Reads <= ReqMax
    /\ MaxBatches \in Nat

VARIABLES
    fatal,    \* TRUE: the batch of the main thread, whose errors end the process
    batch,    \* UringBatch: its loads and reads; the step and the load the owner is at
    sq,       \* submission queue: reads prepared and not yet submitted
    flight,   \* reads the kernel has
    cq,       \* completions not yet reaped: the read's tag, and whether it was full
    slot,     \* slots: what eid says, and what each cell holds
    broken,   \* history: an io_uring_enter has failed
    exited

uringVars == <<fatal, batch, sq, flight, cq, slot, broken, exited>>

Nothing == "nothing"
Hidden == [is |-> "hidden", e |-> Nothing]
Reserved(e) == [is |-> "reserved", e |-> e]
Public(e) == [is |-> "public", e |-> e]

UringInit ==
    /\ fatal \in BOOLEAN
    /\ batch = [at |-> "idle", load |-> <<>>, req |-> <<>>, final |-> 1, n |-> 0]
    /\ sq = <<>> /\ flight = {} /\ cq = <<>>
    /\ slot = [s \in Slabs |-> [eid |-> Hidden, cell |-> [r \in 1..Reads |-> Nothing]]]
    /\ broken = FALSE /\ exited = FALSE

----------------------------------------------------------------------------
(* Preparing a batch.                                                      *)

\* The model follows a broken ring to the end of its batch only.
BeginBatch ==
    /\ batch.at = "idle" /\ batch.n < MaxBatches /\ ~exited /\ ~broken
    /\ batch' = [at |-> "add", load |-> <<>>, req |-> <<>>, final |-> 1, n |-> batch.n + 1]
    /\ UNCHANGED <<fatal, sq, flight, cq, slot, broken, exited>>

LoadsOf(s) == {i \in DOMAIN batch.load : batch.load[i].s = s}
Wanted(e) == \E s \in Slabs : slot[s].eid.e = e

\* How many of the reads of one more load there is room for.
Fitting ==
    LET inBatch == ReqMax - Len(batch.req)
        inQueue == ReqMax - Len(sq)
        free == IF inBatch < inQueue THEN inBatch ELSE inQueue
    IN IF free < Reads THEN free ELSE Reads

\* uring_load_add after the reservation.  found: whether all its tensors and
\* its memory are.  A load whose reads do not all fit is done, with an error.
\* A fatal one ends the process; it reserves nothing, and an older buffer may
\* still hold its expert.
Add(e, s, found) ==
    /\ batch.at = "add" /\ Len(batch.load) < LoadMax /\ ~exited
    /\ LoadsOf(s) = {} /\ slot[s].eid.is # "reserved" /\ (fatal \/ ~Wanted(e))
    /\ LET prepared == IF found THEN Fitting ELSE 0
           li == Len(batch.load) + 1
           new == [r \in 1..prepared |->
                       [tag |-> Len(batch.req) + r, s |-> s, e |-> e, r |-> r]]
           failed == prepared < Reads
       IN /\ batch' = [batch EXCEPT
                 !.load = Append(@, [s |-> s, e |-> e, pending |-> prepared,
                                     done |-> failed, error |-> failed, finalized |-> FALSE]),
                 !.req = @ \o [r \in 1..prepared |-> li]]
          /\ sq' = sq \o new
          /\ exited' = (fatal /\ failed)
    /\ slot' = IF fatal THEN slot ELSE [slot EXCEPT ![s].eid = Reserved(e)]
    /\ UNCHANGED <<fatal, flight, cq, broken>>

----------------------------------------------------------------------------
(* Submission, the kernel, and completions.                                *)

\* The completions of a load.  A tag beyond the reads of the batch is dropped.
Ended(i, completions) ==
    {k \in DOMAIN completions : /\ completions[k].tag <= Len(batch.req)
                                /\ batch.req[completions[k].tag] = i}

\* uring_reap takes all the completions that are there.
Reaped(load, completions) ==
    [i \in DOMAIN load |->
        LET mine == Ended(i, completions)
            count == Cardinality(mine)
            left == IF count < load[i].pending THEN load[i].pending - count ELSE 0
        IN [load[i] EXCEPT !.error = @ \/ \E k \in mine : ~completions[k].full,
                           !.pending = left,
                           !.done = @ \/ (mine # {} /\ left = 0)]]

\* Mutant: a load is done as soon as one of its reads has failed.
ReapedUntilError(load, completions) ==
    [i \in DOMAIN Reaped(load, completions) |->
        [Reaped(load, completions)[i] EXCEPT !.done = @ \/ Reaped(load, completions)[i].error]]

Reap(load, completions) == Reaped(load, completions)

\* The kernel takes the first n of the prepared reads; the others stay queued.
KernelTakes(n) ==
    /\ n \in 0..Len(sq) /\ (n = 0 => sq = <<>>)
    /\ flight' = flight \union {sq[k] : k \in 1..n}
    /\ sq' = SubSeq(sq, n + 1, Len(sq))

\* How many were taken is not looked at.
SubmitBatch(n) ==
    /\ batch.at = "add" /\ ~exited
    /\ KernelTakes(n)
    /\ batch' = [batch EXCEPT !.load = Reap(@, cq), !.at = "final"]
    /\ cq' = <<>>
    /\ UNCHANGED <<fatal, slot, broken, exited>>

\* Every load is done, with an error; the prepared reads stay in the queue.
SubmitFails ==
    /\ batch.at = "add" /\ ~exited /\ batch.load # <<>>
    /\ broken' = TRUE
    /\ exited' = fatal
    /\ batch' = [batch EXCEPT !.load = [i \in DOMAIN @ |-> [@[i] EXCEPT !.done = TRUE, !.error = TRUE]],
                              !.at = "final"]
    /\ UNCHANGED <<fatal, sq, flight, cq, slot>>

\* The kernel ends a read, wholly or short of what it asked for.
Complete(read, full) ==
    /\ read \in flight /\ ~exited
    /\ flight' = flight \ {read}
    /\ slot' = [slot EXCEPT ![read.s].cell[read.r] = IF full THEN read.e ELSE Nothing]
    /\ cq' = Append(cq, [tag |-> read.tag, full |-> full])
    /\ UNCHANGED <<fatal, batch, sq, broken, exited>>

----------------------------------------------------------------------------
(* Finalising the loads in their order.                                    *)

Current == batch.load[batch.final]
IsFinalizing == batch.at = "final" /\ batch.final \in DOMAIN batch.load /\ ~exited

WaitReaps ==
    /\ IsFinalizing /\ ~Current.done /\ cq # <<>>
    /\ batch' = [batch EXCEPT !.load = Reap(@, cq)]
    /\ cq' = <<>>
    /\ UNCHANGED <<fatal, sq, flight, slot, broken, exited>>

\* The call that waits for a completion submits what is still queued, too.
WaitEnters(n) ==
    /\ IsFinalizing /\ ~Current.done /\ cq = <<>> /\ sq # <<>>
    /\ KernelTakes(n)
    /\ UNCHANGED <<fatal, batch, cq, slot, broken, exited>>

WaitFails ==
    /\ IsFinalizing /\ ~Current.done /\ cq = <<>>
    /\ broken' = TRUE
    /\ exited' = fatal
    /\ batch' = [batch EXCEPT !.load[batch.final] = [@ EXCEPT !.done = TRUE, !.error = TRUE]]
    /\ UNCHANGED <<fatal, sq, flight, cq, slot>>

Finalize ==
    /\ IsFinalizing /\ Current.done
    /\ slot' = IF Current.error /\ fatal THEN slot
               ELSE [slot EXCEPT ![Current.s].eid = IF Current.error THEN Hidden ELSE Public(Current.e)]
    /\ exited' = (Current.error /\ fatal)
    /\ batch' = [batch EXCEPT !.load[batch.final].finalized = ~Current.error, !.final = @ + 1]
    /\ UNCHANGED <<fatal, sq, flight, cq, broken>>

EndBatch ==
    /\ batch.at = "final" /\ batch.final > Len(batch.load) /\ ~exited
    /\ batch' = [batch EXCEPT !.at = "idle", !.load = <<>>, !.req = <<>>, !.final = 1]
    /\ UNCHANGED <<fatal, sq, flight, cq, slot, broken, exited>>

UringNext ==
    \/ BeginBatch
    \/ \E e \in Names, s \in Slabs, found \in BOOLEAN : Add(e, s, found)
    \/ \E n \in 0..Len(sq) : SubmitBatch(n)
    \/ SubmitFails
    \/ \E read \in flight, full \in BOOLEAN : Complete(read, full)
    \/ \E n \in 1..Len(sq) : WaitEnters(n)
    \/ WaitReaps \/ WaitFails \/ Finalize \/ EndBatch

UringSpec == UringInit /\ [][UringNext]_uringVars

----------------------------------------------------------------------------
(* Properties.                                                             *)

ReadOf == [tag : 1..ReqMax, s : Slabs, e : Names, r : 1..Reads]

UringTypeOK ==
    /\ fatal \in BOOLEAN /\ broken \in BOOLEAN /\ exited \in BOOLEAN
    /\ batch.at \in {"idle", "add", "final"} /\ batch.n \in 0..MaxBatches
    /\ Len(batch.load) <= LoadMax /\ Len(batch.req) <= ReqMax
    /\ \A i \in DOMAIN batch.req : batch.req[i] \in DOMAIN batch.load
    /\ ToSet(sq) \subseteq ReadOf /\ flight \subseteq ReadOf /\ Len(sq) <= ReqMax
    /\ \A s \in Slabs : slot[s].eid.is \in {"hidden", "reserved", "public"}

\* The slots that the batch has not given back.
Owned == {batch.load[i].s : i \in {j \in DOMAIN batch.load : batch.at = "add" \/ j >= batch.final}}

(* pilot_uring_batch, and a block of misses: as long as io_uring_enter has  *)
(* not failed, a slot that shows an expert holds every read of that expert, *)
(* and neither the kernel nor the queue has a read into a slot that the     *)
(* batch has given back: no buffer changes under a reader, and none is      *)
(* freed under a read.  A load that failed half-way is given back only when *)
(* its other reads have ended.                                              *)
BatchOwnsItsReads ==
    /\ UringTypeOK
    /\ ~broken /\ ~exited =>
           /\ \A s \in Slabs \ Owned : slot[s].eid.is = "public" =>
                  \A r \in 1..Reads : slot[s].cell[r] = slot[s].eid.e
           /\ \A read \in flight \union ToSet(sq) : read.s \in Owned
=============================================================================
