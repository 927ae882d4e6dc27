------------------------------ MODULE PipePool ------------------------------
(***************************************************************************)
(* The PIPE expert-load pool of c/colibri.c: the main thread publishes a   *)
(* batch of load jobs through the generation-tagged cursor cur, I/O        *)
(* workers claim jobs with a compare-and-swap and read one expert each     *)
(* into ws[], and the main thread waits for every slot before it computes  *)
(* with it.                                                                *)
(*                                                                         *)
(* One action per access to a shared variable, interleaved: the relaxed    *)
(* and release/acquire orderings of the code are not weakened further.     *)
(* The main thread stores eids[] and ready[] in two loops; each loop is    *)
(* one step, because a worker only ever touches one element of each.       *)
(***************************************************************************)
EXTENDS Naturals, Sequences, FiniteSets

CONSTANTS Workers,    \* the nw I/O threads
          MaxJobs,    \* elements of ws[], eids[] and ready[] (64 in the code)
          BatchSizes, \* the runs to explore: each a sequence of batch sizes
          Unset       \* the value of a cell nothing was written to

ASSUME PipePoolAssumption ==
    /\ MaxJobs \in Nat \ {0}
    /\ \A sizes \in BatchSizes : sizes \in Seq(1..MaxJobs)

Jobs == 0..(MaxJobs - 1)

VARIABLES
    sizes,      \* the miss counts of the blocks still to come, a constant of the run
    block,      \* PIPE_BLOCK: pipe_wait sleeps on cv_done instead of spinning
    batch,      \* number of batches dispatched so far
    mpc,        \* where the main thread is
    q,          \* the job the main thread waits for or uses
    cur,        \* g_pp.cur, as [gen, idx]
    njobs,      \* g_pp.njobs
    layer,      \* g_pp.layer; batch b is for layer b
    eids,       \* g_pp.eids
    ready,      \* g_pp.ready
    ws,         \* what each working-set slab holds: an expert, or none
    wpc,        \* where each worker is
    seen,       \* each worker's seen
    c,          \* each worker's copy of cur
    job         \* the expert each worker is loading

mainVars == <<batch, mpc, q>>
poolVars == <<cur, njobs, layer, eids, ready, ws>>
workerVars == <<wpc, seen, c, job>>
vars == <<sizes, block, mainVars, poolVars, workerVars>>

\* An expert is named by its layer and id.  Block b misses experts <<b, 0>>, <<b, 1>>...
Expert(l, e) == [layer |-> l, eid |-> e]
EidOf(b, i) == <<b, i>>
\* A slab that is being written, or never was, holds no expert.
NoExpert == Expert(Unset, Unset)

Init ==
    /\ sizes \in BatchSizes
    /\ block \in BOOLEAN
    /\ batch = 0 /\ mpc = "idle" /\ q = 0
    /\ cur = [gen |-> 0, idx |-> 0]
    /\ njobs = 0
    /\ layer = Unset
    /\ eids = [i \in Jobs |-> Unset]
    /\ ready = [i \in Jobs |-> FALSE]
    /\ ws = [i \in Jobs |-> NoExpert]
    /\ wpc = [w \in Workers |-> "check"]
    /\ seen = [w \in Workers |-> 0]
    /\ c = [w \in Workers |-> [gen |-> 0, idx |-> 0]]
    /\ job = [w \in Workers |-> NoExpert]

----------------------------------------------------------------------------
(* pipe_dispatch, on the main thread.                                      *)
Size == sizes[batch]

Goto(here, there) == mpc = here /\ mpc' = there

StoreNjobs ==
    /\ batch < Len(sizes)
    /\ Goto("idle", "layer")
    /\ batch' = batch + 1
    /\ njobs' = sizes[batch + 1]
    /\ UNCHANGED <<sizes, block, q, cur, layer, eids, ready, ws, workerVars>>

StoreLayer ==
    /\ Goto("layer", "eids")
    /\ layer' = batch
    /\ UNCHANGED <<sizes, block, batch, q, cur, njobs, eids, ready, ws, workerVars>>

StoreEids ==
    /\ Goto("eids", "reset")
    /\ eids' = [i \in Jobs |-> IF i < Size THEN EidOf(batch, i) ELSE eids[i]]
    /\ UNCHANGED <<sizes, block, batch, q, cur, njobs, layer, ready, ws, workerVars>>

\* Mutant: the flags of the last batch stay up.
ResetNothing == Goto("reset", "publish")
                /\ UNCHANGED <<sizes, block, batch, q, poolVars, workerVars>>

ResetReady ==
    /\ Goto("reset", "publish")
    /\ ready' = [i \in Jobs |-> IF i < Size THEN FALSE ELSE ready[i]]
    /\ UNCHANGED <<sizes, block, batch, q, cur, njobs, layer, eids, ws, workerVars>>

\* Loading cur>>8 and storing cur are one step: the index it overwrites is not used.
Publish ==
    /\ Goto("publish", "wake")
    /\ cur' = [gen |-> cur.gen + 1, idx |-> 0]
    /\ UNCHANGED <<sizes, block, batch, q, njobs, layer, eids, ready, ws, workerVars>>

\* Mutant: no broadcast.
WakeNobody ==
    /\ Goto("wake", "wait")
    /\ q' = 0
    /\ UNCHANGED <<sizes, block, batch, poolVars, workerVars>>

\* Broadcast of cv under mx.
WakeWorkers ==
    /\ Goto("wake", "wait")
    /\ q' = 0
    /\ wpc' = [w \in Workers |-> IF wpc[w] = "parked" THEN "check" ELSE wpc[w]]
    /\ UNCHANGED <<sizes, block, batch, poolVars, seen, c, job>>

\* Mutant: pipe_wait is skipped.
WaitNot ==
    /\ Goto("wait", "use")
    /\ UNCHANGED <<sizes, block, batch, q, poolVars, workerVars>>

(* pipe_wait(q): a spin, or under PIPE_BLOCK a check under mx and a sleep. *)
(* The worker's broadcast comes after its store of ready[q], so a main     *)
(* thread that is asleep has read a flag whose broadcast is still to come. *)
WaitDone ==
    /\ Goto("wait", "use")
    /\ ready[q]
    /\ UNCHANGED <<sizes, block, batch, q, poolVars, workerVars>>

SleepOnDone ==
    /\ block
    /\ Goto("wait", "asleep")
    /\ ~ready[q]
    /\ UNCHANGED <<sizes, block, batch, q, poolVars, workerVars>>

(* The matmul of slot q, then the next slot.  Once all slots are used the  *)
(* block's LRU swap recycles ws[] and the thread goes on to other work.    *)
UseSlot ==
    /\ mpc = "use"
    /\ IF q + 1 < Size THEN mpc' = "wait" /\ q' = q + 1
                       ELSE mpc' = "idle" /\ q' = 0
    /\ UNCHANGED <<sizes, block, batch, poolVars, workerVars>>

----------------------------------------------------------------------------
(* pipe_worker.                                                            *)
WGoto(w, here, there) == wpc[w] = here /\ wpc' = [wpc EXCEPT ![w] = there]

\* The outer loop: under mx, sleep until the generation moves.
Park(w) ==
    /\ WGoto(w, "check", IF cur.gen = seen[w] THEN "parked" ELSE "load_cur")
    /\ UNCHANGED <<sizes, block, mainVars, poolVars, seen, c, job>>

LoadCur(w) ==
    /\ WGoto(w, "load_cur", "load_njobs")
    /\ c' = [c EXCEPT ![w] = cur]
    /\ seen' = [seen EXCEPT ![w] = cur.gen]
    /\ UNCHANGED <<sizes, block, mainVars, poolVars, job>>

\* Drained: back to the outer loop.  Otherwise try to claim the job.
LoadNjobs(w) ==
    /\ WGoto(w, "load_njobs", IF c[w].idx >= njobs THEN "check" ELSE "cas")
    /\ UNCHANGED <<sizes, block, mainVars, poolVars, seen, c, job>>

\* Mutant: a store instead of the exchange.
StoreIndex(w) ==
    /\ WGoto(w, "cas", "read_layer")
    /\ cur' = [c[w] EXCEPT !.idx = @ + 1]
    /\ UNCHANGED <<sizes, block, mainVars, njobs, layer, eids, ready, ws, seen, c, job>>

\* The weak exchange may also fail when the values agree.
CasWins(w) ==
    /\ WGoto(w, "cas", "read_layer")
    /\ cur = c[w]
    /\ cur' = [cur EXCEPT !.idx = @ + 1]
    /\ UNCHANGED <<sizes, block, mainVars, njobs, layer, eids, ready, ws, seen, c, job>>

CasFails(w) ==
    /\ WGoto(w, "cas", "load_cur")
    /\ cur # c[w]
    /\ UNCHANGED <<sizes, block, mainVars, poolVars, seen, c, job>>

CasFailsSpuriously(w) ==
    /\ WGoto(w, "cas", "load_cur")
    /\ cur = c[w]
    /\ UNCHANGED <<sizes, block, mainVars, poolVars, seen, c, job>>

ReadLayer(w) ==
    /\ WGoto(w, "read_layer", "read_eid")
    /\ job' = [job EXCEPT ![w] = Expert(layer, Unset)]
    /\ UNCHANGED <<sizes, block, mainVars, poolVars, seen, c>>

\* The eid, and the first byte of expert_load into ws[i].
ReadEid(w) ==
    /\ WGoto(w, "read_eid", "loading")
    /\ job' = [job EXCEPT ![w].eid = eids[c[w].idx]]
    /\ ws' = [ws EXCEPT ![c[w].idx] = NoExpert]
    /\ UNCHANGED <<sizes, block, mainVars, cur, njobs, layer, eids, ready, seen, c>>

\* expert_load is done with the slab.
LoadDone(w) ==
    /\ WGoto(w, "loading", "store_ready")
    /\ ws' = [ws EXCEPT ![c[w].idx] = job[w]]
    /\ UNCHANGED <<sizes, block, mainVars, cur, njobs, layer, eids, ready, seen, c, job>>

StoreReady(w) ==
    /\ WGoto(w, "store_ready", IF block THEN "signal" ELSE "load_cur")
    /\ ready' = [ready EXCEPT ![c[w].idx] = TRUE]
    /\ job' = [job EXCEPT ![w] = NoExpert]
    /\ UNCHANGED <<sizes, block, mainVars, cur, njobs, layer, eids, ws, seen, c>>

\* Broadcast of cv_done under mx.
SignalDone(w) ==
    /\ WGoto(w, "signal", "load_cur")
    /\ mpc' = IF mpc = "asleep" THEN "wait" ELSE mpc
    /\ UNCHANGED <<sizes, block, batch, q, poolVars, seen, c, job>>

----------------------------------------------------------------------------
Main == \/ StoreNjobs \/ StoreLayer \/ StoreEids \/ ResetReady \/ Publish
        \/ WakeWorkers \/ WaitDone \/ SleepOnDone \/ UseSlot

\* The last step of a worker's turn that can be repeated forever is the spurious failure.
Progress(w) == \/ Park(w) \/ LoadCur(w) \/ LoadNjobs(w) \/ CasWins(w) \/ CasFails(w)
               \/ ReadLayer(w) \/ ReadEid(w) \/ LoadDone(w) \/ StoreReady(w)
               \/ SignalDone(w)

Next == \/ Main
        \/ \E w \in Workers : Progress(w) \/ CasFailsSpuriously(w)

Spec == Init /\ [][Next]_vars

(* Threads are scheduled, and a weak exchange does not fail spuriously for *)
(* ever.                                                                   *)
Fairness == /\ WF_vars(Main)
            /\ \A w \in Workers : WF_vars(Progress(w)) /\ SF_vars(CasWins(w))

FairSpec == Spec /\ Fairness
----------------------------------------------------------------------------
Claimed == {w \in Workers : wpc[w] \in {"read_layer", "read_eid", "loading", "store_ready"}}

TypeOK ==
    /\ batch \in 0..Len(sizes)
    /\ q \in Jobs
    /\ cur \in [gen : 0..Len(sizes), idx : 0..MaxJobs]
    /\ njobs \in 0..MaxJobs
    /\ mpc \in {"idle", "layer", "eids", "reset", "publish", "wake", "wait", "asleep", "use"}
    /\ \A w \in Workers : c[w] \in [gen : 0..Len(sizes), idx : 0..MaxJobs]

(* The matmul reads the expert the router asked for, whole: ws[q] is not   *)
(* being written and holds batch's q-th miss (moe, pipe_wait of every      *)
(* dispatched slot).                                                       *)
UsesTheRightExpert ==
    mpc = "use" => ws[q] = Expert(batch, EidOf(batch, q))

(* The comment above PipePool: a straggler can never grab a job of the     *)
(* wrong generation or read torn batch state, and no grab outlives its     *)
(* generation.  A claimed job belongs to the published batch, the main     *)
(* thread is not rewriting that batch, and no two workers write one slab.  *)
NoStaleGrab ==
    /\ \A w \in Claimed :
         /\ c[w].gen = cur.gen
         /\ mpc \notin {"idle", "layer", "eids", "reset", "publish"}
    /\ \A v, w \in Claimed : v # w => c[v].idx # c[w].idx

(* Every dispatched batch is loaded and computed: no wakeup is lost, on    *)
(* either condition variable.                                              *)
AllBatchesComplete == <>[](mpc = "idle" /\ batch = Len(sizes))
=============================================================================
