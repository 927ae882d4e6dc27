---------------------------- MODULE PipePoolProofs ----------------------------
(***************************************************************************)
(* What PipePool guarantees for every number of workers and every run of   *)
(* batches in which no batch is larger than the one before it.  Without    *)
(* that hypothesis the results are false: a worker that has read cur and   *)
(* not yet njobs may then find a drained index below the next batch's      *)
(* count, and win its exchange before the new generation is published.     *)
(*                                                                         *)
(* The inductive invariant ties the cursor to the main thread's step (the  *)
(* index is at or above njobs whenever the batch is not published), every  *)
(* worker's copy of the cursor to the cursor (a copy is never ahead of     *)
(* it), and every claimed job to its ready flag.                           *)
(***************************************************************************)
EXTENDS PipePool, TLAPS

\* The miss count never grows from one block to the next.
NeverMore == \A s \in BatchSizes : \A i \in 1..Len(s), j \in 1..Len(s) : i < j => s[j] <= s[i]

Published == {"wake", "wait", "asleep", "use"}
Rewriting == {"layer", "eids", "reset", "publish"}
Claiming == {"read_layer", "read_eid", "loading", "store_ready"}
Cursors == [gen : Nat, idx : 0..MaxJobs]
Eids == (Nat \X Jobs) \cup {Unset}
Experts == [layer : Nat \cup {Unset}, eid : Eids]

Typed ==
    /\ sizes \in BatchSizes
    /\ block \in BOOLEAN
    /\ mpc \in {"idle"} \cup Rewriting \cup Published
    /\ batch \in 0..Len(sizes) /\ (mpc # "idle" => batch >= 1)
    /\ q \in Jobs
    /\ cur \in Cursors
    /\ njobs = IF batch = 0 THEN 0 ELSE sizes[batch]
    /\ layer \in Nat \cup {Unset}
    /\ eids \in [Jobs -> Eids]
    /\ ready \in [Jobs -> BOOLEAN]
    /\ ws \in [Jobs -> Experts]
    /\ seen \in [Workers -> Nat]
    /\ wpc \in [Workers -> {"check", "parked", "load_cur", "load_njobs", "cas", "signal"} \cup Claiming]
    /\ c \in [Workers -> Cursors]
    /\ job \in [Workers -> Experts]

\* The cursor, and what of the batch stands in g_pp.
Cursor ==
    /\ cur.gen = IF mpc \in Rewriting THEN batch - 1 ELSE batch
    /\ mpc \in Published => cur.idx <= njobs
    /\ mpc \notin Published /\ cur.gen > 0 => cur.idx >= njobs
    /\ mpc \in {"eids", "reset", "publish"} \cup Published => layer = batch
    /\ mpc \in {"reset", "publish"} \cup Published =>
         \A i \in Jobs : i < njobs => eids[i] = EidOf(batch, i)
    /\ mpc = "publish" => \A i \in Jobs : i < njobs => ~ready[i]

\* No worker leaves the outer loop before the first batch is published.  A
\* worker's copy of the cursor is not ahead of it; an exchange that can
\* still be won is for a job of the published batch.
Copies ==
    \A w \in Workers :
        /\ seen[w] <= cur.gen
        /\ cur.gen = 0 => wpc[w] \in {"check", "parked"}
        /\ c[w].gen <= cur.gen
        /\ c[w].gen = cur.gen => c[w].idx <= cur.idx
        /\ wpc[w] = "cas" /\ c[w] = cur => cur.idx < njobs

\* A claimed job is one of the published batch that is not ready yet.
Claims ==
    /\ \A w \in Claimed : /\ mpc \in Published
                          /\ c[w].gen = cur.gen /\ c[w].idx < cur.idx
                          /\ ~ready[c[w].idx]
    /\ \A v, w \in Claimed : v # w => c[v].idx # c[w].idx
    /\ \A w \in Workers :
         /\ wpc[w] = "read_eid" => job[w] = Expert(batch, Unset)
         /\ wpc[w] \in {"loading", "store_ready"} => job[w] = Expert(batch, EidOf(batch, c[w].idx))
         /\ wpc[w] = "store_ready" => ws[c[w].idx] = job[w]

\* A flag that is up tells of a slab that is whole, and the main thread has
\* waited for every job before the one it is at.
Results ==
    mpc \in Published =>
        /\ \A i \in Jobs : i < njobs /\ ready[i] =>
             i < cur.idx /\ ws[i] = Expert(batch, EidOf(batch, i))
        /\ mpc # "wake" => q < njobs /\ \A i \in Jobs : i < q => ready[i]
        /\ mpc = "use" => ready[q]

Inv == Typed /\ Cursor /\ Copies /\ Claims /\ Results

----------------------------------------------------------------------------
\* What the assumption says of the counts of a batch.
LEMMA Counts ==
    ASSUME Typed
    PROVE  /\ MaxJobs \in Nat /\ MaxJobs > 0
           /\ Len(sizes) \in Nat
           /\ \A b \in 1..Len(sizes) : sizes[b] \in 1..MaxJobs
           /\ batch \in Nat
           /\ batch = 0 => njobs = 0
           /\ batch > 0 => njobs = sizes[batch] /\ njobs \in 1..MaxJobs
  <1>1. MaxJobs \in Nat /\ MaxJobs > 0 /\ sizes \in Seq(1..MaxJobs)
    BY PipePoolAssumption DEF PipePoolAssumption, Typed
  <1>2. Len(sizes) \in Nat /\ \A b \in 1..Len(sizes) : sizes[b] \in 1..MaxJobs
    BY <1>1
  <1>3. batch \in 0..Len(sizes) /\ njobs = IF batch = 0 THEN 0 ELSE sizes[batch]
    BY DEF Typed
  <1> QED BY <1>1, <1>2, <1>3

LEMMA InitInv == Init => Inv
  <1> SUFFICES ASSUME Init PROVE Inv
    OBVIOUS
  <1>1. MaxJobs \in Nat /\ MaxJobs > 0 /\ sizes \in Seq(1..MaxJobs)
    BY PipePoolAssumption DEF PipePoolAssumption, Init
  <1>2. Len(sizes) \in Nat
    BY <1>1
  <1>3. NoExpert \in Experts
    BY DEF NoExpert, Expert, Experts, Eids
  <1>4. Typed
    BY <1>1, <1>2, <1>3 DEF Init, Typed, Jobs, Cursors, Eids, Published, Rewriting, Claiming
  <1>5. Cursor
    BY DEF Init, Cursor, Published, Rewriting
  <1>6. Copies
    BY DEF Init, Copies
  <1>7. Claims
    BY DEF Init, Claims, Claimed
  <1>8. Results
    BY DEF Init, Results, Published
  <1> QED BY <1>4, <1>5, <1>6, <1>7, <1>8 DEF Inv

LEMMA StoreNjobsInv ==
    ASSUME Inv, StoreNjobs, NeverMore
    PROVE  Inv'
  <1> USE DEF StoreNjobs, Published, Rewriting, Claiming, workerVars, Goto, Claimed
  <1>1. Typed'
    BY Counts DEF Inv, Typed, Cursors, Jobs, Eids, Experts, Expert, NoExpert, EidOf
  <1>2. Cursor'
    <2>1. cur.gen > 0 => cur.idx >= njobs /\ cur.gen = batch
      BY DEF Inv, Cursor
    <2>2. batch > 0 => sizes[batch + 1] <= sizes[batch]
      <3>1. sizes \in BatchSizes
        BY DEF Inv, Typed
      <3>2. batch > 0 => batch \in 1..Len(sizes) /\ batch + 1 \in 1..Len(sizes) /\ batch < batch + 1
        BY Counts DEF Inv
      <3> QED BY <3>1, <3>2 DEF NeverMore
    <2>3. batch \in Nat /\ (batch > 0 => njobs = sizes[batch] /\ njobs \in Nat)
      BY Counts DEF Inv
    <2>4. batch + 1 \in 1..Len(sizes) /\ sizes[batch + 1] \in Nat
      BY Counts DEF Inv
    <2>5. cur \in Cursors
      BY DEF Inv, Typed
    <2>6. cur.gen > 0 => cur.idx >= sizes[batch + 1]
      BY <2>1, <2>2, <2>3, <2>4, <2>5, Counts DEF Cursors, Inv
    <2>7. cur.gen = batch
      BY DEF Inv, Cursor
    <2> QED BY <2>3, <2>6, <2>7 DEF Cursor
  <1>3. Copies'
    BY Counts DEF Inv, Typed, Cursor, Copies, Claims, Cursors, Jobs
  <1>4. Claims'
    BY Counts DEF Inv, Typed, Cursor, Copies, Claims, Results, Cursors, Jobs, Expert
  <1>5. Results'
    BY Counts DEF Inv, Typed, Cursor, Copies, Claims, Results, Cursors, Jobs, Expert
  <1> QED BY <1>1, <1>2, <1>3, <1>4, <1>5 DEF Inv

LEMMA StoreLayerInv ==
    ASSUME Inv, StoreLayer
    PROVE  Inv'
  <1> USE DEF StoreLayer, Published, Rewriting, workerVars, Goto, Claimed
  <1>1. Typed'
    BY Counts DEF Inv, Typed, Cursors, Jobs, Eids, Experts, Expert, NoExpert, EidOf
  <1>2. Cursor'
    BY Counts DEF Inv, Typed, Cursor, Copies, Claims, Results, Cursors, Jobs, NeverMore
  <1>3. Copies'
    BY Counts DEF Inv, Typed, Cursor, Copies, Claims, Cursors, Jobs
  <1>4. Claims'
    BY Counts DEF Inv, Typed, Cursor, Copies, Claims, Results, Cursors, Jobs, Expert
  <1>5. Results'
    BY Counts DEF Inv, Typed, Cursor, Copies, Claims, Results, Cursors, Jobs, Expert
  <1> QED BY <1>1, <1>2, <1>3, <1>4, <1>5 DEF Inv

LEMMA StoreEidsInv ==
    ASSUME Inv, StoreEids
    PROVE  Inv'
  <1> USE DEF StoreEids, Published, Rewriting, workerVars, Goto, Size, Claimed
  <1>1. Typed'
    BY Counts DEF Inv, Typed, Cursors, Jobs, Eids, Experts, Expert, NoExpert, EidOf
  <1>2. Cursor'
    BY Counts DEF Inv, Typed, Cursor, Copies, Claims, Results, Cursors, Jobs, NeverMore
  <1>3. Copies'
    BY Counts DEF Inv, Typed, Cursor, Copies, Claims, Cursors, Jobs
  <1>4. Claims'
    BY Counts DEF Inv, Typed, Cursor, Copies, Claims, Results, Cursors, Jobs, Expert
  <1>5. Results'
    BY Counts DEF Inv, Typed, Cursor, Copies, Claims, Results, Cursors, Jobs, Expert
  <1> QED BY <1>1, <1>2, <1>3, <1>4, <1>5 DEF Inv

LEMMA ResetReadyInv ==
    ASSUME Inv, ResetReady
    PROVE  Inv'
  <1> USE DEF ResetReady, Published, Rewriting, workerVars, Goto, Size, Claimed
  <1>1. Typed'
    BY Counts DEF Inv, Typed, Cursors, Jobs, Eids, Experts, Expert, NoExpert, EidOf
  <1>2. Cursor'
    BY Counts DEF Inv, Typed, Cursor, Copies, Claims, Results, Cursors, Jobs, NeverMore
  <1>3. Copies'
    BY Counts DEF Inv, Typed, Cursor, Copies, Claims, Cursors, Jobs
  <1>4. Claims'
    BY Counts DEF Inv, Typed, Cursor, Copies, Claims, Results, Cursors, Jobs, Expert
  <1>5. Results'
    BY Counts DEF Inv, Typed, Cursor, Copies, Claims, Results, Cursors, Jobs, Expert
  <1> QED BY <1>1, <1>2, <1>3, <1>4, <1>5 DEF Inv

LEMMA PublishInv ==
    ASSUME Inv, Publish
    PROVE  Inv'
  <1> USE DEF Publish, Published, Rewriting, workerVars, Goto, Claimed
  <1>1. Typed'
    <2>1. cur' \in Cursors
      BY Counts DEF Inv, Typed, Cursors
    <2> QED BY <2>1 DEF Inv, Typed
  <1>0. /\ cur.gen \in Nat /\ batch \in Nat /\ batch >= 1 /\ cur.gen = batch - 1 /\ njobs \in Nat
        /\ cur'.gen = batch /\ cur'.idx = 0
    BY Counts DEF Inv, Typed, Cursor, Cursors
  <1>2. Cursor'
    BY <1>0 DEF Inv, Cursor, EidOf
  <1>3. Copies'
    <2> SUFFICES ASSUME NEW w \in Workers PROVE Copies!(w)'
      BY DEF Copies
    <2>1. /\ seen[w] \in Nat /\ c[w].gen \in Nat
          /\ seen[w] <= cur.gen /\ c[w].gen <= cur.gen
      BY DEF Inv, Typed, Copies, Cursors
    <2>2. seen[w] <= batch /\ c[w].gen < batch /\ batch # 0
      BY <1>0, <2>1
    <2>3. c[w] # cur'
      BY <1>0, <2>1, <2>2
    <2> QED BY <1>0, <2>1, <2>2, <2>3
  <1>4. Claims'
    BY DEF Inv, Claims, Expert, EidOf
  <1>5. Results'
    BY Counts DEF Inv, Typed, Cursor, Copies, Claims, Results, Cursors, Jobs, Expert
  <1> QED BY <1>1, <1>2, <1>3, <1>4, <1>5 DEF Inv

LEMMA WakeWorkersInv ==
    ASSUME Inv, WakeWorkers
    PROVE  Inv'
  <1> USE DEF WakeWorkers, Published, Rewriting, poolVars, Goto, Claimed
  <1>1. Typed'
    <2>1. wpc' \in [Workers -> {"check", "parked", "load_cur", "load_njobs", "cas", "signal"} \cup Claiming]
      BY DEF Inv, Typed
    <2>2. q' \in Jobs
      BY Counts DEF Inv, Jobs
    <2> QED BY <2>1, <2>2 DEF Inv, Typed
  <1>2. Cursor'
    BY Counts DEF Inv, Typed, Cursor, Copies, Claims, Results, Cursors, Jobs, NeverMore
  <1>3. Copies'
    BY Counts DEF Inv, Typed, Cursor, Copies, Claims, Cursors, Jobs
  <1>4. Claims'
    BY Counts DEF Inv, Typed, Cursor, Copies, Claims, Results, Cursors, Jobs, Expert
  <1>5. Results'
    BY Counts DEF Inv, Typed, Cursor, Copies, Claims, Results, Cursors, Jobs, Expert
  <1> QED BY <1>1, <1>2, <1>3, <1>4, <1>5 DEF Inv

LEMMA WaitDoneInv ==
    ASSUME Inv, WaitDone
    PROVE  Inv'
  <1> USE DEF WaitDone, Published, Rewriting, poolVars, workerVars, Goto, Claimed
  <1>1. Typed'
    BY Counts DEF Inv, Typed, Cursors, Jobs, Eids, Experts, Expert, NoExpert, EidOf
  <1>2. Cursor'
    BY Counts DEF Inv, Typed, Cursor, Copies, Claims, Results, Cursors, Jobs, NeverMore
  <1>3. Copies'
    BY Counts DEF Inv, Typed, Cursor, Copies, Claims, Cursors, Jobs
  <1>4. Claims'
    BY Counts DEF Inv, Typed, Cursor, Copies, Claims, Results, Cursors, Jobs, Expert
  <1>5. Results'
    BY Counts DEF Inv, Typed, Cursor, Copies, Claims, Results, Cursors, Jobs, Expert
  <1> QED BY <1>1, <1>2, <1>3, <1>4, <1>5 DEF Inv

LEMMA SleepOnDoneInv ==
    ASSUME Inv, SleepOnDone
    PROVE  Inv'
  <1> USE DEF SleepOnDone, Published, Rewriting, poolVars, workerVars, Goto, Claimed
  <1>1. Typed'
    BY Counts DEF Inv, Typed, Cursors, Jobs, Eids, Experts, Expert, NoExpert, EidOf
  <1>2. Cursor'
    BY Counts DEF Inv, Typed, Cursor, Copies, Claims, Results, Cursors, Jobs, NeverMore
  <1>3. Copies'
    BY Counts DEF Inv, Typed, Cursor, Copies, Claims, Cursors, Jobs
  <1>4. Claims'
    BY Counts DEF Inv, Typed, Cursor, Copies, Claims, Results, Cursors, Jobs, Expert
  <1>5. Results'
    BY Counts DEF Inv, Typed, Cursor, Copies, Claims, Results, Cursors, Jobs, Expert
  <1> QED BY <1>1, <1>2, <1>3, <1>4, <1>5 DEF Inv

LEMMA UseSlotInv ==
    ASSUME Inv, UseSlot
    PROVE  Inv'
  <1> USE DEF UseSlot, Published, Rewriting, Claiming, poolVars, workerVars, Size, Claimed
  <1>1. Typed'
    <2>1. njobs = Size /\ njobs \in 1..MaxJobs
      BY Counts DEF Inv, Typed
    <2>2. q' \in Jobs
      BY <2>1, Counts DEF Inv, Typed, Jobs
    <2> QED BY <2>2 DEF Inv, Typed
  <1>0. /\ njobs = Size /\ njobs \in Nat /\ q \in Nat /\ cur.idx \in Nat
        /\ cur.idx <= njobs /\ q < njobs
        /\ \A i \in Jobs : i < q => ready[i]
        /\ ready[q] /\ q < cur.idx
    BY Counts DEF Inv, Typed, Cursor, Results, Cursors, Jobs
  <1>a. q + 1 < Size \/ (cur.idx = njobs /\ q = njobs - 1)
    BY <1>0
  <1>2. Cursor'
    BY <1>0, <1>a DEF Inv, Cursor, EidOf
  <1>3. Copies'
    BY DEF Inv, Copies
  <1>4. Claims'
    <2>1. CASE q + 1 < Size
      BY <2>1 DEF Inv, Claims
    <2>2. CASE ~(q + 1 < Size)
      <3>1. \A w \in Claimed : FALSE
        <4> SUFFICES ASSUME NEW w \in Claimed PROVE FALSE
          OBVIOUS
        <4>1. c[w].idx < cur.idx /\ ~ready[c[w].idx]
          BY DEF Inv, Claims
        <4>2. c[w].idx \in Nat /\ MaxJobs \in Nat /\ njobs <= MaxJobs
          BY Counts DEF Inv, Typed, Cursors, Claimed
        <4>3. c[w].idx \in Jobs /\ (c[w].idx < q \/ c[w].idx = q)
          BY <4>1, <4>2, <2>2, <1>a, <1>0 DEF Jobs
        <4> QED BY <4>1, <4>3, <1>0
      <3> QED BY <3>1 DEF Inv, Claims
    <2> QED BY <2>1, <2>2
  <1>5. Results'
    <2>1. CASE q + 1 < Size
      <3>1. \A i \in Jobs : i < q + 1 => ready[i]
        BY <1>0 DEF Jobs
      <3> QED BY <2>1, <3>1, <1>0 DEF Inv, Results, EidOf
    <2>2. CASE ~(q + 1 < Size)
      BY <2>2 DEF Results
    <2> QED BY <2>1, <2>2
  <1> QED BY <1>1, <1>2, <1>3, <1>4, <1>5 DEF Inv

\* A worker that only moves on: no claim is made, kept or dropped by it.
LEMMA WorkerMoves ==
    ASSUME Inv, NEW w \in Workers, NEW STATE here, NEW STATE there,
           WGoto(w, here, there),
           UNCHANGED <<sizes, block, mainVars, poolVars, seen, c, job>>,
           there \in {"check", "parked", "load_cur", "cas"},
           cur.gen = 0 => there \in {"check", "parked"},
           there = "cas" /\ c[w] = cur => cur.idx < njobs
    PROVE  Inv'
  <1> USE DEF mainVars, poolVars
  <1>1. Typed'
    <2>1. wpc' \in [Workers -> {"check", "parked", "load_cur", "load_njobs", "cas", "signal"} \cup Claiming]
      BY DEF Inv, Typed, WGoto
    <2> QED BY <2>1 DEF Inv, Typed
  <1>2. \A v \in Workers : wpc'[v] = IF v = w THEN there ELSE wpc[v]
    BY DEF Inv, Typed, WGoto
  <1>3. Cursor'
    BY DEF Inv, Cursor, Published, Rewriting, EidOf
  <1>4. Copies'
    <2> SUFFICES ASSUME NEW v \in Workers PROVE Copies!(v)'
      BY DEF Copies
    <2> QED BY <1>2 DEF Inv, Copies
  <1>5. Claims'
    <2>1. Claimed' \subseteq Claimed
      BY <1>2 DEF Claimed
    <2>2. /\ \A v \in Claimed : Claims!1!(v)
          /\ \A u, v \in Claimed : u # v => c[u].idx # c[v].idx
      BY DEF Inv, Claims
    <2>3. \A v \in Workers : Claims!3!(v)'
      BY <1>2 DEF Inv, Claims
    <2> QED BY <2>1, <2>2, <2>3 DEF Claims
  <1>6. Results'
    BY DEF Inv, Results, Published, EidOf
  <1> QED BY <1>1, <1>3, <1>4, <1>5, <1>6 DEF Inv

LEMMA ParkInv ==
    ASSUME Inv, NEW w \in Workers, Park(w)
    PROVE  Inv'
  <1>1. cur.gen = 0 => cur.gen = seen[w]
    BY DEF Inv, Typed, Copies
  <1> QED BY <1>1, WorkerMoves DEF Park

LEMMA LoadCurInv ==
    ASSUME Inv, NEW w \in Workers, LoadCur(w)
    PROVE  Inv'
  <1> USE DEF LoadCur, Published, Rewriting, poolVars, mainVars, WGoto, Claimed
  <1>1. Typed'
    BY Counts DEF Inv, Typed, Cursors, Jobs, Eids, Experts, Expert, NoExpert, EidOf
  <1>2. Cursor'
    BY Counts DEF Inv, Typed, Cursor, Copies, Claims, Results, Cursors, Jobs, NeverMore
  <1>3. Copies'
    <2>1. cur \in Cursors /\ c \in [Workers -> Cursors] /\ seen \in [Workers -> Nat]
           /\ wpc \in [Workers -> {"check", "parked", "load_cur", "load_njobs", "cas", "signal"} \cup Claiming]
      BY DEF Inv, Typed
    <2>2. cur.gen \in Nat /\ cur.idx \in Nat
      BY <2>1, Counts DEF Cursors, Inv
    <2>3. cur.gen # 0
      BY DEF Inv, Copies
    <2> SUFFICES ASSUME NEW v \in Workers PROVE Copies!(v)'
      BY DEF Copies
    <2>4. CASE v = w
      BY <2>1, <2>2, <2>3, <2>4
    <2>5. CASE v # w
      BY <2>1, <2>5 DEF Inv, Copies
    <2> QED BY <2>4, <2>5
  <1>4. Claims'
    BY Counts DEF Inv, Typed, Cursor, Copies, Claims, Results, Cursors, Jobs, Expert
  <1>5. Results'
    BY Counts DEF Inv, Typed, Cursor, Copies, Claims, Results, Cursors, Jobs, Expert
  <1> QED BY <1>1, <1>2, <1>3, <1>4, <1>5 DEF Inv

LEMMA LoadNjobsInv ==
    ASSUME Inv, NEW w \in Workers, LoadNjobs(w)
    PROVE  Inv'
  <1>1. cur.gen # 0
    BY DEF Inv, Copies, LoadNjobs, WGoto
  <1>2. cur.idx \in Nat /\ njobs \in Nat
    BY Counts DEF Inv, Typed, Cursors
  <1>3. c[w] = cur => (c[w].idx >= njobs \/ cur.idx < njobs)
    BY <1>2
  <1> QED BY <1>1, <1>3, WorkerMoves DEF LoadNjobs

LEMMA CasWinsInv ==
    ASSUME Inv, NEW w \in Workers, CasWins(w)
    PROVE  Inv'
  <1> USE DEF CasWins, Published, Rewriting, Claiming, mainVars, WGoto, Claimed
  <1>0. /\ cur.idx \in Nat /\ cur.gen \in Nat
        /\ cur' = [gen |-> cur.gen, idx |-> cur.idx + 1]
        /\ cur.idx < njobs /\ njobs \in 1..MaxJobs
    <2>1. cur \in Cursors
      BY DEF Inv, Typed
    <2>2. cur.idx < njobs
      BY DEF Inv, Copies
    <2>3. cur.idx \in Nat /\ cur.gen \in Nat /\ cur = [gen |-> cur.gen, idx |-> cur.idx]
      BY <2>1, Counts DEF Inv, Cursors
    <2>4. njobs \in 1..MaxJobs
      BY <2>2, <2>3, Counts DEF Inv
    <2> QED BY <2>2, <2>3, <2>4
  <1>1. Typed'
    <2>1. cur' \in Cursors
      BY <1>0, Counts DEF Inv, Cursors
    <2> QED BY <2>1 DEF Inv, Typed
  <1>2. Cursor'
    BY Counts DEF Inv, Typed, Cursor, Copies, Claims, Results, Cursors, Jobs, NeverMore
  <1>3. Copies'
    <2>1. wpc \in [Workers -> {"check", "parked", "load_cur", "load_njobs", "cas", "signal"} \cup Claiming]
      BY DEF Inv, Typed
    <2> SUFFICES ASSUME NEW v \in Workers PROVE Copies!(v)'
      BY DEF Copies
    <2>2. /\ c[v].gen = cur.gen => c[v].idx <= cur.idx
          /\ c[v].gen <= cur.gen /\ seen[v] <= cur.gen /\ cur.gen # 0
          /\ c[v] \in Cursors
      BY DEF Inv, Copies, Typed
    <2>3. c[v] # cur'
      BY <1>0, <2>2, Counts DEF Inv, Cursors
    <2> QED BY <1>0, <2>1, <2>2, <2>3, Counts DEF Inv, Cursors
  <1>4. Claims'
    <2>1. wpc \in [Workers -> {"check", "parked", "load_cur", "load_njobs", "cas", "signal"} \cup Claiming]
      BY DEF Inv, Typed
    <2>2. mpc \in Published
      BY <1>0 DEF Inv, Typed, Cursor, Copies
    <2>3. ~ready[c[w].idx]
      BY <1>0, <2>2, Counts DEF Inv, Results, Jobs
    <2>4. Claimed' = Claimed \cup {w}
      BY <2>1
    <2>5. \A v \in Claimed : v \in Workers /\ v # w /\ c[v].idx < cur.idx /\ c[v].idx \in Nat
      BY Counts DEF Inv, Claims, Typed, Cursors
    <2>6. (\A v \in Claimed : /\ mpc \in Published
                               /\ c[v].gen = cur.gen /\ c[v].idx < cur.idx
                               /\ ~ready[c[v].idx])'
      BY <1>0, <2>2, <2>3, <2>4, <2>5 DEF Inv, Claims
    <2>7. (\A u, v \in Claimed : u # v => c[u].idx # c[v].idx)'
      BY <1>0, <2>4, <2>5 DEF Inv, Claims
    <2>8. (\A v \in Workers :
            /\ wpc[v] = "read_eid" => job[v] = Expert(batch, Unset)
            /\ wpc[v] \in {"loading", "store_ready"} => job[v] = Expert(batch, EidOf(batch, c[v].idx))
            /\ wpc[v] = "store_ready" => ws[c[v].idx] = job[v])'
      BY <2>1 DEF Inv, Claims
    <2> QED BY <2>6, <2>7, <2>8 DEF Claims
  <1>5. Results'
    BY Counts DEF Inv, Typed, Cursor, Copies, Claims, Results, Cursors, Jobs, Expert
  <1> QED BY <1>1, <1>2, <1>3, <1>4, <1>5 DEF Inv

LEMMA CasFailsInv ==
    ASSUME Inv, NEW w \in Workers, CasFails(w)
    PROVE  Inv'
  <1>1. cur.gen # 0
    BY DEF Inv, Copies, CasFails, WGoto
  <1> QED BY <1>1, WorkerMoves DEF CasFails

LEMMA CasFailsSpuriouslyInv ==
    ASSUME Inv, NEW w \in Workers, CasFailsSpuriously(w)
    PROVE  Inv'
  <1>1. cur.gen # 0
    BY DEF Inv, Copies, CasFailsSpuriously, WGoto
  <1> QED BY <1>1, WorkerMoves DEF CasFailsSpuriously

LEMMA ReadLayerInv ==
    ASSUME Inv, NEW w \in Workers, ReadLayer(w)
    PROVE  Inv'
  <1> USE DEF ReadLayer, Published, Rewriting, Claiming, poolVars, mainVars, WGoto, Claimed
  <1>1. Typed'
    BY Counts DEF Inv, Typed, Cursors, Jobs, Eids, Experts, Expert, NoExpert, EidOf
  <1>2. Cursor'
    BY Counts DEF Inv, Typed, Cursor, Copies, Claims, Results, Cursors, Jobs, NeverMore
  <1>3. Copies'
    BY Counts DEF Inv, Typed, Cursor, Copies, Claims, Cursors, Jobs
  <1>4. Claims'
    <2>1. \A v \in Workers : wpc'[v] = IF v = w THEN "read_eid" ELSE wpc[v]
      BY DEF Inv, Typed
    <2>2. Claimed' = Claimed
      BY <2>1
    <2>3. layer = batch
      BY DEF Inv, Claims, Cursor
    <2>4. \A v \in Workers : job'[v] = IF v = w THEN Expert(batch, Unset) ELSE job[v]
      BY <2>3 DEF Inv, Typed
    <2>5. \A v \in Workers : Claims!3!(v)'
      BY <2>1, <2>4 DEF Inv, Claims
    <2> QED BY <2>2, <2>5 DEF Inv, Claims
  <1>5. Results'
    BY Counts DEF Inv, Typed, Cursor, Copies, Claims, Results, Cursors, Jobs, Expert
  <1> QED BY <1>1, <1>2, <1>3, <1>4, <1>5 DEF Inv

LEMMA ReadEidInv ==
    ASSUME Inv, NEW w \in Workers, ReadEid(w)
    PROVE  Inv'
  <1> USE DEF ReadEid, Published, Rewriting, Claiming, mainVars, WGoto, Claimed
  <1>0. c[w].idx \in Jobs /\ c[w].idx < njobs /\ eids[c[w].idx] = EidOf(batch, c[w].idx)
    <2>1. w \in Claimed
      BY DEF Inv, Typed
    <2>2. mpc \in Published /\ c[w].idx < cur.idx /\ cur.idx <= njobs
      BY <2>1 DEF Inv, Claims, Cursor
    <2>3. c[w] \in Cursors /\ cur \in Cursors /\ njobs \in Nat /\ njobs <= MaxJobs
      BY Counts DEF Inv, Typed
    <2>4. c[w].idx \in Nat /\ c[w].idx < njobs /\ c[w].idx < MaxJobs
      BY <2>2, <2>3, Counts DEF Inv, Cursors
    <2> QED BY <2>2, <2>4, Counts DEF Inv, Cursor, Jobs
  <1>a. job' = [job EXCEPT ![w] = Expert(batch, EidOf(batch, c[w].idx))]
    <2>1. job[w] = [layer |-> batch, eid |-> Unset]
      BY DEF Inv, Claims, Expert
    <2>2. [job[w] EXCEPT !.eid = eids[c[w].idx]] = Expert(batch, EidOf(batch, c[w].idx))
      BY <1>0, <2>1 DEF Expert
    <2>3. job' = [job EXCEPT ![w] = [job[w] EXCEPT !.eid = eids[c[w].idx]]]
      OBVIOUS
    <2> QED BY <2>2, <2>3
  <1>1. Typed'
    <2>1. eids[c[w].idx] \in Eids
      BY <1>0 DEF Inv, Typed
    <2>2. Expert(batch, EidOf(batch, c[w].idx)) \in Experts /\ NoExpert \in Experts
      BY <1>0, <2>1, Counts DEF Inv, Expert, Experts, NoExpert, Eids
    <2>3. job' \in [Workers -> Experts] /\ ws' \in [Jobs -> Experts]
      BY <1>a, <2>2 DEF Inv, Typed
    <2>4. wpc' \in [Workers -> {"check", "parked", "load_cur", "load_njobs", "cas", "signal"} \cup Claiming]
      BY DEF Inv, Typed
    <2> QED BY <2>3, <2>4 DEF Inv, Typed
  <1>2. Cursor'
    BY Counts DEF Inv, Typed, Cursor, Copies, Claims, Results, Cursors, Jobs, NeverMore
  <1>3. Copies'
    BY Counts DEF Inv, Typed, Cursor, Copies, Claims, Cursors, Jobs
  <1>4. Claims'
    <2>1. wpc \in [Workers -> {"check", "parked", "load_cur", "load_njobs", "cas", "signal"} \cup Claiming]
           /\ job \in [Workers -> Experts]
      BY DEF Inv, Typed
    <2>2. Claimed' = Claimed /\ w \in Claimed
      BY <2>1
    <2>3. ASSUME NEW v \in Workers, wpc'[v] = "store_ready"
          PROVE  ws'[c[v].idx] = job'[v]
      <3>1. v # w /\ v \in Claimed /\ wpc[v] = "store_ready"
        BY <2>1, <2>3
      <3>2. c[v].idx # c[w].idx
        BY <2>2, <3>1 DEF Inv, Claims
      <3> QED BY <2>1, <3>1, <3>2 DEF Inv, Claims, Typed
    <2>4. ASSUME NEW v \in Workers
          PROVE  /\ wpc'[v] = "read_eid" => job'[v] = Expert(batch, Unset)
                 /\ wpc'[v] \in {"loading", "store_ready"} => job'[v] = Expert(batch, EidOf(batch, c[v].idx))
      BY <1>a, <2>1 DEF Inv, Claims
    <2> QED BY <2>2, <2>3, <2>4 DEF Inv, Claims
  <1>5. Results'
    BY Counts DEF Inv, Typed, Cursor, Copies, Claims, Results, Cursors, Jobs, Expert
  <1> QED BY <1>1, <1>2, <1>3, <1>4, <1>5 DEF Inv

LEMMA LoadDoneInv ==
    ASSUME Inv, NEW w \in Workers, LoadDone(w)
    PROVE  Inv'
  <1> USE DEF LoadDone, Published, Rewriting, Claiming, mainVars, WGoto, Claimed
  <1>1. Typed'
    BY Counts DEF Inv, Typed, Cursors, Jobs, Eids, Experts, Expert, NoExpert, EidOf
  <1>2. Cursor'
    BY Counts DEF Inv, Typed, Cursor, Copies, Claims, Results, Cursors, Jobs, NeverMore
  <1>3. Copies'
    BY Counts DEF Inv, Typed, Cursor, Copies, Claims, Cursors, Jobs
  <1>4. Claims'
    <2>1. wpc \in [Workers -> {"check", "parked", "load_cur", "load_njobs", "cas", "signal"} \cup Claiming]
      BY DEF Inv, Typed
    <2>2. Claimed' = Claimed /\ w \in Claimed
      BY <2>1
    <2>3. c[w].idx \in Jobs
      BY <2>2, Counts DEF Inv, Typed, Claims, Cursor, Cursors, Jobs
    <2>4. ASSUME NEW v \in Workers, wpc'[v] = "store_ready"
          PROVE  ws'[c[v].idx] = job[v]
      <3>1. CASE v = w
        BY <2>3, <3>1 DEF Inv, Typed
      <3>2. CASE v # w
        <4>1. v \in Claimed /\ wpc[v] = "store_ready"
          BY <2>1, <2>4, <3>2
        <4>2. c[v].idx # c[w].idx
          BY <2>2, <3>2, <4>1 DEF Inv, Claims
        <4> QED BY <4>1, <4>2 DEF Inv, Claims, Typed
      <3> QED BY <3>1, <3>2
    <2>5. ASSUME NEW v \in Workers
          PROVE  /\ wpc'[v] = "read_eid" => job[v] = Expert(batch, Unset)
                 /\ wpc'[v] \in {"loading", "store_ready"} => job[v] = Expert(batch, EidOf(batch, c[v].idx))
      BY <2>1 DEF Inv, Claims
    <2> QED BY <2>2, <2>4, <2>5 DEF Inv, Claims
  <1>5. Results'
    BY Counts DEF Inv, Typed, Cursor, Copies, Claims, Results, Cursors, Jobs, Expert
  <1> QED BY <1>1, <1>2, <1>3, <1>4, <1>5 DEF Inv

LEMMA StoreReadyInv ==
    ASSUME Inv, NEW w \in Workers, StoreReady(w)
    PROVE  Inv'
  <1> USE DEF StoreReady, Published, Rewriting, mainVars, WGoto, Claimed
  <1>1. Typed'
    BY Counts DEF Inv, Typed, Cursors, Jobs, Eids, Experts, Expert, NoExpert, EidOf
  <1>2. Cursor'
    BY Counts DEF Inv, Typed, Cursor, Copies, Claims, Results, Cursors, Jobs, NeverMore
  <1>3. Copies'
    BY Counts DEF Inv, Typed, Cursor, Copies, Claims, Cursors, Jobs
  <1>4. Claims'
    BY Counts DEF Inv, Typed, Cursor, Copies, Claims, Results, Cursors, Jobs, Expert
  <1>5. Results'
    BY Counts DEF Inv, Typed, Cursor, Copies, Claims, Results, Cursors, Jobs, Expert
  <1> QED BY <1>1, <1>2, <1>3, <1>4, <1>5 DEF Inv

LEMMA SignalDoneInv ==
    ASSUME Inv, NEW w \in Workers, SignalDone(w)
    PROVE  Inv'
  <1> USE DEF SignalDone, Published, Rewriting, poolVars, WGoto, Claimed
  <1>1. Typed'
    BY Counts DEF Inv, Typed, Cursors, Jobs, Eids, Experts, Expert, NoExpert, EidOf
  <1>2. Cursor'
    BY Counts DEF Inv, Typed, Cursor, Copies, Claims, Results, Cursors, Jobs, NeverMore
  <1>3. Copies'
    BY Counts DEF Inv, Typed, Cursor, Copies, Claims, Cursors, Jobs
  <1>4. Claims'
    <2>1. \A v \in Workers : /\ wpc'[v] = IF v = w THEN "load_cur" ELSE wpc[v]
                             /\ Claimed' = Claimed
      BY DEF Inv, Typed
    <2>2. mpc \in Published => mpc' \in Published
      OBVIOUS
    <2>3. \A v \in Workers : Claims!3!(v)'
      BY <2>1 DEF Inv, Claims
    <2>4. \A v \in Claimed : Claims!1!(v)'
      BY <2>2 DEF Inv, Claims
    <2> QED BY <2>1, <2>3, <2>4 DEF Inv, Claims
  <1>5. Results'
    BY Counts DEF Inv, Typed, Cursor, Copies, Claims, Results, Cursors, Jobs, Expert
  <1> QED BY <1>1, <1>2, <1>3, <1>4, <1>5 DEF Inv

----------------------------------------------------------------------------
LEMMA NextInv ==
    ASSUME Inv, [Next]_vars, NeverMore
    PROVE  Inv'
  <1>1. CASE Main
    BY <1>1, StoreNjobsInv, StoreLayerInv, StoreEidsInv, ResetReadyInv, PublishInv,
       WakeWorkersInv, WaitDoneInv, SleepOnDoneInv, UseSlotInv DEF Main
  <1>2. ASSUME NEW w \in Workers, Progress(w) \/ CasFailsSpuriously(w)
        PROVE  Inv'
    BY <1>2, ParkInv, LoadCurInv, LoadNjobsInv, CasWinsInv, CasFailsInv,
       CasFailsSpuriouslyInv, ReadLayerInv, ReadEidInv, LoadDoneInv, StoreReadyInv,
       SignalDoneInv DEF Progress
  <1>3. CASE UNCHANGED vars
    BY <1>3 DEF Inv, Typed, Cursor, Copies, Claims, Results, Claimed, vars,
       mainVars, poolVars, workerVars
  <1> QED BY <1>1, <1>2, <1>3 DEF Next

LEMMA Invariance ==
    ASSUME NeverMore
    PROVE  Spec => []Inv
  <1>1. Inv /\ [Next]_vars => Inv'
    BY NextInv
  <1> QED BY InitInv, <1>1, PTL DEF Spec

----------------------------------------------------------------------------
(* Type correctness: the counters stay within the run's batches, and every *)
(* index, the main thread's and the workers' copies, within the arrays     *)
(* (pipe_dispatch, pipe_worker).                                           *)
THEOREM TypeCorrect ==
    ASSUME NeverMore
    PROVE  Spec => []TypeOK
  <1>1. ASSUME Inv PROVE TypeOK
    <2> USE DEF Inv, Cursors, Published, Rewriting
    <2>1. cur.gen \in Nat /\ cur.gen <= batch
      BY <1>1, Counts DEF Typed, Cursor
    <2>2. batch \in 0..Len(sizes) /\ Len(sizes) \in Nat
      BY <1>1, Counts DEF Typed
    <2>3. cur \in [gen : 0..Len(sizes), idx : 0..MaxJobs]
      BY <1>1, <2>1, <2>2 DEF Typed
    <2>4. ASSUME NEW w \in Workers
          PROVE  c[w] \in [gen : 0..Len(sizes), idx : 0..MaxJobs]
      <3>1. c[w] \in Cursors /\ c[w].gen <= cur.gen
        BY <1>1 DEF Typed, Copies
      <3> QED BY <2>1, <2>2, <3>1
    <2>5. njobs \in 0..MaxJobs
      BY <1>1, <2>2, Counts
    <2> QED BY <1>1, <2>2, <2>3, <2>4, <2>5 DEF Typed, TypeOK
  <1> QED BY Invariance, <1>1, PTL

(* The matmul of a slot reads the expert the router asked for, whole       *)
(* (moe, after pipe_wait): the flag it waited for was raised by the worker *)
(* that filled the slot, in this batch.                                    *)
THEOREM MatmulIsRight ==
    ASSUME NeverMore
    PROVE  Spec => []UsesTheRightExpert
  <1>1. ASSUME Inv PROVE UsesTheRightExpert
    BY <1>1, Counts DEF Inv, Typed, Results, Published, UsesTheRightExpert
  <1> QED BY Invariance, <1>1, PTL

(* A claimed job belongs to the published batch, no two workers hold one   *)
(* job, and the main thread is not rewriting the batch (pipe_worker's      *)
(* exchange; the comment above PipePool).                                  *)
THEOREM GrabsAreFresh ==
    ASSUME NeverMore
    PROVE  Spec => []NoStaleGrab
  <1>1. ASSUME Inv PROVE NoStaleGrab
    BY <1>1 DEF Inv, Claims, Published, NoStaleGrab
  <1> QED BY Invariance, <1>1, PTL
=============================================================================
