-------------------------- MODULE ExpertCacheProofs --------------------------
(***************************************************************************)
(* What ExpertCache guarantees for every number of experts, layers and     *)
(* pilot loads.  The inductive invariant has three parts: who may write    *)
(* which slot (a reserved slot has one owner, a load that is reading it or *)
(* has failed on it), where the loads are with respect to the main thread  *)
(* (behind it there are none, which is what the barrier establishes from   *)
(* g_pilot_inflight), and what the caches hold.                            *)
(***************************************************************************)
EXTENDS ExpertCache, FiniteSetTheorems, SequenceTheorems, TLAPS

States == {"free", "reserved", "resident"}
SlotType == [state : States, eid : Experts \cup {NoExpert}, data : Experts \cup {NoExpert}]
LoadType == [at : {"idle", "reading", "read", "failed"}, layer : 0..NLayers, slot : Nat,
             eid : Experts \cup {NoExpert}]

Busy(p) == load[p].at # "idle"

(* A load owns its slot until it settles; outside the io_uring path the    *)
(* end of the read has published the slot, which anybody may then reuse.   *)
Owns(p) == load[p].at \in {"reading", "failed"} \/ (load[p].at = "read" /\ uring)
BusyIn(l) == {p \in Loads : Busy(p) /\ load[p].layer = l}

Typed ==
    /\ cache \in [Layers -> Seq(SlotType)]
    /\ ecap \in CapFloor..Cap
    /\ cur \in 0..NLayers
    /\ inflight \in [Layers -> Nat]
    /\ mpc \in {"next", "barrier", "resolve", "matmul", "promote", "safe"}
    /\ todo \subseteq Experts
    /\ load \in [Loads -> LoadType]
    /\ uring \in BOOLEAN

\* Where the main thread is, and the loads ahead of it.
Placed ==
    /\ mpc = "next" => cur < NLayers
    /\ mpc \in {"barrier"} \cup Past => cur > 0
    /\ mpc = "safe" => cur = NLayers
    /\ \A p \in Loads : Busy(p) =>
         /\ load[p].layer \in Layers /\ load[p].eid \in Experts
         /\ IF mpc = "barrier" THEN load[p].layer >= cur ELSE load[p].layer > cur

Counted == \A l \in Layers : inflight[l] = Cardinality(BusyIn(l))

\* A slot is reserved as long as a load owns it.
Owned ==
    /\ \A p \in Loads : Owns(p) =>
         /\ load[p].slot \in DOMAIN cache[load[p].layer]
         /\ cache[load[p].layer][load[p].slot].state = "reserved"
         /\ cache[load[p].layer][load[p].slot].eid = load[p].eid
    /\ \A p, r \in Loads : p # r /\ Owns(p) /\ Owns(r) /\ load[p].layer = load[r].layer
         => load[p].slot # load[r].slot
    /\ \A l \in Layers : \A z \in DOMAIN cache[l] : cache[l][z].state = "reserved" =>
         \E p \in Loads : Owns(p) /\ load[p].layer = l /\ load[p].slot = z

\* What is to be promoted is not there yet.
Missing == mpc \in {"matmul", "promote"} => \A e \in todo : ~Has(cur, e)

Inv == Typed /\ Placed /\ Counted /\ Owned /\ HitsAreWhole /\ NoDuplicates /\ Missing

----------------------------------------------------------------------------
(* Writing an element of a sequence, or one behind its end.                *)
LEMMA SeqPut ==
    ASSUME NEW S, NEW q \in Seq(S), NEW z \in 1..(Len(q) + 1), NEW s \in S,
           NEW t, t = IF z > Len(q) THEN Append(q, s) ELSE [q EXCEPT ![z] = s]
    PROVE  /\ t \in Seq(S) /\ DOMAIN t = DOMAIN q \cup {z} /\ t[z] = s
           /\ \A y \in DOMAIN q : y # z => t[y] = q[y]
  <1>1. Len(q) \in Nat /\ DOMAIN q = 1..Len(q)
    BY LenProperties
  <1>2. CASE z > Len(q)
    <2>1. z = Len(q) + 1 /\ t = Append(q, s)
      BY <1>1, <1>2
    <2>2. /\ t \in Seq(S) /\ Len(t) = Len(q) + 1 /\ t[Len(q) + 1] = s
          /\ \A i \in 1..Len(q) : t[i] = q[i]
      BY <2>1, AppendProperties
    <2>3. DOMAIN t = 1..(Len(q) + 1)
      BY <2>2, LenProperties
    <2>4. DOMAIN t = DOMAIN q \cup {z}
      <3>1. \A n \in Nat : 1..(n + 1) = 1..n \cup {n + 1}
        OBVIOUS
      <3> QED BY <1>1, <2>1, <2>3, <3>1
    <2>5. t[z] = s /\ \A y \in DOMAIN q : y # z => t[y] = q[y]
      BY <1>1, <2>1, <2>2
    <2> QED BY <2>2, <2>4, <2>5
  <1>3. CASE ~(z > Len(q))
    <2>1. z \in 1..Len(q) /\ t = [q EXCEPT ![z] = s]
      BY <1>1, <1>3
    <2>2. /\ t \in Seq(S) /\ Len(t) = Len(q)
          /\ \A i \in 1..Len(q) : t[i] = IF i = z THEN s ELSE q[i]
      BY <2>1, ExceptSeq
    <2>3. DOMAIN t = 1..Len(q)
      BY <2>2, LenProperties
    <2> QED BY <1>1, <2>1, <2>2, <2>3
  <1> QED BY <1>2, <1>3

(* Put changes one slot of one layer, or adds one.                         *)
LEMMA PutWrites ==
    ASSUME cache \in [Layers -> Seq(SlotType)],
           NEW l \in Layers, NEW z \in 1..(Len(cache[l]) + 1), NEW s \in SlotType, Put(l, z, s)
    PROVE  /\ cache' \in [Layers -> Seq(SlotType)]
           /\ \A k \in Layers : k # l => cache'[k] = cache[k]
           /\ DOMAIN cache'[l] = DOMAIN cache[l] \cup {z}
           /\ cache'[l][z] = s
           /\ \A y \in DOMAIN cache[l] : y # z => cache'[l][y] = cache[l][y]
  <1>1. PICK t : /\ t = IF z > Len(cache[l]) THEN Append(cache[l], s) ELSE [cache[l] EXCEPT ![z] = s]
                 /\ cache' = [cache EXCEPT ![l] = t]
    BY DEF Put
  <1>2. cache[l] \in Seq(SlotType)
    OBVIOUS
  <1>3. /\ t \in Seq(SlotType) /\ DOMAIN t = DOMAIN cache[l] \cup {z} /\ t[z] = s
        /\ \A y \in DOMAIN cache[l] : y # z => t[y] = cache[l][y]
    BY <1>1, <1>2, SeqPut
  <1>4. cache'[l] = t /\ cache' \in [Layers -> Seq(SlotType)] /\ \A k \in Layers : k # l => cache'[k] = cache[k]
    BY <1>1, <1>3
  <1> QED BY <1>3, <1>4

(* A slot of a cache is a slot.                                            *)
LEMMA SlotsAreSlots ==
    ASSUME cache \in [Layers -> Seq(SlotType)], NEW l \in Layers, NEW z \in DOMAIN cache[l]
    PROVE  cache[l][z] \in SlotType /\ z \in 1..Len(cache[l])
  BY LenProperties

----------------------------------------------------------------------------
(* Before the first forward the caches are empty and no load runs.         *)
LEMMA InitInv == Init => Inv
  <1> SUFFICES ASSUME Init PROVE Inv
    OBVIOUS
  <1>1. \A l \in Layers : cache[l] = <<>> /\ DOMAIN cache[l] = {}
    BY DEF Init
  <1>2. \A p \in Loads : ~Busy(p) /\ ~Owns(p)
    BY DEF Init, Busy, Owns, NoLoad
  <1>3. Typed
    <2>1. NoLoad \in LoadType
      BY ExpertCacheAssumption DEF NoLoad, LoadType
    <2>2. cache \in [Layers -> Seq(SlotType)]
      BY DEF Init
    <2>3. ecap \in CapFloor..Cap /\ cur \in 0..NLayers
      BY ExpertCacheAssumption DEF Init
    <2> QED BY <2>1, <2>2, <2>3 DEF Init, Typed
  <1>4. Placed
    BY <1>2, ExpertCacheAssumption DEF Init, Placed, Past
  <1>5. Counted
    <2>1. \A l \in Layers : BusyIn(l) = {}
      BY <1>2 DEF BusyIn
    <2> QED BY <2>1, FS_EmptySet DEF Init, Counted
  <1>6. Owned /\ HitsAreWhole /\ NoDuplicates
    BY <1>1, <1>2 DEF Owned, HitsAreWhole, NoDuplicates
  <1>7. Missing
    BY DEF Init, Missing
  <1> QED BY <1>3, <1>4, <1>5, <1>6, <1>7 DEF Inv

----------------------------------------------------------------------------
(* The main thread.                                                        *)

(* No load is ahead of the last layer, so none runs at the safe point; and *)
(* a layer the main thread has passed the barrier of has no reservation.   *)
LEMMA NobodyHere ==
    ASSUME Inv
    PROVE  /\ mpc = "safe" => \A p \in Loads : ~Busy(p) /\ ~Owns(p)
           /\ mpc \in Past => \A p \in Loads : Busy(p) => load[p].layer # cur
           /\ mpc \in Past => \A z \in DOMAIN cache[cur] : cache[cur][z].state # "reserved"
           /\ \A p \in Loads : Owns(p) => Busy(p)
  <1>1. \A p \in Loads : Owns(p) => Busy(p)
    BY DEF Owns, Busy
  <1>2. ASSUME mpc = "safe", NEW p \in Loads, Busy(p) PROVE FALSE
    <2>1. load[p].layer \in 1..NLayers /\ load[p].layer > cur /\ cur = NLayers
      BY <1>2 DEF Inv, Placed, Layers
    <2> QED BY <2>1, ExpertCacheAssumption
  <1>3. ASSUME mpc \in Past, NEW p \in Loads, Busy(p) PROVE load[p].layer # cur
    <2>1. load[p].layer \in 1..NLayers /\ load[p].layer > cur
      BY <1>3 DEF Inv, Placed, Layers, Past
    <2> QED BY <2>1 DEF Inv, Typed
  <1>4. ASSUME mpc \in Past PROVE \A z \in DOMAIN cache[cur] : cache[cur][z].state # "reserved"
    <2>1. cur \in Layers
      BY <1>4 DEF Inv, Typed, Placed, Layers, Past
    <2> QED BY <1>1, <1>3, <1>4, <2>1 DEF Inv, Owned
  <1> QED BY <1>1, <1>2, <1>3, <1>4

(* What the barrier waits for: without a load counted in the layer there   *)
(* is none.                                                                *)
LEMMA NoneInFlight ==
    ASSUME Inv, NEW l \in Layers, inflight[l] = 0
    PROVE  \A p \in Loads : Busy(p) => load[p].layer # l
  <1>1. IsFiniteSet(BusyIn(l))
    BY ExpertCacheAssumption, FS_Subset DEF BusyIn
  <1>2. BusyIn(l) = {}
    BY <1>1, FS_EmptySet DEF Inv, Counted
  <1> QED BY <1>2 DEF BusyIn

(* Steps that write no cache and touch no load.                            *)
LEMMA StillPreserves ==
    ASSUME Inv,
           \/ EnterMoe \/ PassBarrier \/ Matmul \/ NextBlock \/ LeaveMoe \/ NewForward \/ LowerCap
           \/ \E routed \in SUBSET Experts : Resolve(routed)
    PROVE  Inv'
  <1>1. UNCHANGED <<cache, inflight, load, uring>>
    BY DEF EnterMoe, PassBarrier, Matmul, NextBlock, LeaveMoe, NewForward, LowerCap, Resolve
  <1>2. Counted'
    BY <1>1 DEF Inv, Counted, BusyIn, Busy
  <1>3. Owned'
    BY <1>1 DEF Inv, Owned, Owns
  <1>4. HitsAreWhole' /\ NoDuplicates'
    BY <1>1 DEF Inv, HitsAreWhole, NoDuplicates
  <1>5. Typed' /\ Placed' /\ Missing'
    <2>1. CASE EnterMoe
      <3>1. Typed'
        BY <1>1, <2>1, ExpertCacheAssumption DEF EnterMoe, Inv, Typed, Placed
      <3>2. \A p \in Loads : Busy(p) => load[p].layer >= cur + 1
        BY <2>1 DEF EnterMoe, Inv, Typed, Placed, Layers
      <3>3. Placed'
        BY <1>1, <2>1, <3>2 DEF EnterMoe, Inv, Typed, Placed, Busy, Past
      <3> QED BY <2>1, <3>1, <3>3 DEF EnterMoe, Missing
    <2>2. CASE PassBarrier
      <3>1. cur \in Layers
        BY <2>2 DEF PassBarrier, Inv, Typed, Placed, Layers
      <3>2. \A p \in Loads : Busy(p) => load[p].layer > cur
        <4>1. \A p \in Loads : Busy(p) => load[p].layer # cur
          BY <2>2, <3>1, NoneInFlight DEF PassBarrier
        <4> QED BY <2>2, <4>1 DEF PassBarrier, Inv, Typed, Placed, Layers
      <3>3. Typed'
        BY <1>1, <2>2 DEF PassBarrier, Inv, Typed
      <3>4. Placed'
        BY <1>1, <2>2, <3>1, <3>2 DEF PassBarrier, Inv, Placed, Busy, Past, Layers
      <3> QED BY <2>2, <3>3, <3>4 DEF PassBarrier, Missing
    <2>3. CASE Matmul
      <3>1. Typed' /\ Missing'
        BY <1>1, <2>3 DEF Matmul, Inv, Typed, Missing, Has
      <3>2. Placed'
        BY <1>1, <2>3 DEF Matmul, Inv, Placed, Busy, Past
      <3> QED BY <3>1, <3>2
    <2>4. CASE NextBlock
      BY <1>1, <2>4 DEF NextBlock, Inv, Typed, Placed, Busy, Past, Missing
    <2>5. CASE LeaveMoe
      <3>1. cur \in Nat /\ cur <= NLayers
        BY ExpertCacheAssumption DEF Inv, Typed
      <3>2. Typed'
        BY <1>1, <2>5 DEF LeaveMoe, Inv, Typed
      <3>3. Placed'
        BY <1>1, <2>5, <3>1, ExpertCacheAssumption DEF LeaveMoe, Inv, Placed, Busy, Past
      <3> QED BY <2>5, <3>2, <3>3 DEF LeaveMoe, Missing
    <2>6. CASE NewForward
      <3>1. Typed'
        BY <1>1, <2>6, ExpertCacheAssumption DEF NewForward, Inv, Typed
      <3>2. Placed'
        BY <1>1, <2>6, NobodyHere, ExpertCacheAssumption DEF NewForward, Placed, Busy, Past
      <3> QED BY <2>6, <3>1, <3>2 DEF NewForward, Missing
    <2>7. CASE LowerCap
      <3>1. ecap - 1 \in CapFloor..Cap
        BY <2>7, ExpertCacheAssumption DEF LowerCap, Inv, Typed
      <3>2. Typed'
        BY <1>1, <2>7, <3>1 DEF LowerCap, Inv, Typed
      <3>3. Placed'
        BY <1>1, <2>7 DEF LowerCap, Inv, Placed, Busy, Past
      <3> QED BY <2>7, <3>2, <3>3 DEF LowerCap, Missing
    <2>8. ASSUME NEW routed \in SUBSET Experts, Resolve(routed)
          PROVE  Typed' /\ Placed' /\ Missing'
      <3>1. /\ mpc = "resolve" /\ mpc' = "matmul" /\ UNCHANGED <<cur, ecap>>
            /\ \A e \in todo' : e \in routed /\ ~Hit(cur, e)
        BY <2>8 DEF Resolve
      <3>2. Typed'
        BY <1>1, <3>1 DEF Inv, Typed
      <3>3. Placed'
        BY <1>1, <3>1 DEF Inv, Placed, Busy, Past
      <3>4. Missing'
        <4>1. cur \in Layers
          BY <3>1 DEF Inv, Typed, Placed, Past, Layers
        <4>2. \A z \in DOMAIN cache[cur] : cache[cur][z].state \in {"free", "resident"}
          BY <3>1, <4>1, NobodyHere, SlotsAreSlots DEF Inv, Typed, Past, SlotType, States
        <4>3. \A e \in todo' : ~Has(cur, e)
          BY <3>1, <4>2 DEF Has, Hit
        <4> QED BY <1>1, <3>1, <4>3 DEF Missing, Has
      <3> QED BY <3>2, <3>3, <3>4
    <2> QED BY <2>1, <2>2, <2>3, <2>4, <2>5, <2>6, <2>7, <2>8
  <1> QED BY <1>2, <1>3, <1>4, <1>5 DEF Inv

(* A slot written with a whole expert, or with a label nobody else in the  *)
(* layer has, leaves the caches whole and without duplicates.              *)
LEMMA PutKeeps ==
    ASSUME Typed, HitsAreWhole, NoDuplicates,
           NEW l \in Layers, NEW z \in 1..(Len(cache[l]) + 1), NEW s \in SlotType, Put(l, z, s),
           s.state = "resident" => s.data = s.eid,
           \A y \in DOMAIN cache[l] :
               y # z /\ s.state # "free" /\ cache[l][y].state # "free" => cache[l][y].eid # s.eid
    PROVE  HitsAreWhole' /\ NoDuplicates'
  <1>1. /\ \A k \in Layers : k # l => cache'[k] = cache[k]
        /\ DOMAIN cache'[l] = DOMAIN cache[l] \cup {z}
        /\ cache'[l][z] = s
        /\ \A y \in DOMAIN cache[l] : y # z => cache'[l][y] = cache[l][y]
    BY PutWrites DEF Typed
  <1>2. ASSUME NEW k \in Layers, NEW y \in DOMAIN cache'[k], cache'[k][y].state = "resident"
        PROVE  cache'[k][y].data = cache'[k][y].eid
    BY <1>1, <1>2 DEF HitsAreWhole
  <1>3. ASSUME NEW k \in Layers, NEW y \in DOMAIN cache'[k], NEW x \in DOMAIN cache'[k],
               y # x, cache'[k][y].state # "free", cache'[k][x].state # "free"
        PROVE  cache'[k][y].eid # cache'[k][x].eid
    <2>1. CASE k # l
      BY <1>1, <1>3, <2>1 DEF NoDuplicates
    <2>2. CASE k = l /\ y = z
      BY <1>1, <1>3, <2>2
    <2>3. CASE k = l /\ x = z
      BY <1>1, <1>3, <2>3
    <2>4. CASE k = l /\ y # z /\ x # z
      BY <1>1, <1>3, <2>4 DEF NoDuplicates
    <2> QED BY <2>1, <2>2, <2>3, <2>4
  <1>4. HitsAreWhole'
    BY <1>2 DEF HitsAreWhole
  <1>5. NoDuplicates'
    BY <1>3 DEF NoDuplicates
  <1> QED BY <1>4, <1>5

(* A slot that no load owns may be overwritten with anything but a         *)
(* reservation: the loads still own what they owned.                       *)
LEMMA PutSpares ==
    ASSUME Typed, Placed, Owned, UNCHANGED <<load, uring>>,
           \A p \in Loads : Owns(p) => Busy(p),
           NEW l \in Layers, NEW z \in 1..(Len(cache[l]) + 1), NEW s \in SlotType, Put(l, z, s),
           s.state # "reserved",
           \A p \in Loads : Owns(p) => ~(load[p].layer = l /\ load[p].slot = z)
    PROVE  Owned'
  <1>1. /\ \A k \in Layers : k # l => cache'[k] = cache[k]
        /\ DOMAIN cache'[l] = DOMAIN cache[l] \cup {z}
        /\ cache'[l][z] = s
        /\ \A y \in DOMAIN cache[l] : y # z => cache'[l][y] = cache[l][y]
    BY PutWrites DEF Typed
  <1>2. \A p \in Loads : Owns(p)' <=> Owns(p)
    BY DEF Owns
  <1>3. ASSUME NEW p \in Loads, Owns(p)
        PROVE  /\ load[p].slot \in DOMAIN cache'[load[p].layer]
               /\ cache'[load[p].layer][load[p].slot].state = "reserved"
               /\ cache'[load[p].layer][load[p].slot].eid = load[p].eid
    <2>1. load[p].layer \in Layers
      BY <1>3 DEF Placed
    <2>2. CASE load[p].layer = l
      BY <1>1, <1>3, <2>2 DEF Owned
    <2>3. CASE load[p].layer # l
      BY <1>1, <1>3, <2>1, <2>3 DEF Owned
    <2> QED BY <2>2, <2>3
  <1>4. ASSUME NEW k \in Layers, NEW y \in DOMAIN cache'[k], cache'[k][y].state = "reserved"
        PROVE  \E p \in Loads : Owns(p) /\ load[p].layer = k /\ load[p].slot = y
    <2>1. y \in DOMAIN cache[k] /\ cache[k][y].state = "reserved"
      BY <1>1, <1>4
    <2> QED BY <2>1 DEF Owned
  <1>5. \A p, r \in Loads : p # r /\ Owns(p) /\ Owns(r) /\ load[p].layer = load[r].layer
          => load[p].slot # load[r].slot
    BY DEF Owned
  <1> QED BY <1>2, <1>3, <1>4, <1>5 DEF Owned

(* The promotion at the end of a block.                                    *)
LEMMA PromotePreserves == ASSUME Inv, NEW e \in todo, Promote(e) PROVE Inv'
  <1>1. mpc = "promote" /\ cur \in Layers /\ e \in Experts
    BY DEF Promote, Inv, Typed, Placed, Past, Layers
  <1>2. PICK z \in 1..(Len(cache[cur]) + 1) : Put(cur, z, Slot("resident", e, e))
    BY DEF Promote
  <1>3. UNCHANGED <<inflight, load, uring, cur, mpc, ecap>> /\ todo' = todo \ {e}
    BY DEF Promote
  <1> DEFINE s == Slot("resident", e, e)
  <1>4. s \in SlotType /\ s.state = "resident" /\ s.data = e /\ s.eid = e
    BY <1>1 DEF Slot, SlotType, States
  <1>5. \A y \in DOMAIN cache[cur] : cache[cur][y].state # "free" => cache[cur][y].eid # e
    BY <1>1 DEF Inv, Missing, Has
  <1>w. /\ cache' \in [Layers -> Seq(SlotType)]
        /\ DOMAIN cache'[cur] = DOMAIN cache[cur] \cup {z}
        /\ cache'[cur][z] = s
        /\ \A y \in DOMAIN cache[cur] : y # z => cache'[cur][y] = cache[cur][y]
    <2> HIDE DEF s
    <2>1. Put(cur, z, s)
      BY <1>2 DEF s
    <2> QED BY <1>1, <1>4, <2>1, PutWrites DEF Inv, Typed
  <1>6. HitsAreWhole' /\ NoDuplicates'
    <2> HIDE DEF s
    <2>1. Put(cur, z, s)
      BY <1>2 DEF s
    <2>2. \A y \in DOMAIN cache[cur] :
             y # z /\ s.state # "free" /\ cache[cur][y].state # "free" => cache[cur][y].eid # s.eid
      BY <1>4, <1>5
    <2> QED BY <1>1, <1>4, <2>1, <2>2, PutKeeps DEF Inv
  <1>7. Owned'
    <2> HIDE DEF s
    <2>1. Put(cur, z, s) /\ s.state # "reserved"
      BY <1>2, <1>4 DEF s
    <2>2. \A p \in Loads : (Owns(p) => Busy(p)) /\ (Owns(p) => load[p].layer # cur)
      BY <1>1, NobodyHere DEF Past
    <2> QED BY <1>1, <1>3, <1>4, <2>1, <2>2, PutSpares DEF Inv
  <1>8. Counted'
    BY <1>3 DEF Inv, Counted, BusyIn, Busy
  <1>9. Typed'
    BY <1>3, <1>w DEF Inv, Typed
  <1>10. Placed'
    BY <1>3 DEF Inv, Placed, Busy, Past
  <1>11. Missing'
    <2>1. ASSUME NEW f \in todo' PROVE ~Has(cur, f)'
      <3>1. f # e /\ ~Has(cur, f)
        BY <1>1, <1>3, <2>1 DEF Inv, Missing
      <3> QED BY <1>3, <1>4, <1>w, <3>1 DEF Has
    <2> QED BY <1>3, <2>1 DEF Missing
  <1> QED BY <1>6, <1>7, <1>8, <1>9, <1>10, <1>11 DEF Inv

(* rss_guard at the safe point.                                            *)
LEMMA DropSlotPreserves ==
    ASSUME Inv, NEW l \in Layers, NEW z \in DOMAIN cache[l], DropSlot(l, z) PROVE Inv'
  <1>1. /\ mpc = "safe" /\ Put(l, z, FreeSlot)
        /\ UNCHANGED <<inflight, load, uring, cur, mpc, ecap, todo>>
    BY DEF DropSlot, mainVars
  <1>2. FreeSlot \in SlotType /\ FreeSlot.state = "free"
    BY DEF FreeSlot, Slot, SlotType, States
  <1>3. z \in 1..(Len(cache[l]) + 1)
    <2>1. Len(cache[l]) \in Nat /\ DOMAIN cache[l] = 1..Len(cache[l])
      BY LenProperties DEF Inv, Typed
    <2> QED BY <2>1
  <1>4. \A p \in Loads : ~Busy(p) /\ ~Owns(p)
    BY <1>1, NobodyHere
  <1>5. HitsAreWhole' /\ NoDuplicates'
    BY <1>1, <1>2, <1>3, PutKeeps DEF Inv
  <1>6. Owned'
    BY <1>1, <1>2, <1>3, <1>4, PutSpares DEF Inv
  <1>7. Counted'
    BY <1>1 DEF Inv, Counted, BusyIn, Busy
  <1>8. Typed'
    BY <1>1, <1>2, <1>3, PutWrites DEF Inv, Typed
  <1>9. Placed'
    BY <1>1 DEF Inv, Placed, Busy, Past
  <1>10. Missing'
    BY <1>1 DEF Missing
  <1> QED BY <1>5, <1>6, <1>7, <1>8, <1>9, <1>10 DEF Inv

----------------------------------------------------------------------------
(* The pilot loads.                                                        *)

(* What a load knows of the slot it owns: it is a reserved slot of a layer *)
(* ahead of the main thread, under the load's expert, and no other load's. *)
LEMMA OwnerKnows ==
    ASSUME Inv, NEW p \in Loads, Owns(p)
    PROVE  /\ load[p].layer \in Layers /\ load[p].eid \in Experts
           /\ load[p].slot \in DOMAIN cache[load[p].layer]
           /\ load[p].slot \in 1..(Len(cache[load[p].layer]) + 1)
           /\ cache[load[p].layer][load[p].slot].state = "reserved"
           /\ cache[load[p].layer][load[p].slot].eid = load[p].eid
           /\ mpc \in Past => load[p].layer # cur
  <1>1. Busy(p)
    BY NobodyHere
  <1>2. load[p].layer \in Layers /\ load[p].eid \in Experts /\ (mpc \in Past => load[p].layer # cur)
    BY <1>1, NobodyHere DEF Inv, Placed
  <1>3. /\ load[p].slot \in DOMAIN cache[load[p].layer]
        /\ cache[load[p].layer][load[p].slot].state = "reserved"
        /\ cache[load[p].layer][load[p].slot].eid = load[p].eid
    BY DEF Inv, Owned
  <1>4. load[p].slot \in 1..(Len(cache[load[p].layer]) + 1)
    <2>1. /\ Len(cache[load[p].layer]) \in Nat
          /\ DOMAIN cache[load[p].layer] = 1..Len(cache[load[p].layer])
      BY <1>2, LenProperties DEF Inv, Typed
    <2> QED BY <1>3, <2>1
  <1> QED BY <1>2, <1>3, <1>4

(* A load writes the slot it owns: as a reservation if it goes on owning   *)
(* it, else whole or free.                                                 *)
LEMMA OwnerWrites ==
    ASSUME Inv, NEW p \in Loads, Owns(p), NEW n \in LoadType, NEW s \in SlotType,
           Put(load[p].layer, load[p].slot, s), load' = [load EXCEPT ![p] = n],
           UNCHANGED <<uring, cur, mpc, todo>>,
           s.state # "free" => s.eid = load[p].eid,
           s.state = "resident" => s.data = s.eid,
           Owns(p)' => /\ n.layer = load[p].layer /\ n.slot = load[p].slot
                       /\ n.eid = load[p].eid /\ s.state = "reserved",
           ~Owns(p)' => s.state # "reserved"
    PROVE  /\ cache' \in [Layers -> Seq(SlotType)] /\ load' \in [Loads -> LoadType]
           /\ Owned' /\ HitsAreWhole' /\ NoDuplicates' /\ Missing'
  <1> DEFINE l == load[p].layer
             z == load[p].slot
  <1>1. /\ l \in Layers /\ load[p].eid \in Experts
        /\ z \in DOMAIN cache[l]
        /\ z \in 1..(Len(cache[l]) + 1)
        /\ cache[l][z].state = "reserved"
        /\ cache[l][z].eid = load[p].eid
        /\ mpc \in Past => l # cur
    BY OwnerKnows
  <1>2. Put(l, z, s)
    OBVIOUS
  <1>a. \A q \in Loads : Owns(q) /\ q # p => ~(load[q].layer = l /\ load[q].slot = z)
    BY DEF Inv, Owned
  <1>b. load' \in [Loads -> LoadType] /\ load'[p] = n /\ \A q \in Loads : q # p => load'[q] = load[q]
    BY DEF Inv, Typed
  <1>c. \A q \in Loads : q # p => (Owns(q)' <=> Owns(q))
    BY <1>b DEF Owns
  <1>d. Owns(p)' => n.layer = l /\ n.slot = z
    OBVIOUS
  <1> HIDE DEF l, z
  <1>3. /\ cache' \in [Layers -> Seq(SlotType)]
        /\ \A k \in Layers : k # l => cache'[k] = cache[k]
        /\ DOMAIN cache'[l] = DOMAIN cache[l] \cup {z}
        /\ cache'[l][z] = s
        /\ \A y \in DOMAIN cache[l] : y # z => cache'[l][y] = cache[l][y]
    BY <1>1, <1>2, PutWrites DEF Inv, Typed
  <1>4. HitsAreWhole' /\ NoDuplicates'
    <2>1. \A y \in DOMAIN cache[l] :
             y # z /\ s.state # "free" /\ cache[l][y].state # "free" => cache[l][y].eid # s.eid
      BY <1>1 DEF Inv, NoDuplicates
    <2> QED BY <1>1, <1>2, <2>1, PutKeeps DEF Inv
  <1>5. Owned'
    <2>1. ASSUME NEW q \in Loads, Owns(q)'
          PROVE  /\ load'[q].slot \in DOMAIN cache'[load'[q].layer]
                 /\ cache'[load'[q].layer][load'[q].slot].state = "reserved"
                 /\ cache'[load'[q].layer][load'[q].slot].eid = load'[q].eid
      <3>1. CASE q = p
        BY <1>1, <1>3, <1>b, <1>d, <2>1, <3>1
      <3>2. CASE q # p
        <4>1. Owns(q) /\ load'[q] = load[q] /\ load[q].layer \in Layers
          BY <1>b, <1>c, <2>1, <3>2, OwnerKnows
        <4>2. /\ load[q].slot \in DOMAIN cache[load[q].layer]
              /\ cache[load[q].layer][load[q].slot].state = "reserved"
              /\ cache[load[q].layer][load[q].slot].eid = load[q].eid
          BY <4>1, OwnerKnows
        <4>3. CASE load[q].layer = l
          BY <1>3, <1>a, <3>2, <4>1, <4>2, <4>3
        <4>4. CASE load[q].layer # l
          BY <1>3, <4>1, <4>2, <4>4
        <4> QED BY <4>3, <4>4
      <3> QED BY <3>1, <3>2
    <2>2. ASSUME NEW q \in Loads, NEW r \in Loads, q # r, Owns(q)', Owns(r)',
                 load'[q].layer = load'[r].layer
          PROVE  load'[q].slot # load'[r].slot
      <3>1. CASE q # p /\ r # p
        BY <1>b, <1>c, <2>2, <3>1 DEF Inv, Owned
      <3>2. CASE q = p
        BY <1>a, <1>b, <1>c, <1>d, <2>2, <3>2
      <3>3. CASE r = p
        BY <1>a, <1>b, <1>c, <1>d, <2>2, <3>3
      <3> QED BY <3>1, <3>2, <3>3
    <2>3. ASSUME NEW k \in Layers, NEW y \in DOMAIN cache'[k], cache'[k][y].state = "reserved"
          PROVE  \E q \in Loads : Owns(q)' /\ load'[q].layer = k /\ load'[q].slot = y
      <3>1. CASE k = l /\ y = z
        BY <1>3, <1>b, <1>d, <2>3, <3>1
      <3>2. CASE ~(k = l /\ y = z)
        <4>1. y \in DOMAIN cache[k] /\ cache[k][y].state = "reserved"
          BY <1>3, <2>3, <3>2
        <4>2. PICK q \in Loads : Owns(q) /\ load[q].layer = k /\ load[q].slot = y
          BY <4>1 DEF Inv, Owned
        <4>3. q # p
          BY <3>2, <4>2 DEF l, z
        <4> QED BY <1>b, <1>c, <4>2, <4>3
      <3> QED BY <3>1, <3>2
    <2> QED BY <2>1, <2>2, <2>3 DEF Owned
  <1>6. Missing'
    <2>1. mpc \in {"matmul", "promote"} => cur \in Layers /\ cache'[cur] = cache[cur]
      BY <1>1, <1>3 DEF Inv, Typed, Placed, Past, Layers
    <2> QED BY <2>1 DEF Inv, Missing, Has
  <1> QED BY <1>3, <1>4, <1>5, <1>6, <1>b

(* A load that goes on in its layer is counted as before.                  *)
LEMMA StaysCounted ==
    ASSUME Inv, NEW p \in Loads, Busy(p), NEW n \in LoadType, n.at # "idle",
           n.layer = load[p].layer, n.eid = load[p].eid,
           load' = [load EXCEPT ![p] = n], UNCHANGED <<inflight, mpc, cur>>
    PROVE  Counted' /\ Placed'
  <1>1. load'[p] = n /\ \A q \in Loads : q # p => load'[q] = load[q]
    BY DEF Inv, Typed
  <1>2. \A q \in Loads : /\ Busy(q)' <=> Busy(q)
                         /\ load'[q].layer = load[q].layer /\ load'[q].eid = load[q].eid
    BY <1>1 DEF Busy
  <1>3. \A l \in Layers : BusyIn(l)' = BusyIn(l)
    BY <1>2 DEF BusyIn
  <1>4. Counted'
    BY <1>3 DEF Inv, Counted
  <1>5. Placed'
    BY <1>2 DEF Inv, Placed, Past
  <1> QED BY <1>4, <1>5

----------------------------------------------------------------------------
(* A hint becomes a load: the slot it takes is new, free or resident, so   *)
(* no other load owns it.                                                  *)
LEMMA ReservePreserves ==
    ASSUME Inv, NEW p \in Loads, NEW l \in Layers, NEW e \in Experts, Reserve(p, l, e)
    PROVE  Inv'
  <1>1. /\ load[p].at = "idle" /\ l > cur /\ ~Has(l, e) /\ l \in Nat
        /\ inflight' = [inflight EXCEPT ![l] = @ + 1]
        /\ UNCHANGED <<cur, mpc, use, todo, ecap, uring>>
    BY ExpertCacheAssumption DEF Reserve, mainVars, Layers
  <1>2. PICK z \in 1..(Len(cache[l]) + 1) :
            /\ IF Grows(l) THEN z = Len(cache[l]) + 1 ELSE z \in DOMAIN cache[l] /\ Victim(l, z)
            /\ Put(l, z, Slot("reserved", e, NoExpert))
            /\ load' = [load EXCEPT ![p] = [at |-> "reading", layer |-> l, slot |-> z, eid |-> e]]
    BY DEF Reserve
  <1> DEFINE s == Slot("reserved", e, NoExpert)
             n == [at |-> "reading", layer |-> l, slot |-> z, eid |-> e]
  <1>3. s \in SlotType /\ s.state = "reserved" /\ s.eid = e
    BY DEF Slot, SlotType, States
  <1>4. n \in LoadType /\ n.at = "reading" /\ n.layer = l /\ n.slot = z /\ n.eid = e
    BY <1>1, <1>2, ExpertCacheAssumption DEF LoadType, Layers
  <1>5. Len(cache[l]) \in Nat /\ DOMAIN cache[l] = 1..Len(cache[l])
    BY LenProperties DEF Inv, Typed
  <1>6. z \in DOMAIN cache[l] => cache[l][z].state # "reserved"
    BY <1>2, <1>5 DEF Victim
  <1>7. Put(l, z, s) /\ load' = [load EXCEPT ![p] = n]
    BY <1>2
  <1> HIDE DEF s, n
  <1>8. /\ cache' \in [Layers -> Seq(SlotType)]
        /\ \A k \in Layers : k # l => cache'[k] = cache[k]
        /\ DOMAIN cache'[l] = DOMAIN cache[l] \cup {z}
        /\ cache'[l][z] = s
        /\ \A y \in DOMAIN cache[l] : y # z => cache'[l][y] = cache[l][y]
    BY <1>3, <1>7, PutWrites DEF Inv, Typed
  <1>9. /\ load' \in [Loads -> LoadType] /\ load'[p] = n
        /\ \A q \in Loads : q # p => load'[q] = load[q]
    BY <1>4, <1>7 DEF Inv, Typed
  <1>10. /\ ~Busy(p) /\ ~Owns(p) /\ Busy(p)' /\ Owns(p)'
         /\ \A q \in Loads : q # p => (Busy(q)' <=> Busy(q)) /\ (Owns(q)' <=> Owns(q))
    BY <1>1, <1>4, <1>9 DEF Busy, Owns
  <1>11. \A q \in Loads : Owns(q) => ~(load[q].layer = l /\ load[q].slot = z)
    BY <1>6 DEF Inv, Owned
  <1>12. HitsAreWhole' /\ NoDuplicates'
    <2>1. \A y \in DOMAIN cache[l] :
             y # z /\ s.state # "free" /\ cache[l][y].state # "free" => cache[l][y].eid # s.eid
      BY <1>1, <1>3 DEF Has
    <2> QED BY <1>3, <1>7, <2>1, PutKeeps DEF Inv
  <1>13. Owned'
    <2>1. ASSUME NEW q \in Loads, Owns(q)'
          PROVE  /\ load'[q].slot \in DOMAIN cache'[load'[q].layer]
                 /\ cache'[load'[q].layer][load'[q].slot].state = "reserved"
                 /\ cache'[load'[q].layer][load'[q].slot].eid = load'[q].eid
      <3>1. CASE q = p
        BY <1>3, <1>4, <1>8, <1>9, <3>1
      <3>2. CASE q # p
        <4>1. Owns(q) /\ load'[q] = load[q] /\ load[q].layer \in Layers
          BY <1>9, <1>10, <2>1, <3>2, OwnerKnows
        <4>2. /\ load[q].slot \in DOMAIN cache[load[q].layer]
              /\ cache[load[q].layer][load[q].slot].state = "reserved"
              /\ cache[load[q].layer][load[q].slot].eid = load[q].eid
          BY <4>1, OwnerKnows
        <4>3. CASE load[q].layer = l
          BY <1>8, <1>11, <4>1, <4>2, <4>3
        <4>4. CASE load[q].layer # l
          BY <1>8, <4>1, <4>2, <4>4
        <4> QED BY <4>3, <4>4
      <3> QED BY <3>1, <3>2
    <2>2. ASSUME NEW q \in Loads, NEW r \in Loads, q # r, Owns(q)', Owns(r)',
                 load'[q].layer = load'[r].layer
          PROVE  load'[q].slot # load'[r].slot
      <3>1. CASE q # p /\ r # p
        BY <1>9, <1>10, <2>2, <3>1 DEF Inv, Owned
      <3>2. CASE q = p
        BY <1>4, <1>9, <1>10, <1>11, <2>2, <3>2
      <3>3. CASE r = p
        BY <1>4, <1>9, <1>10, <1>11, <2>2, <3>3
      <3> QED BY <3>1, <3>2, <3>3
    <2>3. ASSUME NEW k \in Layers, NEW y \in DOMAIN cache'[k], cache'[k][y].state = "reserved"
          PROVE  \E q \in Loads : Owns(q)' /\ load'[q].layer = k /\ load'[q].slot = y
      <3>1. CASE k = l /\ y = z
        BY <1>4, <1>9, <1>10, <3>1
      <3>2. CASE ~(k = l /\ y = z)
        <4>1. y \in DOMAIN cache[k] /\ cache[k][y].state = "reserved"
          BY <1>8, <2>3, <3>2
        <4>2. PICK q \in Loads : Owns(q) /\ load[q].layer = k /\ load[q].slot = y
          BY <4>1 DEF Inv, Owned
        <4>3. q # p
          BY <1>10, <4>2
        <4> QED BY <1>9, <1>10, <4>2, <4>3
      <3> QED BY <3>1, <3>2
    <2> QED BY <2>1, <2>2, <2>3 DEF Owned
  <1>14. Counted'
    <2>1. BusyIn(l)' = BusyIn(l) \cup {p} /\ p \notin BusyIn(l)
      BY <1>4, <1>9, <1>10 DEF BusyIn
    <2>2. \A k \in Layers : k # l => BusyIn(k)' = BusyIn(k)
      BY <1>4, <1>9, <1>10 DEF BusyIn
    <2>3. IsFiniteSet(BusyIn(l)) /\ Cardinality(BusyIn(l)) \in Nat
      BY ExpertCacheAssumption, FS_Subset, FS_CardinalityType DEF BusyIn
    <2>4. Cardinality(BusyIn(l)') = Cardinality(BusyIn(l)) + 1
      BY <2>1, <2>3, FS_AddElement
    <2> QED BY <1>1, <2>2, <2>4 DEF Inv, Counted, Typed
  <1>15. Typed'
    <2>1. inflight' \in [Layers -> Nat]
      BY <1>1 DEF Inv, Typed
    <2> QED BY <1>1, <1>8, <1>9, <2>1 DEF Inv, Typed
  <1>16. Placed'
    <2>1. \A q \in Loads : Busy(q)' =>
             /\ load'[q].layer \in Layers /\ load'[q].eid \in Experts
             /\ IF mpc = "barrier" THEN load'[q].layer >= cur ELSE load'[q].layer > cur
      <3>1. CASE mpc = "barrier"
        <4>1. l >= cur
          BY <1>1 DEF Inv, Typed
        <4> QED BY <1>4, <1>9, <1>10, <3>1, <4>1 DEF Inv, Placed
      <3>2. CASE mpc # "barrier"
        BY <1>1, <1>4, <1>9, <1>10, <3>2 DEF Inv, Placed
      <3> QED BY <3>1, <3>2
    <2> QED BY <1>1, <2>1 DEF Inv, Placed, Past
  <1>17. Missing'
    <2>1. mpc \in {"matmul", "promote"} => cur \in Layers /\ cache'[cur] = cache[cur]
      BY <1>1, <1>8 DEF Inv, Typed, Placed, Past, Layers
    <2> QED BY <1>1, <2>1 DEF Inv, Missing, Has
  <1> QED BY <1>12, <1>13, <1>14, <1>15, <1>16, <1>17 DEF Inv

(* The read ends: with io_uring the load goes on owning the slot, else it  *)
(* has published it whole.                                                 *)
LEMMA ReadDonePreserves == ASSUME Inv, NEW p \in Loads, ReadDone(p) PROVE Inv'
  <1> DEFINE ld == load[p]
             n == [ld EXCEPT !.at = "read"]
             s == Slot(IF uring THEN "reserved" ELSE "resident", ld.eid, ld.eid)
  <1>1. /\ ld.at = "reading" /\ Put(ld.layer, ld.slot, s)
        /\ UNCHANGED <<cur, inflight, mpc, use, todo, ecap, uring>>
    BY DEF ReadDone, mainVars
  <1>2. Busy(p) /\ Owns(p) /\ ld \in LoadType /\ uring \in BOOLEAN
    BY <1>1 DEF Busy, Owns, Inv, Typed
  <1>3. load' = [load EXCEPT ![p] = n]
    BY <1>2 DEF ReadDone, Inv, Typed
  <1>4. /\ n \in LoadType /\ n.at = "read" /\ n.layer = ld.layer /\ n.slot = ld.slot /\ n.eid = ld.eid
    BY <1>2 DEF LoadType
  <1>5. ld.eid \in Experts
    BY <1>2, OwnerKnows
  <1>6. /\ s \in SlotType /\ s.eid = ld.eid /\ s.data = ld.eid
        /\ s.state = IF uring THEN "reserved" ELSE "resident"
    BY <1>2, <1>5 DEF Slot, SlotType, States
  <1>7. load'[p] = n
    BY <1>3 DEF Inv, Typed
  <1>8. Owns(p)' <=> uring
    BY <1>1, <1>4, <1>7 DEF Owns
  <1> HIDE DEF n, s
  <1>9. /\ cache' \in [Layers -> Seq(SlotType)] /\ load' \in [Loads -> LoadType]
        /\ Owned' /\ HitsAreWhole' /\ NoDuplicates' /\ Missing'
    BY <1>1, <1>2, <1>3, <1>4, <1>6, <1>8, OwnerWrites
  <1>10. Counted' /\ Placed'
    BY <1>1, <1>2, <1>3, <1>4, StaysCounted
  <1>11. Typed'
    BY <1>1, <1>9 DEF Inv, Typed
  <1> QED BY <1>9, <1>10, <1>11 DEF Inv

(* A failed load keeps its reservation until it settles.                   *)
LEMMA ReadFailsPreserves == ASSUME Inv, NEW p \in Loads, ReadFails(p) PROVE Inv'
  <1> DEFINE n == [load[p] EXCEPT !.at = "failed"]
  <1>1. load[p].at = "reading" /\ UNCHANGED <<cache, cur, inflight, mpc, use, todo, ecap, uring>>
    BY DEF ReadFails, mainVars
  <1>2. Busy(p) /\ Owns(p) /\ load[p] \in LoadType
    BY <1>1 DEF Busy, Owns, Inv, Typed
  <1>3. load' = [load EXCEPT ![p] = n]
    BY <1>2 DEF ReadFails, Inv, Typed
  <1>4. /\ n \in LoadType /\ n.at = "failed"
        /\ n.layer = load[p].layer /\ n.slot = load[p].slot /\ n.eid = load[p].eid
    BY <1>2 DEF LoadType
  <1> HIDE DEF n
  <1>5. /\ load' \in [Loads -> LoadType] /\ load'[p] = n
        /\ \A q \in Loads : q # p => load'[q] = load[q]
    BY <1>3, <1>4 DEF Inv, Typed
  <1>6. \A q \in Loads : /\ Owns(q)' <=> Owns(q)
                         /\ load'[q].layer = load[q].layer /\ load'[q].slot = load[q].slot
                         /\ load'[q].eid = load[q].eid
    BY <1>1, <1>2, <1>4, <1>5 DEF Owns
  <1>7. Owned'
    BY <1>1, <1>6 DEF Inv, Owned
  <1>8. Counted' /\ Placed'
    BY <1>1, <1>2, <1>3, <1>4, StaysCounted
  <1>9. Typed' /\ HitsAreWhole' /\ NoDuplicates' /\ Missing'
    BY <1>1, <1>5 DEF Inv, Typed, HitsAreWhole, NoDuplicates, Missing, Has
  <1> QED BY <1>7, <1>8, <1>9 DEF Inv

(* A load settles: it publishes or frees the slot if it still owns it, and *)
(* is no longer counted.                                                   *)
LEMMA SettlePreserves == ASSUME Inv, NEW p \in Loads, Settle(p) PROVE Inv'
  <1> DEFINE ld == load[p]
  <1>1. /\ ld.at \in {"read", "failed"}
        /\ inflight' = [inflight EXCEPT ![ld.layer] = @ - 1]
        /\ load' = [load EXCEPT ![p] = NoLoad]
        /\ UNCHANGED <<cur, mpc, use, todo, ecap, uring>>
    BY DEF Settle, mainVars
  <1>2. Busy(p) /\ ld \in LoadType /\ uring \in BOOLEAN /\ ld.layer \in Layers /\ ld.eid \in Experts
    BY <1>1 DEF Busy, Inv, Typed, Placed
  <1>3. NoLoad \in LoadType /\ NoLoad.at = "idle"
    BY ExpertCacheAssumption DEF NoLoad, LoadType
  <1>4. /\ load' \in [Loads -> LoadType] /\ load'[p] = NoLoad
        /\ \A q \in Loads : q # p => load'[q] = load[q]
    BY <1>1, <1>3 DEF Inv, Typed
  <1>5. /\ ~Busy(p)' /\ ~Owns(p)'
        /\ \A q \in Loads : q # p => (Busy(q)' <=> Busy(q)) /\ (Owns(q)' <=> Owns(q))
    BY <1>1, <1>3, <1>4 DEF Busy, Owns
  <1>6. /\ cache' \in [Layers -> Seq(SlotType)]
        /\ Owned' /\ HitsAreWhole' /\ NoDuplicates' /\ Missing'
    <2>1. CASE ld.at = "failed"
      <3>1. Owns(p) /\ Put(ld.layer, ld.slot, FreeSlot)
        BY <2>1 DEF Owns, Settle
      <3>2. FreeSlot \in SlotType /\ FreeSlot.state = "free"
        BY DEF FreeSlot, Slot, SlotType, States
      <3> QED BY <1>1, <1>3, <1>5, <3>1, <3>2, OwnerWrites
    <2>2. CASE ld.at = "read" /\ uring
      <3> DEFINE s == Slot("resident", ld.eid, ld.eid)
      <3>1. Owns(p) /\ Put(ld.layer, ld.slot, s)
        BY <2>2 DEF Owns, Settle
      <3>2. s \in SlotType /\ s.state = "resident" /\ s.eid = ld.eid /\ s.data = ld.eid
        BY <1>2 DEF Slot, SlotType, States
      <3> HIDE DEF s
      <3> QED BY <1>1, <1>3, <1>5, <3>1, <3>2, OwnerWrites
    <2>3. CASE ld.at = "read" /\ ~uring
      <3>1. UNCHANGED cache /\ ~Owns(p)
        BY <2>3 DEF Settle, Owns
      <3>2. \A q \in Loads : Owns(q)' <=> Owns(q)
        BY <1>5, <3>1
      <3>3. \A q \in Loads : Owns(q) => load'[q] = load[q]
        BY <1>4, <3>1
      <3>4. Owned'
        BY <3>1, <3>2, <3>3 DEF Inv, Owned
      <3> QED BY <1>1, <3>1, <3>4 DEF Inv, Typed, HitsAreWhole, NoDuplicates, Missing, Has
    <2> QED BY <1>1, <1>2, <2>1, <2>2, <2>3
  <1>7. Counted' /\ inflight' \in [Layers -> Nat]
    <2>0. PICK l \in Layers : l = load[p].layer
      BY <1>2
    <2>1. BusyIn(l)' = BusyIn(l) \ {p} /\ p \in BusyIn(l)
      BY <1>2, <1>4, <1>5, <2>0 DEF BusyIn
    <2>2. \A k \in Layers : k # l => BusyIn(k)' = BusyIn(k)
      BY <1>2, <1>4, <1>5, <2>0 DEF BusyIn
    <2>3. IsFiniteSet(BusyIn(l)) /\ Cardinality(BusyIn(l)) \in Nat
      BY ExpertCacheAssumption, FS_Subset, FS_CardinalityType DEF BusyIn
    <2>4. Cardinality(BusyIn(l)') = Cardinality(BusyIn(l)) - 1 /\ Cardinality(BusyIn(l)) # 0
      BY <2>1, <2>3, FS_RemoveElement, FS_EmptySet
    <2>5. inflight[l] = Cardinality(BusyIn(l)) /\ inflight'[l] = Cardinality(BusyIn(l)')
      BY <1>1, <2>0, <2>4 DEF Inv, Counted, Typed
    <2>6. inflight[l] - 1 \in Nat
      BY <2>3, <2>4, <2>5
    <2>7. inflight' \in [Layers -> Nat] /\ \A k \in Layers : k # l => inflight'[k] = inflight[k]
      BY <1>1, <2>0, <2>6 DEF Inv, Typed
    <2> QED BY <2>2, <2>5, <2>7 DEF Inv, Counted
  <1>8. Typed'
    BY <1>1, <1>4, <1>6, <1>7 DEF Inv, Typed
  <1>9. Placed'
    BY <1>1, <1>4, <1>5 DEF Inv, Placed, Past
  <1> QED BY <1>6, <1>7, <1>8, <1>9 DEF Inv

----------------------------------------------------------------------------
(* Every step preserves the invariant.                                     *)
LEMMA NextInv == Inv /\ [Next]_vars => Inv'
  <1> SUFFICES ASSUME Inv, [Next]_vars PROVE Inv'
    OBVIOUS
  <1>1. CASE \/ EnterMoe \/ PassBarrier \/ Matmul \/ NextBlock \/ LeaveMoe \/ NewForward \/ LowerCap
             \/ \E routed \in SUBSET Experts : Resolve(routed)
    BY <1>1, StillPreserves
  <1>2. ASSUME NEW e \in todo, Promote(e) PROVE Inv'
    BY <1>2, PromotePreserves
  <1>3. ASSUME NEW l \in Layers, NEW z \in DOMAIN cache[l], DropSlot(l, z) PROVE Inv'
    BY <1>3, DropSlotPreserves
  <1>4. ASSUME NEW p \in Loads, NEW l \in Layers, NEW e \in Experts, Reserve(p, l, e) PROVE Inv'
    BY <1>4, ReservePreserves
  <1>5. ASSUME NEW p \in Loads, ReadDone(p) \/ ReadFails(p) \/ Settle(p) PROVE Inv'
    BY <1>5, ReadDonePreserves, ReadFailsPreserves, SettlePreserves
  <1>6. CASE UNCHANGED vars
    BY <1>6 DEF vars, mainVars, Inv, Typed, Placed, Past, Counted, BusyIn, Busy, Owned, Owns,
                HitsAreWhole, NoDuplicates, Missing, Has
  <1> QED BY <1>1, <1>2, <1>3, <1>4, <1>5, <1>6 DEF Next, Main, Pilot

(* The invariant holds in every reachable state.                           *)
LEMMA AlwaysInv == Spec => []Inv
  BY InitInv, NextInv, PTL DEF Spec

----------------------------------------------------------------------------
(* The results.                                                            *)

(* Every reachable state has its type; g_pilot_inflight never exceeds the  *)
(* number of loads, and ecap stays between its floor and its start.        *)
THEOREM TypeCorrect == Spec => []TypeOK
  <1>1. Inv => TypeOK
    <2> SUFFICES ASSUME Inv PROVE TypeOK
      OBVIOUS
    <2>1. \A l \in Layers : inflight[l] \in 0..Cardinality(Loads)
      <3> SUFFICES ASSUME NEW l \in Layers PROVE inflight[l] \in 0..Cardinality(Loads)
        OBVIOUS
      <3>1. Cardinality(BusyIn(l)) <= Cardinality(Loads) /\ Cardinality(BusyIn(l)) \in Nat
        BY ExpertCacheAssumption, FS_Subset, FS_CardinalityType DEF BusyIn
      <3>2. Cardinality(Loads) \in Nat
        BY ExpertCacheAssumption, FS_CardinalityType
      <3> QED BY <3>1, <3>2 DEF Inv, Counted
    <2>2. inflight \in [Layers -> 0..Cardinality(Loads)]
      BY <2>1 DEF Inv, Typed
    <2>3. \A p \in Loads : load[p].at \in {"idle", "reading", "read", "failed"}
      BY DEF Inv, Typed, LoadType
    <2> QED BY <2>2, <2>3 DEF Inv, Typed, TypeOK, SlotType, States
  <1> QED BY <1>1, AlwaysInv, PTL

(* The barrier of moe() and the safe point of rss_guard keep what the      *)
(* handshake comment promises: while the main thread resolves, multiplies  *)
(* and promotes in a layer no pilot load is in flight there, and none at   *)
(* all at the safe point.                                                  *)
THEOREM LayerIsSafe == Spec => []LayerIsOurs
  <1>1. Inv => LayerIsOurs
    BY NobodyHere DEF LayerIsOurs, Busy
  <1> QED BY <1>1, AlwaysInv, PTL

(* A hit in ecache never finds a slab that is half read, or another        *)
(* expert's.                                                               *)
THEOREM HitsAreCorrect == Spec => []HitsAreWhole
  <1>1. Inv => HitsAreWhole
    BY DEF Inv
  <1> QED BY <1>1, AlwaysInv, PTL

(* The re-check under g_pilot_mx keeps every expert in one slot of a layer *)
(* at most, resident or on its way.                                        *)
THEOREM ExpertsAreUnique == Spec => []NoDuplicates
  <1>1. Inv => NoDuplicates
    BY DEF Inv
  <1> QED BY <1>1, AlwaysInv, PTL

(* No reservation is left behind, and no two loads read into one slab.     *)
THEOREM SlabsAreExclusive == Spec => []OneLoadPerSlab
  <1>1. Inv => OneLoadPerSlab
    BY NobodyHere DEF OneLoadPerSlab, Inv, Owned, Owns, Busy
  <1> QED BY <1>1, AlwaysInv, PTL

(* Between the barrier and the promotion no step of any thread changes the *)
(* cache the matmul reads from.                                            *)
THEOREM MatmulIsUndisturbed == Spec => CacheIsStable
  <1>1. Inv /\ [Next]_vars => [(mpc \in {"resolve", "matmul"}) => cache'[cur] = cache[cur]]_vars
    <2> SUFFICES ASSUME Inv, Next, mpc \in {"resolve", "matmul"}
                 PROVE  cache'[cur] = cache[cur]
      OBVIOUS
    <2>0. cur \in Layers /\ mpc \in Past
      BY DEF Inv, Typed, Placed, Past, Layers
    <2>1. \A l \in Layers, z \in Nat, s \in SlotType :
             Put(l, z, s) /\ l # cur => cache'[cur] = cache[cur]
      BY <2>0 DEF Put, Inv, Typed
    <2>2. CASE \/ EnterMoe \/ PassBarrier \/ Matmul \/ NextBlock \/ LeaveMoe \/ NewForward \/ LowerCap
               \/ \E routed \in SUBSET Experts : Resolve(routed)
      BY <2>2 DEF EnterMoe, PassBarrier, Matmul, NextBlock, LeaveMoe, NewForward, LowerCap, Resolve
    <2>3. CASE \/ \E e \in todo : Promote(e)
               \/ \E l \in Layers : \E z \in DOMAIN cache[l] : DropSlot(l, z)
      BY <2>3 DEF Promote, DropSlot
    <2>4. ASSUME NEW p \in Loads, NEW l \in Layers, NEW e \in Experts, Reserve(p, l, e)
          PROVE  cache'[cur] = cache[cur]
      <3>1. l # cur
        BY <2>4 DEF Reserve, Inv, Typed, Layers
      <3> QED BY <2>0, <2>4, <3>1 DEF Reserve, Put, Inv, Typed
    <2>5. ASSUME NEW p \in Loads, ReadDone(p) \/ ReadFails(p) \/ Settle(p)
          PROVE  cache'[cur] = cache[cur]
      <3>1. Busy(p)
        BY <2>5 DEF ReadDone, ReadFails, Settle, Busy
      <3>2. load[p].layer \in Layers /\ load[p].layer # cur
        BY <2>0, <3>1, NobodyHere DEF Inv, Placed
      <3> QED BY <2>0, <2>5, <3>2 DEF ReadDone, ReadFails, Settle, Put, Inv, Typed
    <2> QED BY <2>2, <2>3, <2>4, <2>5 DEF Next, Main, Pilot
  <1> QED BY <1>1, AlwaysInv, PTL DEF CacheIsStable, Spec
=============================================================================
