------------------------------- MODULE HotStore -------------------------------
(***************************************************************************)
(* The hot store of c/colibri.c: the experts pinned at start-up from the   *)
(* history of earlier runs (pin_load), some of them on a GPU with or       *)
(* without a copy in RAM, and the passes that re-pin between turns         *)
(* (repin_pass), by the recent heat of the experts (tier.h).               *)
(*                                                                         *)
(* A pin's bytes are not modelled (ExpertLoad does that): host and dev say *)
(* which expert its RAM copy and its device copy are of.  Every expert     *)
(* takes one unit of memory.                                               *)
(***************************************************************************)
EXTENDS Integers, Sequences, FiniteSets, SequencesExt

CONSTANTS Layers,      \* 1..n: the layers with routed experts
          Experts,     \* 0..n-1
          Unit,        \* score of one access (256)
          Margin,      \* accesses of hysteresis (4)
          PinMax,      \* pins the RAM budget allows
          Devices, DeviceRoom,  \* GPUs, and the experts each has room for
          Stage,       \* experts of one round of the staged prefix
          MaxPasses, MaxClock  \* the bounds of the model

NoExpert == -1
NoDevice == "none"
Pair == Layers \X Experts

ASSUME HotStoreAssumption ==
    /\ IsFiniteSet(Layers) /\ Layers # {} /\ Layers = 1..Cardinality(Layers)
    /\ IsFiniteSet(Experts) /\ Experts # {} /\ Experts = 0..(Cardinality(Experts) - 1)
    /\ Unit \in Nat \ {0} /\ Margin \in Nat \ {0}
    /\ PinMax \in Nat \ {0} /\ Stage \in Nat \ {0}
    /\ IsFiniteSet(Devices) /\ NoDevice \notin Devices /\ DeviceRoom \in [Devices -> Nat]
    /\ MaxPasses \in Nat /\ MaxClock \in Nat

VARIABLES
    gpu,     \* the process: whether it has devices, and releases the host copies
    pin,     \* layer -> its pins: eid, device or NoDevice, dev and host
    heat, last, clock,  \* eheat, elast, eaccess_clock
    boot,    \* pin_load: the ranked experts, how many are pinned how many of
             \* them are the VRAM-ranked prefix, how far it has come and the end of
             \* the round
    room,    \* remaining[]: what pin_load believes each device has left
    passes,
    out      \* history: experts a pass has evicted and no token has used since

hotVars == <<gpu, pin, heat, last, clock, boot, room, passes, out>>

Slot(e) == [eid |-> e, device |-> NoDevice, dev |-> NoExpert, host |-> NoExpert]
OnGpu(s) == s.device # NoDevice

----------------------------------------------------------------------------
(* tier.h.                                                                 *)

Recency(l, e) == IF clock - last[l][e] < Unit - 1 THEN Unit - 1 - (clock - last[l][e]) ELSE 0
Score(l, e) == heat[l][e] * Unit + Recency(l, e)

Pinned(l) == {pin[l][z].eid : z \in DOMAIN pin[l]}

\* tier_pick_lfru: the first pin with the least score, and the first expert
\* that is not pinned with the greatest.
Coldest(l) ==
    CHOOSE z \in DOMAIN pin[l] : \A y \in DOMAIN pin[l] :
        \/ Score(l, pin[l][z].eid) < Score(l, pin[l][y].eid)
        \/ Score(l, pin[l][z].eid) = Score(l, pin[l][y].eid) /\ z <= y

Hottest(l) ==
    CHOOSE e \in Experts \ Pinned(l) : \A f \in Experts \ Pinned(l) :
        \/ Score(l, e) > Score(l, f)
        \/ Score(l, e) = Score(l, f) /\ e <= f

\* Mutant: any expert that is not colder is worth a swap.
AtLeast(hs, cs) == hs >= cs

\* A quarter of the score, and Margin accesses more.
Exceeds(hs, cs) == hs > cs + cs \div 4 + Margin * Unit

WantsAdmission(l) ==
    /\ pin[l] # <<>> /\ Experts \ Pinned(l) # {}
    /\ Exceeds(Score(l, Hottest(l)), Score(l, pin[l][Coldest(l)].eid))

\* repin_pick: the coldest pin on a device against the hottest one that is
\* not, before any expert from the disk.
GpuPins(l) == {z \in DOMAIN pin[l] : OnGpu(pin[l][z])}
RamPins(l) == DOMAIN pin[l] \ GpuPins(l)
HeatOf(l, z) == heat[l][pin[l][z].eid]

ColdOnGpu(l) == CHOOSE z \in GpuPins(l) : \A y \in GpuPins(l) :
                    HeatOf(l, z) < HeatOf(l, y) \/ (HeatOf(l, z) = HeatOf(l, y) /\ z <= y)
HotInRam(l) == CHOOSE z \in RamPins(l) : \A y \in RamPins(l) :
                    HeatOf(l, z) > HeatOf(l, y) \/ (HeatOf(l, z) = HeatOf(l, y) /\ z <= y)

WantsSwap(l) ==
    /\ gpu.has /\ GpuPins(l) # {} /\ RamPins(l) # {}
    /\ HeatOf(l, HotInRam(l)) > HeatOf(l, ColdOnGpu(l)) + 1

Gain(l) ==
    IF WantsSwap(l) THEN HeatOf(l, HotInRam(l)) - HeatOf(l, ColdOnGpu(l))
    ELSE (Score(l, Hottest(l)) - Score(l, pin[l][Coldest(l)].eid)) \div Unit

\* The pass keeps the candidates of the greatest gain: a full list gives up
\* its first least one for a better one.
Kept(list, l, limit) ==
    IF Len(list) < limit THEN Append(list, l)
    ELSE LET w == CHOOSE i \in DOMAIN list : \A j \in DOMAIN list :
                      Gain(list[i]) < Gain(list[j]) \/ (Gain(list[i]) = Gain(list[j]) /\ i <= j)
         IN IF Gain(l) > Gain(list[w]) THEN [list EXCEPT ![w] = l] ELSE list

Wanting == {l \in Layers : WantsSwap(l) \/ WantsAdmission(l)}

\* The layers of the pass: one candidate each.
Shortlist(limit) ==
    FoldLeft(LAMBDA acc, l : IF l \in Wanting THEN Kept(acc, l, limit) ELSE acc,
             <<>>, [i \in 1..Cardinality(Layers) |-> i])
Picks(limit) == Wanting \cap ToSet(Shortlist(limit))

----------------------------------------------------------------------------
(* pin_load.                                                               *)

Unread == [at |-> "start", rank |-> <<>>, n |-> 0, prefix |-> 0, base |-> 0, end |-> 0]

HotInit ==
    /\ gpu \in [has : BOOLEAN, release : BOOLEAN]
    /\ gpu.has \/ ~gpu.release
    /\ pin = [l \in Layers |-> <<>>]
    /\ heat = [l \in Layers |-> [e \in Experts |-> 0]]
    /\ last = [l \in Layers |-> [e \in Experts |-> 0]]
    /\ clock = 0
    /\ boot = Unread
    /\ room = DeviceRoom
    /\ passes = 0
    /\ out = {}

Smaller(a, b) == IF a < b THEN a ELSE b
TotalRoom == Cardinality(UNION {{d} \X (1..DeviceRoom[d]) : d \in Devices})

\* s: the places of a set, from the first to the last.
InOrder(s, places) ==
    /\ {s[z] : z \in DOMAIN s} = places
    /\ \A y, z \in DOMAIN s : y < z => s[y] < s[z]

\* The history ranks the experts it names, each once; the first npin are
\* pinned.  The prefix that goes to the devices costs no RAM when the host
\* copies are released, so it is added to the pins the RAM has room for.
ReadHistory(rank) ==
    /\ boot.at = "start"
    /\ LET prefix == IF gpu.release /\ TotalRoom > 0 THEN TotalRoom + Cardinality(Devices) ELSE 0
           n == Smaller(PinMax + prefix, Len(rank))
       IN /\ boot' = [at |-> "load", rank |-> rank, n |-> n, prefix |-> Smaller(prefix, n), base |-> 0,
                       end |-> 0]
          /\ \E mine \in [Layers -> UNION {[1..k -> 1..n] : k \in 0..n}] :
                 /\ \A l \in Layers : InOrder(mine[l], {a \in 1..n : rank[a][1] = l})
                 /\ pin' = [l \in Layers |-> [z \in DOMAIN mine[l] |-> Slot(rank[mine[l][z]][2])]]
    /\ UNCHANGED <<gpu, heat, last, clock, room, passes, out>>

\* The end of the first phase, and of the round that starts here.
First == IF boot.prefix > 0 THEN boot.prefix ELSE boot.n
RoundEnd == IF gpu.release /\ boot.prefix > 0 THEN Smaller(boot.base + Stage, First) ELSE First

LoadedBy(pairs, pins) ==
    [l \in Layers |-> [z \in DOMAIN pins[l] |->
        IF <<l, pins[l][z].eid>> \in pairs THEN [pins[l][z] EXCEPT !.host = pins[l][z].eid] ELSE pins[l][z]]]

\* A round is loaded in parallel, before any of it goes to a device.
LoadRound ==
    /\ boot.at = "load" /\ boot.base < First
    /\ pin' = LoadedBy({boot.rank[a] : a \in (boot.base + 1)..RoundEnd}, pin)
    /\ boot' = [boot EXCEPT !.at = "upload", !.end = RoundEnd]
    /\ UNCHANGED <<gpu, heat, last, clock, room, passes, out>>

Placed == Cardinality({p \in Pair : \E z \in DOMAIN pin[p[1]] : pin[p[1]][z].eid = p[2] /\ OnGpu(pin[p[1]][z])})

WithPin(p, f(_)) ==
    [pin EXCEPT ![p[1]] = [z \in DOMAIN @ |-> IF @[z].eid = p[2] THEN f(@[z]) ELSE @[z]]]

\* The devices are tried in turn; one that refuses what it seemed
\* to have room for gets nothing more.  refused: the devices that fail.
Upload(refused) ==
    /\ boot.at = "upload" /\ boot.base < boot.end
    /\ IF ~gpu.has \/ Placed >= TotalRoom
       THEN boot' = [boot EXCEPT !.at = "load", !.base = boot.end] /\ UNCHANGED <<pin, room>>
       ELSE LET fits == {d \in Devices : room[d] >= 1}
                takes == fits \ refused
            IN /\ refused \subseteq fits
               /\ \/ /\ takes # {}
                     /\ \E d \in takes :
                            /\ pin' = WithPin(boot.rank[boot.base + 1], LAMBDA s :
                                          [s EXCEPT !.device = d, !.dev = s.eid,
                                                    !.host = IF gpu.release THEN NoExpert ELSE @])
                            /\ room' = [e \in Devices |-> IF e \in refused THEN 0
                                                          ELSE IF e = d THEN room[e] - 1 ELSE room[e]]
                  \/ /\ takes = {}
                     /\ room' = [e \in Devices |-> IF e \in refused THEN 0 ELSE room[e]]
                     /\ UNCHANGED pin
               /\ boot' = [boot EXCEPT !.base = @ + 1,
                                       !.at = IF boot.base + 1 = boot.end THEN "load" ELSE "upload"]
    /\ UNCHANGED <<gpu, heat, last, clock, passes, out>>

LoadRest ==
    /\ boot.at = "load" /\ boot.base >= First
    /\ pin' = LoadedBy({boot.rank[a] : a \in (First + 1)..boot.n}, pin)
    /\ boot' = [Unread EXCEPT !.at = "serving"]
    /\ UNCHANGED <<gpu, heat, last, clock, room, passes, out>>

----------------------------------------------------------------------------
(* Serving.                                                                *)

\* moe uses an expert.  A pinned one whose device fails is computed from its
\* host copy, which is read again if it was released.
Use(l, e, deviceFails) ==
    /\ boot.at = "serving" /\ clock < MaxClock
    /\ heat' = [heat EXCEPT ![l][e] = @ + 1]
    /\ last' = [last EXCEPT ![l][e] = clock + 1]
    /\ clock' = clock + 1
    /\ deviceFails => \E z \in GpuPins(l) : pin[l][z].eid = e
    /\ pin' = IF deviceFails THEN WithPin(<<l, e>>, LAMBDA s : [s EXCEPT !.host = s.eid]) ELSE pin
    /\ out' = out \ {<<l, e>>}
    /\ UNCHANGED <<gpu, boot, room, passes>>

\* The two pins change places: the cold one gets its host copy back and gives
\* its device tensors to the hot one, which are then filled anew.
TierSwapped(l) ==
    LET cold == ColdOnGpu(l)
        hot == HotInRam(l)
    IN [z \in DOMAIN pin[l] |->
           CASE z = cold -> [pin[l][z] EXCEPT !.host = pin[l][z].eid, !.device = NoDevice, !.dev = NoExpert]
             [] z = hot -> [pin[l][z] EXCEPT !.device = pin[l][cold].device, !.dev = pin[l][z].eid,
                                             !.host = IF gpu.release THEN NoExpert ELSE @]
             [] OTHER -> pin[l][z]]

\* Mutant: the device keeps the tensors of the expert that leaves.
AdmittedStale(l, uploads) ==
    LET old == pin[l][Coldest(l)]
        kept == OnGpu(old) /\ uploads
    IN [pin[l] EXCEPT ![Coldest(l)] =
           [eid |-> Hottest(l), device |-> IF kept THEN old.device ELSE NoDevice,
            dev |-> IF kept THEN old.dev ELSE NoExpert,
            host |-> IF kept /\ gpu.release THEN NoExpert ELSE Hottest(l)]]

\* An expert from the disk takes the pin; a device copy is renewed at once,
\* and if the device refuses it the pin stays in RAM.
Admitted(l, uploads) ==
    LET old == pin[l][Coldest(l)]
        kept == OnGpu(old) /\ uploads
    IN [pin[l] EXCEPT ![Coldest(l)] =
           [eid |-> Hottest(l), device |-> IF kept THEN old.device ELSE NoDevice,
            dev |-> IF kept THEN Hottest(l) ELSE NoExpert,
            host |-> IF kept /\ gpu.release THEN NoExpert ELSE Hottest(l)]]

\* repin_pass_limit.  uploads: the layers whose upload, if there is one,
\* succeeds.  A failed update of a swap ends the process.
RepinPass(limit, uploads) ==
    /\ boot.at = "serving" /\ passes < MaxPasses
    /\ passes' = passes + 1
    /\ pin' = [l \in Layers |-> IF l \notin Picks(limit) THEN pin[l]
                                ELSE IF WantsSwap(l) THEN TierSwapped(l)
                                ELSE Admitted(l, l \in uploads)]
    /\ out' = out \union {<<l, pin[l][Coldest(l)].eid>> : l \in {k \in Picks(limit) : ~WantsSwap(k)}}
    /\ heat' = [l \in Layers |-> [e \in Experts |-> heat[l][e] \div 2]]
    /\ UNCHANGED <<gpu, last, clock, boot, room>>

Rankings == UNION {{f \in [1..n -> Pair] : IsInjective(f)} : n \in 1..Cardinality(Pair)}

HotNext ==
    \/ boot.at = "start" /\ \E rank \in Rankings : ReadHistory(rank)
    \/ LoadRound \/ LoadRest
    \/ \E refused \in SUBSET Devices : Upload(refused)
    \/ \E l \in Layers, e \in Experts, deviceFails \in BOOLEAN : Use(l, e, deviceFails)
    \/ \E limit \in 1..Cardinality(Layers), uploads \in SUBSET Layers : RepinPass(limit, uploads)

HotSpec == HotInit /\ [][HotNext]_hotVars

----------------------------------------------------------------------------
(* Properties.                                                             *)

Pins == [eid : Experts, device : Devices \union {NoDevice},
         dev : Experts \union {NoExpert}, host : Experts \union {NoExpert}]

HotTypeOK ==
    /\ gpu \in [has : BOOLEAN, release : BOOLEAN]
    /\ pin \in [Layers -> Seq(Pins)]
    /\ heat \in [Layers -> [Experts -> Nat]]
    /\ last \in [Layers -> [Experts -> Nat]]
    /\ clock \in Nat
    /\ boot.at \in {"start", "load", "upload", "serving"}
    /\ room \in [Devices -> Nat]
    /\ passes \in Nat
    /\ out \subseteq Pair

\* While serving, no two pins of a layer are of one expert, and each can be
\* computed: its copy in RAM is of its own expert, or there is none and the
\* one on its device is.
PinsAreUsable ==
    boot.at = "serving" =>
        \A l \in Layers : \A z \in DOMAIN pin[l] :
            /\ \A y \in DOMAIN pin[l] : pin[l][z].eid = pin[l][y].eid => z = y
            /\ OnGpu(pin[l][z]) => pin[l][z].dev = pin[l][z].eid
            /\ pin[l][z].host \in {pin[l][z].eid, NoExpert}
            /\ pin[l][z].host = NoExpert => OnGpu(pin[l][z])

\* Neither pin_load nor the passes put more on a device than it had room for.
DevicesFit ==
    \A d \in Devices :
        Cardinality({p \in Pair : \E z \in DOMAIN pin[p[1]] :
                        pin[p[1]][z].eid = p[2] /\ pin[p[1]][z].device = d}) <= DeviceRoom[d]

\* Hysteresis: an expert that a pass evicted does not come back before a
\* token has used it, however the heat decays and whatever the other experts
\* do: two passes never trade the same experts to and fro over the disk.
NoPingPong == \A l \in Layers : \A z \in DOMAIN pin[l] : <<l, pin[l][z].eid>> \notin out

HotStoreIsSound == HotTypeOK /\ PinsAreUsable /\ DevicesFit /\ NoPingPong
=============================================================================
