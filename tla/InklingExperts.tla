---------------------------- MODULE InklingExperts ----------------------------
(***************************************************************************)
(* The routed experts of a layer in c/inkling.c: pins taken from the usage *)
(* history at the start, then calls that work through their (position,     *)
(* expert) pairs in rounds of at most Cap pairs.  A round takes a slot for *)
(* every pair, evicting the least recently used one that is not pinned,    *)
(* fills the misses in parallel, and only then computes.                   *)
(***************************************************************************)
EXTENDS Naturals, Sequences, FiniteSets, SequencesExt

CONSTANTS Experts,      \* numbers of experts
          Cap,          \* slots of the layer's cache
          Reserve,      \* slots the pins leave alone: 8 in pins_load
          MaxPins,      \* bound on PIN_N
          MaxPositions, \* positions of a call
          TopK,         \* experts of a position
          MaxCalls,     \* bound on the calls
          NoExpert      \* a slot that holds no expert's bytes

InklingExpertsAssumption ==
    /\ IsFiniteSet(Experts) /\ NoExpert \notin Experts
    /\ Cap \in Nat \ {0} /\ Reserve \in Nat \ {0} /\ MaxPins \in Nat
    /\ MaxPositions \in Nat \ {0} /\ TopK \in 1..Cardinality(Experts) /\ MaxCalls \in Nat

VARIABLES
    at,      \* where the thread is
    slots,   \* the layer's slots: eid, data, pinned
    age,     \* the slots by used, the least recent first
    pairs,   \* the pairs of the call that no round has begun on
    round,   \* the round: its pairs, the slot of each so far, the slots to fill
    call,    \* the calls so far, what each position asked of this one, whether the pins leave room
    out      \* per position, what was added, as the slots held it

vars == <<at, slots, age, pairs, round, call, out>>

NoRound == [pairs |-> <<>>, use |-> <<>>, fill |-> {}]

Init ==
    /\ at = "boot" /\ slots = <<>> /\ age = <<>> /\ pairs = <<>> /\ round = NoRound
    /\ call = [n |-> 0, asked |-> <<>>, fits |-> TRUE] /\ out = <<>>

----------------------------------------------------------------------------
(* slot_find, slot_acquire, slot_fill.                                     *)
FoundAt(s, e) == {z \in DOMAIN s.slots : s.slots[z].eid = e}
Touched(s, z) == [s EXCEPT !.age = Append(SelectSeq(@, LAMBDA y : y # z), z)]
Evictable(s) == {z \in DOMAIN s.slots : ~s.slots[z].pinned}

\* The slot the expert e is put into: a new one, else the oldest loose one.
Acquired(s, e) ==
    LET taken == [eid |-> e, data |-> NoExpert, pinned |-> FALSE] IN
    IF Len(s.slots) < Cap
    THEN Touched([s EXCEPT !.slots = Append(@, taken)], Len(s.slots) + 1)
    ELSE LET z == SelectSeq(s.age, LAMBDA y : y \in Evictable(s))[1] IN
         Touched([s EXCEPT !.slots[z] = taken], z)

Cache == [slots |-> slots, age |-> age]
Filled(s, zs) == [z \in DOMAIN s |-> IF z \in zs THEN [s[z] EXCEPT !.data = s[z].eid] ELSE s[z]]

(* pins_load: the most used experts of the history, which may be anyone's. *)
PinLimit(n) == IF Cap < Reserve THEN 0 ELSE IF n > Cap - Reserve THEN Cap - Reserve ELSE n

PinHot(ranking, n) ==
    /\ at = "boot"
    /\ LET hot == SubSeq(ranking, 1, IF PinLimit(n) < Len(ranking) THEN PinLimit(n) ELSE Len(ranking))
           s == FoldLeft(Acquired, Cache, hot)
       IN /\ slots' = [z \in DOMAIN s.slots |-> [Filled(s.slots, DOMAIN s.slots)[z] EXCEPT !.pinned = TRUE]]
          /\ age' = s.age
    /\ at' = "idle"
    /\ UNCHANGED <<pairs, round, call, out>>

----------------------------------------------------------------------------
(* moe.  TOPP keeps a prefix of the experts of a position; the pairs it    *)
(* drops still count towards the size of a round.                          *)
PairsOf(asked, kept) ==
    FlattenSeq([t \in DOMAIN asked |->
                    [k \in 1..TopK |-> [t |-> t, eid |-> asked[t][k], used |-> k <= kept[t]]]])

(* The distinct experts that need a slot no pin keeps, and whether those   *)
(* of every Cap pairs in turn find one: what the rounds rely on.           *)
Pinned == DOMAIN slots \ Evictable(Cache)
Loose(ps) == {ps[i].eid : i \in {i \in DOMAIN ps : ps[i].used}} \ {slots[z].eid : z \in Pinned}
Fits(ps) ==
    \A r \in 0..(Len(ps) \div Cap) :
        Cardinality(Loose(SubSeq(ps, r * Cap + 1, IF (r + 1) * Cap < Len(ps) THEN (r + 1) * Cap ELSE Len(ps))))
            <= Cap - Cardinality(Pinned)

Route(asked, kept) ==
    /\ at = "idle" /\ call.n < MaxCalls
    /\ pairs' = PairsOf(asked, kept)
    /\ call' = [n |-> call.n + 1, asked |-> [t \in DOMAIN asked |-> SubSeq(asked[t], 1, kept[t])],
                fits |-> Fits(PairsOf(asked, kept))]
    /\ out' = [t \in DOMAIN asked |-> <<>>]
    /\ at' = "take"
    /\ UNCHANGED <<slots, age, round>>

\* Mutant: one round for the whole call.
RoundLenAll(n) == n

\* The pairs of a round.
RoundLen(n) == IF n < Cap THEN n ELSE Cap

BeginRound ==
    /\ at = "take" /\ round.pairs = <<>> /\ pairs # <<>>
    /\ LET n == RoundLen(Len(pairs)) IN
       /\ round' = [NoRound EXCEPT !.pairs = SubSeq(pairs, 1, n)]
       /\ pairs' = SubSeq(pairs, n + 1, Len(pairs))
    /\ UNCHANGED <<at, slots, age, call, out>>

Now == Len(round.use) + 1

\* Mutant: a hit is not touched.
TakeUntouched ==
    /\ at = "take" /\ Now \in DOMAIN round.pairs
    /\ LET p == round.pairs[Now] found == FoundAt(Cache, p.eid) IN
       IF ~p.used \/ found # {}
       THEN /\ round' = [round EXCEPT !.use = Append(@, IF p.used THEN CHOOSE z \in found : TRUE ELSE 0)]
            /\ UNCHANGED <<slots, age>>
       ELSE LET s == Acquired(Cache, p.eid) IN
            /\ round' = [round EXCEPT !.use = Append(@, Last(s.age)), !.fill = @ \cup {Last(s.age)}]
            /\ slots' = s.slots /\ age' = s.age
    /\ UNCHANGED <<at, pairs, call, out>>

Take ==
    /\ at = "take" /\ Now \in DOMAIN round.pairs
    /\ LET p == round.pairs[Now] found == FoundAt(Cache, p.eid) IN
       IF ~p.used
       THEN round' = [round EXCEPT !.use = Append(@, 0)] /\ UNCHANGED <<slots, age>>
       ELSE LET missed == found = {}
                s == IF missed THEN Acquired(Cache, p.eid) ELSE Touched(Cache, CHOOSE z \in found : TRUE)
                z == Last(s.age)
            IN /\ round' = [round EXCEPT !.use = Append(@, z), !.fill = IF missed THEN @ \cup {z} ELSE @]
               /\ slots' = s.slots /\ age' = s.age
    /\ UNCHANGED <<at, pairs, call, out>>

\* The parallel burst: every slot is read for the expert it names by now.
Fill ==
    /\ at = "take" /\ round.pairs # <<>> /\ Len(round.use) = Len(round.pairs)
    /\ slots' = Filled(slots, round.fill)
    /\ at' = "apply"
    /\ UNCHANGED <<age, pairs, round, call, out>>

Apply ==
    /\ at = "apply"
    /\ out' = [t \in DOMAIN out |->
                  out[t] \o [i \in 1..Len(SelectSeq(round.pairs, LAMBDA p : p.t = t /\ p.used)) |->
                                slots[SelectSeq([j \in DOMAIN round.use |->
                                                   IF round.pairs[j].t = t THEN round.use[j] ELSE 0],
                                                LAMBDA z : z # 0)[i]].data]]
    /\ round' = NoRound
    /\ at' = IF pairs = <<>> THEN "idle" ELSE "take"
    /\ UNCHANGED <<slots, age, pairs, call>>

----------------------------------------------------------------------------
Lists(n) == {s \in [1..n -> Experts] : IsInjective(s)}

Next ==
    \/ /\ at = "boot"
       /\ \E m \in 0..Cardinality(Experts) : \E ranking \in Lists(m), n \in 0..MaxPins : PinHot(ranking, n)
    \/ /\ at = "idle" /\ call.n < MaxCalls
       /\ \E p \in 1..MaxPositions : \E asked \in [1..p -> Lists(TopK)], kept \in [1..p -> 1..TopK] :
              Route(asked, kept)
    \/ BeginRound \/ Take \/ Fill \/ Apply

Spec == Init /\ [][Next]_vars

----------------------------------------------------------------------------
TypeOK ==
    /\ at \in {"boot", "idle", "take", "apply"}
    /\ Len(slots) <= Cap /\ Len(age) = Len(slots) /\ ToSet(age) = DOMAIN slots
    /\ \A z \in DOMAIN slots : slots[z].eid \in Experts /\ slots[z].data \in Experts \cup {NoExpert}
    /\ round.fill \subseteq DOMAIN slots

\* Every position of a finished call was given the experts it kept.
Given == at = "idle" => out = call.asked

(* The comment of moe (1116-1120): in rounds of at most cap pairs no slot  *)
(* is evicted while it is needed, so every position is given its experts,  *)
(* from their own weights.                                                 *)
RoundsKeepTheirSlots == Given

(* So it is when the experts of a round fit beside the pins; the pins are  *)
(* not counted in cap when the rounds are cut.                             *)
ExpertsAreSound ==
    /\ call.fits => Given
    /\ at = "idle" => \A y, z \in DOMAIN slots :
           slots[z].data = slots[z].eid /\ (slots[y].eid = slots[z].eid => y = z)
=============================================================================
