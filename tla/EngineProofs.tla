---------------------------- MODULE EngineProofs ----------------------------
(***************************************************************************)
(* Three parts of the engine's decode.                                     *)
(*                                                                         *)
(* The forward over the layers, for any placement of the layers on any     *)
(* devices and any number of forwards.  The inductive invariant says for   *)
(* every place of the code which sum the residual is there: the layers     *)
(* below this one while it moves, with the parts a device already added    *)
(* while pipe_layer_sparse runs, and that the device's snapshot still is   *)
(* the sum from before the layer whenever the code may fall back to it.    *)
(*                                                                         *)
(* The turns, for any models, prompts, slots and sizes.  Their invariant   *)
(* says how far the history is ahead of the rows that count (one token,    *)
(* or the drafts accepted so far), that the rows of a batch are those of   *)
(* the history with the drafts not yet verified behind it, and that what   *)
(* was refused was replaced, or is excluded from the pick that comes next. *)
(*                                                                         *)
(* The rows of keys and values, for any slots, prompts and sizes and any   *)
(* processes of SoundSetups.  Their invariant says that the host has the   *)
(* rows of every slot's history, that the copies on a device are prefixes  *)
(* of the rows of the slot that is bound, and that a ragged entry has rows *)
(* of a history that has only been extended since it was filled.           *)
(***************************************************************************)
EXTENDS Residual, SpecTurns, DeviceKv, TLAPS, SequenceTheorems, WellFoundedInduction

\* The layer has a device of its own, and the residual is there.
OnDevice == layer <= Len(Homes) /\ Here # Host /\ place = Here

\* What the device has of the layer, and its snapshot from before it.
Partly(parts) ==
    /\ OnDevice
    /\ snap[Here] = X(layer - 1)
    /\ x[Here] = [done |-> layer - 1, parts |-> parts]

ResidualIsRight ==
    /\ spot = "layer" => x[place] = X(layer - 1)
    /\ spot = "cpu" => layer <= Len(Homes) /\ place = Host /\ x[Host] = X(layer - 1)
    /\ spot = "upload" => OnDevice /\ x[Here] = X(layer - 1)
    /\ spot = "attention" => Partly({})
    /\ spot = "shared" => Partly({"attention"})
    /\ spot \in {"moe", "resident"} => Partly({"attention", "shared"})
    /\ spot = "routed" /\ ~exited => Partly({"attention", "shared", "resident"})
    /\ spot = "fallback" => OnDevice /\ snap[Here] = X(layer - 1)
    /\ spot = "end" => x[Host] = X(Len(Homes))

\* Where the code is, whatever the residual is worth.
PlaceIsRight ==
    /\ spot = "cpu" => layer <= Len(Homes)
    /\ spot = "end" => place = Host
    /\ spot \in {"upload", "attention", "shared", "moe", "resident", "routed", "fallback"} => OnDevice

ForwardInv == ForwardTypeOK /\ PlaceIsRight /\ (~early => ResidualIsRight)

(* Everything the residual goes through is a sum, and adding to a sum gives one. *)
LEMMA SumsAreClosed ==
    /\ \A n \in Nat : X(n) \in Sums
    /\ Junk \in Sums
    /\ \A v \in Sums, parts \in SUBSET Parts : Added(v, parts) \in Sums
  BY DEF X, Sums, Parts, Junk, Added

(* The parts of a layer, in the order a device adds them. *)
LEMMA LayerAddsUp ==
    \A n \in Nat :
        /\ Added(X(n), Parts) = X(n + 1)
        /\ Added(X(n), {"attention"}) = [done |-> n, parts |-> {"attention"}]
        /\ Added([done |-> n, parts |-> {"attention"}], {"shared"})
             = [done |-> n, parts |-> {"attention", "shared"}]
        /\ Added([done |-> n, parts |-> {"attention", "shared"}], {"resident"})
             = [done |-> n, parts |-> {"attention", "shared", "resident"}]
        /\ Added([done |-> n, parts |-> {"attention", "shared", "resident"}], {"routed"}) = X(n + 1)
  <1> TAKE n \in Nat
  <1>1. /\ {} \cup Parts = Parts
        /\ {} \cup {"attention"} = {"attention"} /\ {"attention"} # Parts
        /\ {"attention"} \cup {"shared"} = {"attention", "shared"} /\ {"attention", "shared"} # Parts
        /\ {"attention", "shared"} \cup {"resident"} = {"attention", "shared", "resident"}
        /\ {"attention", "shared", "resident"} # Parts
        /\ {"attention", "shared", "resident"} \cup {"routed"} = Parts
    BY DEF Parts
  <1>2. ASSUME NEW old, NEW parts, NEW new, old \cup parts = new, new # Parts
        PROVE  Added([done |-> n, parts |-> old], parts) = [done |-> n, parts |-> new]
    BY <1>2 DEF Added
  <1>3. ASSUME NEW old, NEW parts, old \cup parts = Parts
        PROVE  Added([done |-> n, parts |-> old], parts) = X(n + 1)
    BY <1>3 DEF Added
  <1> QED BY <1>1, <1>2, <1>3 DEF X

(* A layer that is not the host's is of a device that has a copy. *)
LEMMA HomesArePlaces ==
    ASSUME ForwardTypeOK, layer <= Len(Homes)
    PROVE  /\ layer \in 1..Len(Homes) /\ layer - 1 \in Nat
           /\ Here # Host => Here \in Devices
  BY ResidualAssumption DEF ForwardTypeOK, Here, Devices

(* The invariant holds before the first layer of the first forward. *)
LEMMA ForwardStarts == ForwardInit => ForwardInv
  <1> SUFFICES ASSUME ForwardInit PROVE ForwardInv
    OBVIOUS
  <1>1. x[Host] = X(0) /\ x \in [Devices \cup {Host} -> Sums] /\ snap \in [Devices -> Sums]
    BY SumsAreClosed DEF ForwardInit
  <1>2. PlaceIsRight
    BY DEF ForwardInit, PlaceIsRight
  <1>3. ForwardTypeOK
    <2>1. layer \in 1..Len(Homes) + 1 /\ forwards \in 0..MaxForwards
      BY ResidualAssumption DEF ForwardInit
    <2>2. /\ place \in Devices \cup {Host}
          /\ partials \in BOOLEAN /\ early \in BOOLEAN /\ exited \in BOOLEAN
      BY DEF ForwardInit
    <2> QED BY <1>1, <2>1, <2>2 DEF ForwardInit, ForwardTypeOK
  <1>4. ResidualIsRight
    <2>1. layer - 1 = 0 /\ X(layer - 1) = X(0)
      BY DEF ForwardInit
    <2>2. place = Host /\ spot = "layer" /\ x[place] = X(layer - 1)
      BY <1>1, <2>1 DEF ForwardInit
    <2> QED BY <2>2 DEF ResidualIsRight
  <1> QED BY <1>2, <1>3, <1>4 DEF ForwardInv

(* Every step keeps the types, and where the residual is. *)
LEMMA ForwardTyped ==
    ASSUME ForwardTypeOK, PlaceIsRight, ForwardNext PROVE ForwardTypeOK' /\ PlaceIsRight'
  <1> USE ResidualAssumption, SumsAreClosed DEF Parts
  <1>1. ASSUME ToHost PROVE ForwardTypeOK' /\ PlaceIsRight'
    BY <1>1 DEF ToHost, Same, Copied, ForwardTypeOK, PlaceIsRight, OnDevice
  <1>2. ASSUME Move PROVE ForwardTypeOK' /\ PlaceIsRight'
    BY <1>2, HomesArePlaces DEF Move, Same, Copied, ForwardTypeOK, PlaceIsRight, OnDevice, Here
  <1>3. ASSUME MoveFails PROVE ForwardTypeOK' /\ PlaceIsRight'
    BY <1>3 DEF MoveFails, Same, Copied, ForwardTypeOK, PlaceIsRight, OnDevice
  <1>4. ASSUME CpuLayer PROVE ForwardTypeOK' /\ PlaceIsRight'
    BY <1>4, HomesArePlaces DEF CpuLayer, Same, ForwardTypeOK, PlaceIsRight, OnDevice
  <1>5. ASSUME EndForward PROVE ForwardTypeOK' /\ PlaceIsRight'
    BY <1>5 DEF EndForward, Same, Copied, ForwardTypeOK, PlaceIsRight, OnDevice
  <1>6. ASSUME NextForward PROVE ForwardTypeOK' /\ PlaceIsRight'
    BY <1>6 DEF NextForward, ForwardTypeOK, PlaceIsRight, OnDevice
  <1>7. ASSUME Refused PROVE ForwardTypeOK' /\ PlaceIsRight'
    BY <1>7 DEF Refused, ForwardTypeOK, PlaceIsRight, OnDevice, Here
  <1>8. ASSUME Snapshot PROVE ForwardTypeOK' /\ PlaceIsRight'
    BY <1>8, HomesArePlaces DEF Snapshot, ForwardTypeOK, PlaceIsRight, OnDevice, Here
  <1>9. ASSUME Add("attention", "shared") \/ Add("shared", "moe") PROVE ForwardTypeOK' /\ PlaceIsRight'
    BY <1>9, HomesArePlaces DEF Add, Same, ForwardTypeOK, PlaceIsRight, OnDevice, Here
  <1>10. ASSUME RoutedExperts PROVE ForwardTypeOK' /\ PlaceIsRight'
    BY <1>10 DEF RoutedExperts, ForwardTypeOK, PlaceIsRight, OnDevice, Here
  <1>11. ASSUME TakeResident PROVE ForwardTypeOK' /\ PlaceIsRight'
    <2>1. Here \in Devices /\ layer \in 1..Len(Homes) + 1 /\ UNCHANGED <<layer, place, snap, early, forwards>>
      BY <1>11, HomesArePlaces DEF TakeResident, ForwardTypeOK, PlaceIsRight, OnDevice
    <2>2. x' \in [Devices \cup {Host} -> Sums]
      BY <2>1, <1>11 DEF TakeResident, ForwardTypeOK
    <2>3. exited' \in BOOLEAN /\ partials' \in BOOLEAN /\ spot' = "routed"
      BY <1>11 DEF TakeResident, ForwardTypeOK
    <2> QED BY <2>1, <2>2, <2>3, <1>11 DEF TakeResident, ForwardTypeOK, PlaceIsRight, OnDevice, Here
  <1>12. ASSUME Routed PROVE ForwardTypeOK' /\ PlaceIsRight'
    BY <1>12, HomesArePlaces DEF Routed, Same, ForwardTypeOK, PlaceIsRight, OnDevice
  <1>13. ASSUME StepFails PROVE ForwardTypeOK' /\ PlaceIsRight'
    <2>1. layer \in 1..Len(Homes) /\ Here \in Devices /\ {spot} \in SUBSET Parts
      BY <1>13, HomesArePlaces DEF StepFails, PlaceIsRight, OnDevice
    <2>2. x' \in [Devices \cup {Host} -> Sums]
      BY <2>1, <1>13 DEF StepFails, ForwardTypeOK
    <2> QED BY <2>1, <2>2, <1>13 DEF StepFails, Same, ForwardTypeOK, PlaceIsRight, OnDevice, Here
  <1>14. ASSUME Fallback PROVE ForwardTypeOK' /\ PlaceIsRight'
    BY <1>14, HomesArePlaces DEF Fallback, Same, ForwardTypeOK, PlaceIsRight, OnDevice, Here
  <1> QED
    BY <1>1, <1>2, <1>3, <1>4, <1>5, <1>6, <1>7, <1>8, <1>9, <1>10, <1>11, <1>12, <1>13, <1>14
       DEF ForwardNext

(* Every step that is not a refusal before the snapshot keeps the residual: *)
(* what moves is copied whole, what is added was missing, and what is       *)
(* restored is the sum from before the layer.                               *)
LEMMA ForwardKeeps ==
    ASSUME ForwardTypeOK, PlaceIsRight, ResidualIsRight, ~early, ForwardNext, ~early'
    PROVE  ResidualIsRight'
  <1> USE ResidualAssumption
  <1>0. /\ layer \in 1..Len(Homes) + 1 /\ layer - 1 \in Nat /\ ~exited
        /\ (layer + 1) - 1 = (layer - 1) + 1 /\ (Len(Homes) + 1) - 1 = Len(Homes)
        /\ DOMAIN x = Devices \cup {Host} /\ DOMAIN snap = Devices
        /\ layer <= Len(Homes) /\ Here # Host => Here \in Devices
        /\ place \in DOMAIN x
    BY HomesArePlaces DEF ForwardTypeOK, ForwardNext
  <1>1. ASSUME ToHost PROVE ResidualIsRight'
    BY <1>0, <1>1 DEF ToHost, Same, Copied, ResidualIsRight
  <1>2. ASSUME Move PROVE ResidualIsRight'
    BY <1>0, <1>2 DEF Move, Same, Copied, ResidualIsRight, OnDevice, Here
  <1>3. ASSUME MoveFails PROVE ResidualIsRight'
    BY <1>0, <1>3 DEF MoveFails, Same, ResidualIsRight
  <1>4. ASSUME CpuLayer PROVE ResidualIsRight'
    BY <1>0, <1>4, LayerAddsUp DEF CpuLayer, Same, ResidualIsRight
  <1>5. ASSUME EndForward PROVE ResidualIsRight'
    BY <1>0, <1>5 DEF EndForward, Same, Copied, ResidualIsRight
  <1>6. ASSUME NextForward PROVE ResidualIsRight'
    <2>1. x'[place'] = X(0) /\ layer' - 1 = 0 /\ spot' = "layer"
      BY <1>0, <1>6 DEF NextForward, PlaceIsRight
    <2> QED BY <2>1 DEF ResidualIsRight
  <1>8. ASSUME Snapshot PROVE ResidualIsRight'
    BY <1>0, <1>8 DEF Snapshot, ResidualIsRight, Partly, OnDevice, Here, X
  <1>9. ASSUME Add("attention", "shared") PROVE ResidualIsRight'
    BY <1>0, <1>9, LayerAddsUp DEF Add, Same, ResidualIsRight, Partly, OnDevice, Here, X
  <1>10. ASSUME Add("shared", "moe") PROVE ResidualIsRight'
    BY <1>0, <1>10, LayerAddsUp DEF Add, Same, ResidualIsRight, Partly, OnDevice, Here
  <1>11. ASSUME RoutedExperts PROVE ResidualIsRight'
    BY <1>0, <1>11 DEF RoutedExperts, ResidualIsRight, Partly, OnDevice, Here
  <1>12. ASSUME TakeResident PROVE ResidualIsRight'
    <2>1. Partly({"attention", "shared"}) /\ spot' = "routed" /\ UNCHANGED <<layer, place, snap>>
      BY <1>12 DEF TakeResident, ResidualIsRight
    <2>2. ASSUME ~exited'
          PROVE  x' = [x EXCEPT ![Here] = Added(@, {"resident"})]
      BY <2>2, <1>12 DEF TakeResident
    <2>3. ASSUME ~exited' PROVE Partly({"attention", "shared", "resident"})'
      BY <1>0, <2>1, <2>2, <2>3, LayerAddsUp DEF Partly, OnDevice, Here
    <2> QED BY <2>1, <2>3 DEF ResidualIsRight
  <1>13. ASSUME Routed PROVE ResidualIsRight'
    BY <1>0, <1>13, LayerAddsUp DEF Routed, Same, ResidualIsRight, Partly, OnDevice
  <1>14. ASSUME StepFails PROVE ResidualIsRight'
    BY <1>0, <1>14 DEF StepFails, Same, ResidualIsRight, Partly, OnDevice, Here
  <1>15. ASSUME Fallback PROVE ResidualIsRight'
    BY <1>0, <1>15 DEF Fallback, Same, ResidualIsRight, OnDevice, Here
  <1> QED
    BY <1>1, <1>2, <1>3, <1>4, <1>5, <1>6, <1>8, <1>9, <1>10, <1>11, <1>12, <1>13, <1>14, <1>15
       DEF ForwardNext, Refused

(* A refusal before the snapshot is never forgotten. *)
LEMMA EarlyStays == ASSUME ForwardTypeOK, ForwardNext, ~early' PROVE ~early
  BY DEF ForwardNext, ToHost, Move, MoveFails, CpuLayer, EndForward, NextForward, Refused, Snapshot, Add,
         RoutedExperts, TakeResident, Routed, StepFails, Fallback, Same

(* The inductive invariant holds of every forward. *)
LEMMA ForwardInvariant == ForwardSpec => []ForwardInv
  <1>1. ForwardInv /\ [ForwardNext]_forwardVars => ForwardInv'
    <2> SUFFICES ASSUME ForwardInv, [ForwardNext]_forwardVars PROVE ForwardInv'
      OBVIOUS
    <2>1. CASE ForwardNext
      BY <2>1, ForwardTyped, ForwardKeeps, EarlyStays DEF ForwardInv
    <2>2. CASE UNCHANGED forwardVars
      BY <2>2 DEF forwardVars, ForwardInv, ForwardTypeOK, PlaceIsRight, ResidualIsRight, Partly, OnDevice, Here
    <2> QED BY <2>1, <2>2
  <1> QED BY <1>1, ForwardStarts, PTL DEF ForwardSpec

(* layers_forward_rows: what any forward hands on to the head is the sum of *)
(* every layer, each part once, whatever was moved between which devices    *)
(* and whichever call failed on the way, unless a layer was refused before  *)
(* it had taken its snapshot.                                               *)
THEOREM ForwardsAreWhole == ForwardSpec => []ForwardIsWholeAfterSnapshots
  <1>1. ForwardInv => ForwardIsWholeAfterSnapshots
    BY DEF ForwardInv, ResidualIsRight, ForwardIsWholeAfterSnapshots, ForwardIsWhole
  <1> QED BY <1>1, ForwardInvariant, PTL
----------------------------------------------------------------------------
(* The invariant of the turns.                                             *)

Sayable == Tokens \cup {Stop}

Contexts == [hist : Seq(Tokens), len : Nat, rows : Seq(Seq(Sayable))]

TurnStates == [at : {"idle", "pick", "draft", "verify", "first", "round", "rows", "end"},
               budget : Nat, base : Nat, logit : Seq(Sayable), ban : SUBSET Sayable, draft : Seq(Sayable),
               k : Nat, cut : BOOLEAN, cause : {"none", "cap", "stop", "cut"}, refused : Seq(Sayable)]

Engines == [model : Models, loop : {"serve", "mux"}, slots : SUBSET Slots, share : BOOLEAN, sc : Slots,
            greedy : BOOLEAN, draft : 0..Draft, turns : 0..MaxTurns]

\* The rows that count are those of the history.
ContextOK(c) ==
    /\ c \in Contexts
    /\ c.len <= Len(c.hist) /\ c.len <= Len(c.rows) /\ Len(c.rows) <= MaxCtx
    /\ \A n \in 1..c.len : c.rows[n] = SubSeq(c.hist, 1, n)

\* What was emitted is what the model gives.
Follows(m, past, base) == \A n \in (base + 1)..Len(past) : past[n] \in m[past[n - 1]]

\* The rows of a batch are those of the history and of the drafts behind it.
Batched(c, draft, k) ==
    /\ k <= Len(draft) /\ Len(c.rows) = Len(c.hist) + Len(draft) - k
    /\ \A j \in 1..Len(c.rows) :
        /\ Len(c.rows[j]) = j
        /\ \A i \in 1..j : c.rows[j][i] = IF i <= Len(c.hist) THEN c.hist[i] ELSE draft[k + i - Len(c.hist)]

\* What was refused is not in its place, or there is nothing yet and the next pick excludes it.
Avoided(m, g, past, t) ==
    LET n == Len(t.refused) IN
    \/ n = 0
    \/ n <= Len(past) /\ past[n] # t.refused[n]
    \/ n > Len(past) /\ t.at = "end"
    \/ /\ n = Len(past) + 1 /\ t.at = "pick"
       /\ g => t.refused[n] \notin m[Last(past)]
       /\ ~g => t.ban = {t.refused[n]} /\ m[Last(past)] # {t.refused[n]}

\* The progress of a turn.
Progress(m, past, t) ==
    /\ t.base \in 1..Len(past) /\ Len(past) <= t.base + t.budget
    /\ t.budget > 0 => t.base + t.budget + 1 <= MaxCtx
    /\ Follows(m, past, t.base)
    /\ t.cause = "cap" => Len(past) >= t.base + t.budget
    /\ t.cause = "stop" => Stop \in m[Last(past)]
    /\ t.at # "end" => t.cause = "none"
    /\ t.at \in {"first", "draft", "round", "rows"} => Len(past) < t.base + t.budget

TurnOK(m, g, c, t) ==
    /\ t \in TurnStates
    /\ Len(t.draft) <= Draft
    /\ t.k <= Len(t.draft) + 1 /\ (t.at # "round" => t.k <= Len(t.draft))
    /\ t.at = "idle" => t = NoTurn /\ Len(c.hist) = c.len
    /\ t.at # "idle" => Progress(m, c.hist, t)
    /\ t.at \in {"pick", "first"} => Len(c.hist) = c.len
    /\ t.at = "pick" => t.logit = c.hist
    /\ t.at \in {"draft", "round", "rows"} => Len(c.hist) = c.len + 1
    /\ t.at = "verify" => Len(c.hist) = c.len + 1 + t.k
    /\ t.at \in {"verify", "rows"} => Batched(c, t.draft, t.k)
    /\ Avoided(m, g, c.hist, t)

SlotOK(m, g, c, t) == ContextOK(c) /\ TurnOK(m, g, c, t)

EngineOK == engine \in Engines /\ engine.sc \in engine.slots

TurnsInv ==
    /\ EngineOK
    /\ ctx \in [Slots -> Contexts] /\ turn \in [Slots -> TurnStates]
    /\ \A s \in Slots : SlotOK(engine.model, engine.greedy, ctx[s], turn[s])
----------------------------------------------------------------------------
(* Prefixes.                                                               *)

(* What a prefix of a sequence is. *)
LEMMA PrefixOf ==
    ASSUME NEW S, NEW w \in Seq(S), NEW n \in 0..Len(w)
    PROVE  /\ SubSeq(w, 1, n) \in Seq(S) /\ Len(SubSeq(w, 1, n)) = n
           /\ \A i \in 1..n : SubSeq(w, 1, n)[i] = w[i]
  <1>1. n \in Int /\ Len(w) \in Nat
    BY LenProperties
  <1>2. \A i \in 1..n : w[i] \in S
    BY <1>1, ElementOfSeq
  <1>3. /\ SubSeq(w, 1, n) \in Seq(S)
        /\ Len(SubSeq(w, 1, n)) = IF 1 <= n THEN n - 1 + 1 ELSE 0
        /\ \A i \in 1..(n - 1 + 1) : SubSeq(w, 1, n)[i] = w[1 + i - 1]
    BY <1>1, <1>2, SubSeqProperties
  <1>4. n - 1 + 1 = n /\ \A i \in 1..n : 1 + i - 1 = i
    BY <1>1
  <1> QED BY <1>1, <1>3, <1>4

(* Two sequences have the same prefix when they agree on it, and only then. *)
LEMMA SamePrefix ==
    ASSUME NEW S, NEW v \in Seq(S), NEW w \in Seq(S), NEW n \in 0..Len(v), n <= Len(w)
    PROVE  SubSeq(v, 1, n) = SubSeq(w, 1, n) <=> \A i \in 1..n : v[i] = w[i]
  <1>1. n \in 0..Len(w)
    BY LenProperties
  <1>2. /\ SubSeq(v, 1, n) \in Seq(S) /\ Len(SubSeq(v, 1, n)) = n
        /\ \A i \in 1..n : SubSeq(v, 1, n)[i] = v[i]
    BY PrefixOf
  <1>3. /\ SubSeq(w, 1, n) \in Seq(S) /\ Len(SubSeq(w, 1, n)) = n
        /\ \A i \in 1..n : SubSeq(w, 1, n)[i] = w[i]
    BY <1>1, PrefixOf
  <1>4. ASSUME \A i \in 1..n : v[i] = w[i] PROVE SubSeq(v, 1, n) = SubSeq(w, 1, n)
    BY <1>2, <1>3, <1>4, SeqEqual
  <1>5. ASSUME SubSeq(v, 1, n) = SubSeq(w, 1, n) PROVE \A i \in 1..n : v[i] = w[i]
    BY <1>2, <1>3, <1>5
  <1> QED BY <1>4, <1>5

(* A sequence of length n that agrees with another up to n is its prefix. *)
LEMMA IsThePrefix ==
    ASSUME NEW S, NEW r \in Seq(S), NEW w \in Seq(S), Len(r) <= Len(w), \A i \in 1..Len(r) : r[i] = w[i]
    PROVE  r = SubSeq(w, 1, Len(r))
  <1>1. Len(r) \in 0..Len(r) /\ SubSeq(r, 1, Len(r)) = r
    BY LenProperties, SubSeqFull
  <1>2. SubSeq(r, 1, Len(r)) = SubSeq(w, 1, Len(r))
    BY <1>1, SamePrefix
  <1> QED BY <1>1, <1>2

(* A prefix of a prefix is a prefix. *)
LEMMA PrefixOfPrefix ==
    ASSUME NEW S, NEW w \in Seq(S), NEW n \in 0..Len(w), NEW j \in 0..n
    PROVE  SubSeq(SubSeq(w, 1, n), 1, j) = SubSeq(w, 1, j)
  <1>1. Len(w) \in Nat /\ j \in 0..Len(w)
    BY LenProperties
  <1>2. /\ SubSeq(w, 1, n) \in Seq(S) /\ Len(SubSeq(w, 1, n)) = n
        /\ \A i \in 1..n : SubSeq(w, 1, n)[i] = w[i]
    BY PrefixOf
  <1> DEFINE v == SubSeq(w, 1, n)
  <1>3. \A i \in 1..j : v[i] = w[i]
    BY <1>1, <1>2
  <1> HIDE DEF v
  <1>4. SubSeq(v, 1, j) = SubSeq(w, 1, j)
    BY <1>1, <1>2, <1>3, SamePrefix DEF v
  <1> QED BY <1>4 DEF v

(* A sequence is a prefix and the rest, and a prefix with one more is the next one. *)
LEMMA PrefixAndRest ==
    ASSUME NEW S, NEW w \in Seq(S), NEW n \in 0..Len(w), NEW j \in n..Len(w)
    PROVE  /\ SubSeq(w, n + 1, j) \in Seq(S) /\ Len(SubSeq(w, n + 1, j)) = j - n
           /\ SubSeq(w, 1, n) \o SubSeq(w, n + 1, j) = SubSeq(w, 1, j)
           /\ \A i \in 1..(j - n) : SubSeq(w, n + 1, j)[i] = w[n + i]
  <1>1. Len(w) \in Nat /\ n \in Nat /\ j \in Nat /\ n <= j /\ j <= Len(w)
    BY LenProperties
  <1>2. n \in (1 - 1)..Len(w) /\ 1 \in 1..(Len(w) + 1)
    BY <1>1
  <1>3. SubSeq(w, 1, n) \o SubSeq(w, n + 1, j) = SubSeq(w, 1, j)
    BY <1>2, ConcatAdjacentSubSeq
  <1>4. \A i \in (n + 1)..j : w[i] \in S
    BY <1>1, ElementOfSeq
  <1>5. /\ SubSeq(w, n + 1, j) \in Seq(S)
        /\ Len(SubSeq(w, n + 1, j)) = IF n + 1 <= j THEN j - (n + 1) + 1 ELSE 0
        /\ \A i \in 1..(j - (n + 1) + 1) : SubSeq(w, n + 1, j)[i] = w[n + 1 + i - 1]
    <2>1. n + 1 \in Int /\ j \in Int
      BY <1>1
    <2> QED BY <1>4, <2>1, SubSeqProperties
  <1>6. j - (n + 1) + 1 = j - n /\ (~(n + 1 <= j) => j - n = 0) /\ \A i \in 1..(j - n) : n + 1 + i - 1 = n + i
    BY <1>1
  <1> QED BY <1>3, <1>5, <1>6

(* What is said is a word more. *)
LEMMA OneMore ==
    ASSUME NEW S, NEW w \in Seq(S), NEW token \in S
    PROVE  /\ Append(w, token) \in Seq(S) /\ Len(Append(w, token)) = Len(w) + 1
           /\ \A i \in 1..Len(w) : Append(w, token)[i] = w[i]
           /\ Append(w, token)[Len(w) + 1] = token
           /\ \A n \in 0..Len(w) : SubSeq(Append(w, token), 1, n) = SubSeq(w, 1, n)
  <1> DEFINE v == Append(w, token)
  <1>1. /\ v \in Seq(S) /\ Len(v) = Len(w) + 1 /\ v[Len(w) + 1] = token
        /\ \A i \in 1..Len(w) : v[i] = w[i]
    BY AppendProperties
  <1>2. ASSUME NEW n \in 0..Len(w) PROVE SubSeq(v, 1, n) = SubSeq(w, 1, n)
    <2>1. Len(w) \in Nat
      BY LenProperties
    <2> HIDE DEF v
    <2>2. n \in 0..Len(v) /\ n <= Len(w) /\ \A i \in 1..n : v[i] = w[i]
      BY <1>1, <2>1
    <2> QED BY <1>1, <2>2, SamePrefix
  <1> QED BY <1>1, <1>2

(* One sequence behind another. *)
LEMMA Behind ==
    ASSUME NEW S, NEW u \in Seq(S), NEW v \in Seq(S)
    PROVE  /\ u \o v \in Seq(S) /\ Len(u \o v) = Len(u) + Len(v)
           /\ \A i \in 1..Len(u) : (u \o v)[i] = u[i]
           /\ \A i \in 1..Len(v) : (u \o v)[Len(u) + i] = v[i]
  <1>1. Len(u) \in Nat /\ Len(v) \in Nat
    BY LenProperties
  <1>2. u \o v \in Seq(S) /\ Len(u \o v) = Len(u) + Len(v)
    BY ConcatProperties
  <1>3. \A i \in 1..(Len(u) + Len(v)) : (u \o v)[i] = IF i <= Len(u) THEN u[i] ELSE v[i - Len(u)]
    BY ConcatProperties
  <1>4. ASSUME NEW i \in 1..Len(u) PROVE (u \o v)[i] = u[i]
    BY <1>1, <1>3
  <1>5. ASSUME NEW i \in 1..Len(v) PROVE (u \o v)[Len(u) + i] = v[i]
    <2>1. Len(u) + i \in 1..(Len(u) + Len(v)) /\ ~(Len(u) + i <= Len(u)) /\ (Len(u) + i) - Len(u) = i
      BY <1>1
    <2> QED BY <1>3, <2>1
  <1> QED BY <1>2, <1>4, <1>5
----------------------------------------------------------------------------
(* Constants, and what is kept, adopted and prefilled.                     *)

(* The sizes, and the words: tokens and the stop token. *)
LEMMA SizesAndWords ==
    /\ MaxCtx \in Nat /\ Spare \in Nat /\ Draft \in Nat /\ Budget \in Nat /\ MaxTurns \in Nat
    /\ MaxCtx > Spare + Draft + 2 /\ Draft > 0 /\ Budget > 0
    /\ Stop \notin Tokens /\ Tokens \subseteq Sayable /\ Stop \in Sayable /\ FirstSlot \in Slots
    /\ \A w \in Seq(Tokens) : w \in Seq(Sayable) /\ Len(w) \in Nat
    /\ \A m \in Models, t \in Tokens : m[t] \subseteq Sayable /\ m[t] # {}
    /\ \A t \in Sayable : t # Stop => t \in Tokens
  <1>1. /\ MaxCtx \in Nat /\ Spare \in Nat /\ Draft \in Nat /\ Budget \in Nat /\ MaxTurns \in Nat
        /\ MaxCtx > Spare + Draft + 2 /\ Draft > 0 /\ Budget > 0
    BY SpecTurnsAssumption
  <1>2. /\ Stop \notin Tokens /\ Tokens \subseteq Sayable /\ Stop \in Sayable /\ FirstSlot \in Slots
        /\ \A t \in Sayable : t # Stop => t \in Tokens
    BY SpecTurnsAssumption DEF Sayable
  <1>3. \A w \in Seq(Tokens) : w \in Seq(Sayable) /\ Len(w) \in Nat
    BY <1>2, SeqMonotonic, LenProperties
  <1>4. \A m \in Models, t \in Tokens : m[t] \subseteq Sayable /\ m[t] # {}
    <2> TAKE m \in Models, t \in Tokens
    <2>1. m \in [Tokens -> (SUBSET (Tokens \cup {Stop})) \ {{}}]
      BY SpecTurnsAssumption
    <2>2. m[t] \in (SUBSET (Tokens \cup {Stop})) \ {{}}
      BY <2>1
    <2>3. m[t] \in SUBSET Sayable /\ m[t] # {}
      BY <2>2, Zenon DEF Sayable
    <2> QED BY <2>3
  <1> QED BY <1>1, <1>2, <1>3, <1>4

(* Every set of numbers that is not empty has a least one. *)
LEMMA SmallestNumber ==
    ASSUME NEW S \in SUBSET Nat, S # {}
    PROVE  \E n \in S : \A j \in S : n <= j
  <1>1. PICK n \in S : \A j \in S : ~(<<j, n>> \in OpToRel(<, Nat))
    BY NatLessThanWellFounded, WFMin
  <1>2. \A j \in S : ~(j < n)
    BY <1>1 DEF OpToRel
  <1>3. \A j \in S : n <= j
    BY <1>2
  <1> QED BY <1>3

(* The prefix a prompt shares with a context: as long as they agree. *)
LEMMA SharedProperties ==
    ASSUME NEW c \in Contexts, c.len <= Len(c.hist), NEW p \in Seq(Tokens)
    PROVE  /\ Shared(c, p) \in Nat /\ Shared(c, p) <= c.len /\ Shared(c, p) <= Len(p)
           /\ SubSeq(c.hist, 1, Shared(c, p)) = SubSeq(p, 1, Shared(c, p))
  <1> DEFINE short == Least(c.len, Len(p))
             P(n) == /\ SubSeq(c.hist, 1, n) = SubSeq(p, 1, n)
                     /\ n < short => c.hist[n + 1] # p[n + 1]
             Differ == {n \in 0..short : n < short /\ c.hist[n + 1] # p[n + 1]}
  <1>1. /\ c.hist \in Seq(Tokens) /\ c.len \in Nat /\ Len(p) \in Nat /\ Len(c.hist) \in Nat
        /\ short \in Nat /\ short <= c.len /\ short <= Len(p) /\ short <= Len(c.hist)
    <2>1. c.hist \in Seq(Tokens) /\ c.len \in Nat
      BY DEF Contexts
    <2>2. Len(p) \in Nat /\ Len(c.hist) \in Nat
      BY <2>1, LenProperties
    <2> QED BY <2>1, <2>2 DEF Least
  <1> HIDE DEF short
  <1>2. ASSUME NEW n \in 0..short, \A i \in 1..n : c.hist[i] = p[i], n < short => c.hist[n + 1] # p[n + 1]
        PROVE  \E j \in 0..short : P(j)
    <2>1. n \in 0..Len(c.hist) /\ n <= Len(p)
      BY <1>1
    <2>2. SubSeq(c.hist, 1, n) = SubSeq(p, 1, n)
      BY <1>1, <1>2, <2>1, SamePrefix
    <2> QED BY <1>2, <2>2
  <1>3. \E n \in 0..short : P(n)
    <2>1. CASE Differ = {}
      <3>1. ASSUME NEW i \in 1..short PROVE c.hist[i] = p[i]
        <4>1. i - 1 \in 0..short /\ i - 1 < short /\ (i - 1) + 1 = i
          BY <1>1
        <4>2. i - 1 \notin Differ
          BY <2>1
        <4> QED BY <4>1, <4>2
      <3>2. short \in 0..short /\ ~(short < short)
        BY <1>1
      <3> HIDE DEF P
      <3> QED BY <1>2, <3>1, <3>2
    <2>2. CASE Differ # {}
      <3>1. Differ \in SUBSET Nat
        BY <1>1
      <3>2. PICK n \in Differ : \A j \in Differ : n <= j
        BY <2>2, <3>1, SmallestNumber
      <3>3. ASSUME NEW i \in 1..n PROVE c.hist[i] = p[i]
        <4>1. i - 1 \in 0..short /\ i - 1 < short /\ (i - 1) + 1 = i /\ ~(n <= i - 1)
          BY <1>1, <3>1, <3>2
        <4>2. i - 1 \notin Differ
          BY <3>2, <4>1
        <4> QED BY <4>1, <4>2
      <3>4. n \in 0..short /\ c.hist[n + 1] # p[n + 1]
        BY <3>2
      <3> HIDE DEF P, Differ
      <3> QED BY <1>2, <3>3, <3>4
    <2> QED BY <2>1, <2>2
  <1>4. Shared(c, p) = CHOOSE n \in 0..short : P(n)
    BY DEF Shared, short
  <1> DEFINE n == Shared(c, p)
  <1>5. n \in 0..short /\ P(n)
    <2> HIDE DEF P
    <2> QED BY <1>3, <1>4
  <1> QED BY <1>1, <1>5

(* The context a prompt leaves: a prefix of the prompt, and its rows. *)
PrefixOfPrompt(c, p) ==
    /\ ContextOK(c) /\ Len(c.hist) = c.len
    /\ c.len <= Len(p) /\ c.hist = SubSeq(p, 1, c.len)

(* The rows of a prefix of what a context has are those of the prefix. *)
LEMMA KeptRows ==
    ASSUME NEW c, ContextOK(c), NEW n \in Nat, n <= c.len
    PROVE  /\ SubSeq(c.hist, 1, n) \in Seq(Tokens) /\ Len(SubSeq(c.hist, 1, n)) = n
           /\ \A j \in 1..n : c.rows[j] = SubSeq(SubSeq(c.hist, 1, n), 1, j)
           /\ c.rows \in Seq(Seq(Sayable)) /\ n <= Len(c.rows) /\ Len(c.rows) \in Nat
  <1>1. /\ c.hist \in Seq(Tokens) /\ c.len \in Nat /\ c.rows \in Seq(Seq(Sayable))
        /\ c.len <= Len(c.hist) /\ c.len <= Len(c.rows)
        /\ \A j \in 1..c.len : c.rows[j] = SubSeq(c.hist, 1, j)
    BY DEF ContextOK, Contexts
  <1>2. Len(c.hist) \in Nat /\ Len(c.rows) \in Nat
    BY <1>1, LenProperties
  <1>3. n \in 0..Len(c.hist) /\ n <= Len(c.rows)
    BY <1>1, <1>2
  <1>4. ASSUME NEW j \in 1..n PROVE c.rows[j] = SubSeq(SubSeq(c.hist, 1, n), 1, j)
    <2>1. j \in 1..c.len /\ j \in 0..n
      BY <1>1
    <2> QED BY <1>1, <1>3, <2>1, PrefixOfPrefix
  <1> QED BY <1>1, <1>2, <1>3, <1>4, PrefixOf

(* Keep. *)
LEMMA KeptProperties ==
    ASSUME NEW c, ContextOK(c), NEW p \in Seq(Tokens)
    PROVE  PrefixOfPrompt(Keep(c, p), p)
  <1> DEFINE n == Shared(c, p)
             k == Keep(c, p)
  <1>1. c \in Contexts /\ c.len <= Len(c.hist) /\ Len(c.rows) <= MaxCtx
    BY DEF ContextOK
  <1>2. n \in Nat /\ n <= c.len /\ n <= Len(p) /\ SubSeq(c.hist, 1, n) = SubSeq(p, 1, n)
    BY <1>1, SharedProperties
  <1>3. k.hist = SubSeq(c.hist, 1, n) /\ k.len = n /\ k.rows = c.rows
        /\ k = [hist |-> SubSeq(c.hist, 1, n), len |-> n, rows |-> c.rows]
    BY DEF Keep
  <1> HIDE DEF n, k
  <1>4. /\ k.hist \in Seq(Tokens) /\ Len(k.hist) = n
        /\ \A j \in 1..n : k.rows[j] = SubSeq(k.hist, 1, j)
        /\ k.rows \in Seq(Seq(Sayable)) /\ n <= Len(k.rows)
    <2>1. n \in Nat /\ n <= c.len
      BY <1>2
    <2>2. /\ SubSeq(c.hist, 1, n) \in Seq(Tokens) /\ Len(SubSeq(c.hist, 1, n)) = n
          /\ \A j \in 1..n : c.rows[j] = SubSeq(SubSeq(c.hist, 1, n), 1, j)
          /\ c.rows \in Seq(Seq(Sayable)) /\ n <= Len(c.rows)
      BY <2>1, KeptRows
    <2> QED BY <1>3, <2>2
  <1>5. k \in Contexts
    BY <1>2, <1>3, <1>4 DEF Contexts
  <1>6. ContextOK(k)
    BY <1>1, <1>2, <1>3, <1>4, <1>5 DEF ContextOK
  <1>7. PrefixOfPrompt(k, p)
    BY <1>2, <1>3, <1>4, <1>6 DEF PrefixOfPrompt
  <1> QED BY <1>7 DEF k
(* A batch behind the first n rows makes them the rows of all its words. *)
LEMMA ForwardProperties ==
    ASSUME NEW c \in Contexts, NEW w \in Seq(Sayable), NEW n \in 0..Len(w), n <= Len(c.rows),
           \A j \in 1..n : c.rows[j] = SubSeq(w, 1, j),
           NEW batch \in Seq(Sayable), batch = SubSeq(w, n + 1, Len(w))
    PROVE  /\ Forward(c, n, batch) = [hist |-> c.hist, len |-> c.len, rows |-> Forward(c, n, batch).rows]
           /\ Forward(c, n, batch).rows \in Seq(Seq(Sayable))
           /\ Len(Forward(c, n, batch).rows) = Len(w)
           /\ \A j \in 1..Len(w) : Forward(c, n, batch).rows[j] = SubSeq(w, 1, j)
  <1> DEFINE before == IF n = 0 THEN <<>> ELSE c.rows[n]
             new == [i \in 1..Len(batch) |-> before \o SubSeq(batch, 1, i)]
             old == SubSeq(c.rows, 1, n)
             f == Forward(c, n, batch)
  <1>1. /\ c.rows \in Seq(Seq(Sayable)) /\ Len(c.rows) \in Nat /\ Len(w) \in Nat /\ n \in Nat /\ n <= Len(w)
        /\ n \in 0..Len(c.rows)
    BY LenProperties DEF Contexts
  <1>2. batch \in Seq(Sayable) /\ Len(batch) = Len(w) - n /\ \A i \in 1..(Len(w) - n) : batch[i] = w[n + i]
    <2>1. Len(w) \in n..Len(w)
      BY <1>1
    <2> QED BY <2>1, PrefixAndRest
  <1>3. before = SubSeq(w, 1, n)
    <2>1. CASE n = 0
      BY <2>1, SubSeqEmpty
    <2>2. CASE n # 0
      <3>1. n \in 1..n
        BY <1>1, <2>2
      <3> QED BY <2>2, <3>1
    <2> QED BY <2>1, <2>2
  <1>4. ASSUME NEW i \in 1..(Len(w) - n)
        PROVE  before \o SubSeq(batch, 1, i) = SubSeq(w, 1, n + i) /\ SubSeq(w, 1, n + i) \in Seq(Sayable)
    <2>1. n + i \in n..Len(w) /\ n + i \in 0..Len(w) /\ i \in 0..Len(batch) /\ (n + i) - n = i
      BY <1>1, <1>2
    <2>2. /\ SubSeq(w, n + 1, n + i) \in Seq(Sayable) /\ Len(SubSeq(w, n + 1, n + i)) = i
          /\ SubSeq(w, 1, n) \o SubSeq(w, n + 1, n + i) = SubSeq(w, 1, n + i)
          /\ \A h \in 1..i : SubSeq(w, n + 1, n + i)[h] = w[n + h]
      BY <2>1, PrefixAndRest
    <2>3. /\ SubSeq(batch, 1, i) \in Seq(Sayable) /\ Len(SubSeq(batch, 1, i)) = i
          /\ \A h \in 1..i : SubSeq(batch, 1, i)[h] = batch[h]
      BY <1>2, <2>1, PrefixOf
    <2>4. \A h \in 1..i : batch[h] = w[n + h]
      BY <1>1, <1>2, <2>1
    <2>5. SubSeq(batch, 1, i) = SubSeq(w, n + 1, n + i)
      <3> DEFINE u == SubSeq(batch, 1, i)
                 v == SubSeq(w, n + 1, n + i)
      <3>1. u \in Seq(Sayable) /\ v \in Seq(Sayable) /\ Len(u) = Len(v) /\ Len(u) = i
        BY <2>2, <2>3
      <3>2. \A h \in 1..i : u[h] = v[h]
        BY <2>2, <2>3, <2>4
      <3> HIDE DEF u, v
      <3>3. u = v
        BY <3>1, <3>2, SeqEqual
      <3> QED BY <3>3 DEF u, v
    <2>6. SubSeq(w, 1, n + i) \in Seq(Sayable)
      BY <2>1, PrefixOf
    <2> QED BY <1>3, <2>2, <2>5, <2>6
  <1>5. new \in Seq(Seq(Sayable)) /\ Len(new) = Len(w) - n /\ \A i \in 1..(Len(w) - n) : new[i] = SubSeq(w, 1, n + i)
    <2>1. new = [i \in 1..(Len(w) - n) |-> SubSeq(w, 1, n + i)]
      BY <1>2, <1>4
    <2>2. \A i \in 1..(Len(w) - n) : SubSeq(w, 1, n + i) \in Seq(Sayable)
      BY <1>4
    <2>3. Len(w) - n \in Nat
      BY <1>1
    <2> HIDE DEF new
    <2> QED BY <2>1, <2>2, <2>3
  <1>6. /\ old \in Seq(Seq(Sayable)) /\ Len(old) = n /\ \A i \in 1..n : old[i] = c.rows[i]
    BY <1>1, PrefixOf
  <1>7. f = [c EXCEPT !.rows = old \o new]
    BY DEF Forward
  <1> HIDE DEF before, new, old, f
  <1>8. /\ old \o new \in Seq(Seq(Sayable)) /\ Len(old \o new) = Len(old) + Len(new)
        /\ \A j \in 1..Len(old) : (old \o new)[j] = old[j]
        /\ \A j \in 1..Len(new) : (old \o new)[Len(old) + j] = new[j]
    <2> DEFINE R == Seq(Sayable)
    <2>1. old \in Seq(R) /\ new \in Seq(R)
      BY <1>5, <1>6
    <2> HIDE DEF R
    <2>2. /\ old \o new \in Seq(R) /\ Len(old \o new) = Len(old) + Len(new)
          /\ \A j \in 1..Len(old) : (old \o new)[j] = old[j]
          /\ \A j \in 1..Len(new) : (old \o new)[Len(old) + j] = new[j]
      BY <2>1, Behind
    <2> QED BY <2>2 DEF R
  <1>9. Len(old \o new) = Len(w) /\ Len(old) = n /\ Len(new) = Len(w) - n
    BY <1>1, <1>5, <1>6, <1>8
  <1>10. ASSUME NEW j \in 1..Len(w) PROVE (old \o new)[j] = SubSeq(w, 1, j)
    <2>1. CASE j <= n
      <3>1. j \in 1..n
        BY <1>1, <2>1
      <3> QED BY <1>6, <1>8, <1>9, <3>1
    <2>2. CASE ~(j <= n)
      <3>1. j - n \in 1..(Len(w) - n) /\ n + (j - n) = j
        BY <1>1, <2>2
      <3>2. new[j - n] = SubSeq(w, 1, n + (j - n))
        BY <1>5, <3>1
      <3>3. (old \o new)[n + (j - n)] = new[j - n]
        BY <1>8, <1>9, <3>1
      <3> QED BY <3>1, <3>2, <3>3
    <2> QED BY <2>1, <2>2
  <1>11. f = [hist |-> c.hist, len |-> c.len, rows |-> old \o new] /\ f.rows = old \o new
    BY <1>7 DEF Contexts
  <1> QED BY <1>8, <1>9, <1>10, <1>11 DEF f

\* The rows a context has are those of the prompt; the prompt is in the context.
Ready(c, p) ==
    /\ c \in Contexts /\ c.len <= Len(p) /\ c.len <= Len(c.rows)
    /\ \A j \in 1..c.len : c.rows[j] = SubSeq(p, 1, j)

Holds(c, p) ==
    /\ ContextOK(c) /\ c.hist = p /\ c.len = Len(p)
    /\ Last(c.rows) = p /\ Len(p) \in Nat \ {0}

(* Prefill: the context is the prompt's, and the last row is the whole prompt. *)
LEMMA PrefillProperties ==
    ASSUME NEW c, NEW p \in Seq(Tokens), p # <<>>, Len(p) <= MaxCtx, Ready(c, p)
    PROVE  Holds(Prefill(c, p), p)
  <1> USE DEF Ready
  <1> DEFINE n == IF c.len < Len(p) THEN c.len ELSE c.len - 1
             batch == SubSeq(p, n + 1, Len(p))
             f == Forward(c, n, batch)
             c1 == Prefill(c, p)
  <1>1. /\ Len(p) \in Nat \ {0} /\ p \in Seq(Sayable) /\ c.len \in Nat /\ Len(c.rows) \in Nat
        /\ c.hist \in Seq(Tokens)
    <2>1. Len(p) \in Nat \ {0}
      BY EmptySeq
    <2>2. c.rows \in Seq(Seq(Sayable)) /\ c.len \in Nat /\ c.hist \in Seq(Tokens)
      BY DEF Contexts
    <2> QED BY <2>1, <2>2, SizesAndWords, LenProperties
  <1>2. /\ n \in 0..Len(p) /\ n <= Len(c.rows) /\ \A j \in 1..n : c.rows[j] = SubSeq(p, 1, j)
    <2>1. n \in Nat /\ n <= c.len
      BY <1>1
    <2> HIDE DEF n
    <2> QED BY <1>1, <2>1
  <1>3. c1 = [f EXCEPT !.hist = p, !.len = Len(p)]
    BY DEF Prefill
  <1> HIDE DEF n
  <1>4. /\ f = [hist |-> c.hist, len |-> c.len, rows |-> f.rows]
        /\ f.rows \in Seq(Seq(Sayable)) /\ Len(f.rows) = Len(p)
        /\ \A j \in 1..Len(p) : f.rows[j] = SubSeq(p, 1, j)
    <2>1. c.rows \in Seq(Seq(Sayable)) /\ n \in 0..Len(p) /\ n <= Len(c.rows) /\ p \in Seq(Sayable)
      BY <1>1, <1>2 DEF Contexts
    <2>2. batch = SubSeq(p, n + 1, Len(p)) /\ \A j \in 1..n : c.rows[j] = SubSeq(p, 1, j)
      BY <1>2
    <2>4. batch \in Seq(Sayable)
      <3>1. Len(p) \in n..Len(p)
        BY <1>1, <2>1
      <3> QED BY <2>1, <3>1, PrefixAndRest
    <2> HIDE DEF batch, f
    <2>3. /\ Forward(c, n, batch) = [hist |-> c.hist, len |-> c.len, rows |-> Forward(c, n, batch).rows]
          /\ Forward(c, n, batch).rows \in Seq(Seq(Sayable)) /\ Len(Forward(c, n, batch).rows) = Len(p)
          /\ \A j \in 1..Len(p) : Forward(c, n, batch).rows[j] = SubSeq(p, 1, j)
      BY <2>1, <2>2, <2>4, ForwardProperties
    <2> QED BY <2>3 DEF f
  <1> HIDE DEF f, c1
  <1>5. c1 = [hist |-> p, len |-> Len(p), rows |-> f.rows]
    BY <1>3, <1>4
  <1>6. c1 \in Contexts
    BY <1>1, <1>4, <1>5 DEF Contexts
  <1>7. ContextOK(c1)
    BY <1>1, <1>4, <1>5, <1>6 DEF ContextOK
  <1>8. Last(c1.rows) = p
    <2>1. Len(p) \in 1..Len(p)
      BY <1>1
    <2>2. f.rows[Len(p)] = SubSeq(p, 1, Len(p))
      BY <1>4, <2>1
    <2> QED BY <1>4, <1>5, <2>2, SubSeqFull DEF Last
  <1>9. c1.hist = p /\ c1.len = Len(p)
    BY <1>5
  <1> QED BY <1>1, <1>7, <1>8, <1>9 DEF c1, Holds
(* The rows of a context that is a prefix of the prompt are the prompt's. *)
LEMMA RowsOfPrompt ==
    ASSUME NEW c, NEW p \in Seq(Tokens), PrefixOfPrompt(c, p)
    PROVE  /\ c \in Contexts /\ c.len \in Nat /\ c.len <= Len(p) /\ c.len <= Len(c.rows) /\ Len(c.rows) <= MaxCtx
           /\ \A j \in 1..c.len : c.rows[j] = SubSeq(p, 1, j)
           /\ Ready(c, p)
  <1>1. c \in Contexts /\ c.len <= Len(c.rows) /\ Len(c.rows) <= MaxCtx /\ c.len <= Len(p)
        /\ c.hist = SubSeq(p, 1, c.len) /\ \A j \in 1..c.len : c.rows[j] = SubSeq(c.hist, 1, j)
    BY DEF PrefixOfPrompt, ContextOK
  <1>2. c.len \in Nat /\ Len(p) \in Nat
    BY <1>1, LenProperties DEF Contexts
  <1>3. ASSUME NEW j \in 1..c.len PROVE c.rows[j] = SubSeq(p, 1, j)
    <2>1. c.len \in 0..Len(p) /\ j \in 0..c.len
      BY <1>1, <1>2
    <2>2. SubSeq(SubSeq(p, 1, c.len), 1, j) = SubSeq(p, 1, j)
      BY <2>1, PrefixOfPrefix
    <2> QED BY <1>1, <2>2
  <1> QED BY <1>1, <1>2, <1>3 DEF Ready

(* Adopt. *)
LEMMA AdoptProperties ==
    ASSUME TurnsInv, NEW s, NEW c, NEW p \in Seq(Tokens), PrefixOfPrompt(c, p)
    PROVE  PrefixOfPrompt(Adopt(s, c, p), p)
  <1> DEFINE More == {d \in engine.slots \ {s} : Shared(ctx[d], p) > c.len}
             best == CHOOSE d \in More : \A e \in More : Shared(ctx[e], p) <= Shared(ctx[d], p)
             b == ctx[best]
             n == Shared(b, p)
             rows == SubSeq(c.rows, 1, c.len) \o SubSeq(b.rows, c.len + 1, n)
             k == [hist |-> SubSeq(p, 1, n), len |-> n, rows |-> rows]
  <1>1. CASE ~engine.share \/ More = {}
    <2>1. Adopt(s, c, p) = c
      BY <1>1 DEF Adopt
    <2> QED BY <2>1
  <1>2. CASE engine.share /\ More # {}
    <2>1. ASSUME NEW d \in More
          PROVE  /\ ContextOK(ctx[d])
                 /\ Shared(ctx[d], p) \in Nat /\ Shared(ctx[d], p) <= ctx[d].len /\ Shared(ctx[d], p) <= Len(p)
                 /\ SubSeq(ctx[d].hist, 1, Shared(ctx[d], p)) = SubSeq(p, 1, Shared(ctx[d], p))
                 /\ Shared(ctx[d], p) > c.len
      <3>1. d \in Slots
        BY DEF TurnsInv, EngineOK, Engines
      <3>2. ContextOK(ctx[d])
        BY <3>1 DEF TurnsInv, SlotOK
      <3>3. ctx[d] \in Contexts /\ ctx[d].len <= Len(ctx[d].hist)
        BY <3>2 DEF ContextOK
      <3> QED BY <3>2, <3>3, SharedProperties
    <2>2. best \in More
      <3> DEFINE S == {Len(p) - Shared(ctx[d], p) : d \in More}
      <3>1. S \in SUBSET Nat /\ S # {}
        <4>1. Len(p) \in Nat
          BY LenProperties
        <4> QED BY <1>2, <2>1, <4>1
      <3>2. PICK l \in S : \A j \in S : l <= j
        <4> HIDE DEF S
        <4> QED BY <3>1, SmallestNumber
      <3>3. PICK d \in More : l = Len(p) - Shared(ctx[d], p)
        BY <3>2
      <3>4. ASSUME NEW e \in More PROVE Shared(ctx[e], p) <= Shared(ctx[d], p)
        <4>1. l <= Len(p) - Shared(ctx[e], p)
          BY <3>2
        <4>2. Shared(ctx[e], p) \in Nat /\ Shared(ctx[d], p) \in Nat /\ Len(p) \in Nat
          BY <2>1, LenProperties
        <4> QED BY <3>3, <4>1, <4>2
      <3> HIDE DEF More
      <3> QED BY <3>4
    <2>3. Adopt(s, c, p) = k
      BY <1>2 DEF Adopt
    <2> HIDE DEF best, More
    <2>4. /\ ContextOK(b) /\ n \in Nat /\ n <= b.len /\ n <= Len(p) /\ n > c.len
          /\ SubSeq(b.hist, 1, n) = SubSeq(p, 1, n)
      BY <2>1, <2>2
    <2> HIDE DEF b, n
    <2>5. /\ b \in Contexts /\ b.len \in Nat /\ b.len <= Len(b.rows) /\ Len(b.rows) <= MaxCtx /\ Len(b.rows) \in Nat
          /\ b.rows \in Seq(Seq(Sayable)) /\ n <= Len(b.rows)
          /\ \A j \in 1..n : b.rows[j] = SubSeq(SubSeq(b.hist, 1, n), 1, j)
      <3>1. b \in Contexts /\ b.len <= Len(b.rows) /\ Len(b.rows) <= MaxCtx
        BY <2>4 DEF ContextOK
      <3> QED BY <2>4, <3>1, KeptRows DEF Contexts
    <2>6. /\ c \in Contexts /\ c.len \in Nat /\ c.len <= Len(c.rows) /\ Len(c.rows) \in Nat
          /\ c.rows \in Seq(Seq(Sayable))
          /\ \A j \in 1..c.len : c.rows[j] = SubSeq(p, 1, j)
      <3>1. c \in Contexts /\ c.len \in Nat /\ c.len <= Len(c.rows) /\ \A j \in 1..c.len : c.rows[j] = SubSeq(p, 1, j)
        BY RowsOfPrompt
      <3> QED BY <3>1, LenProperties DEF Contexts
    <2>7. Len(p) \in Nat /\ n \in 0..Len(p)
      BY <2>4, LenProperties
    <2>8. /\ SubSeq(p, 1, n) \in Seq(Tokens) /\ Len(SubSeq(p, 1, n)) = n
          /\ \A j \in 0..n : SubSeq(SubSeq(p, 1, n), 1, j) = SubSeq(p, 1, j)
      BY <2>7, PrefixOf, PrefixOfPrefix
    <2> DEFINE R == Seq(Sayable)
               u == SubSeq(c.rows, 1, c.len)
               v == SubSeq(b.rows, c.len + 1, n)
    <2>9. /\ c.rows \in Seq(R) /\ b.rows \in Seq(R) /\ c.len \in 0..Len(c.rows)
          /\ c.len \in 0..Len(b.rows) /\ n \in c.len..Len(b.rows)
      BY <2>4, <2>5, <2>6
    <2> HIDE DEF R
    <2>10. u \in Seq(R) /\ Len(u) = c.len /\ \A i \in 1..c.len : u[i] = c.rows[i]
      BY <2>9, PrefixOf
    <2>11. v \in Seq(R) /\ Len(v) = n - c.len /\ \A i \in 1..(n - c.len) : v[i] = b.rows[c.len + i]
      BY <2>9, PrefixAndRest
    <2>12. /\ rows \in Seq(R) /\ Len(rows) = Len(u) + Len(v)
           /\ \A i \in 1..Len(u) : rows[i] = u[i]
           /\ \A i \in 1..Len(v) : rows[Len(u) + i] = v[i]
      <3>1. rows = u \o v
        OBVIOUS
      <3>2. u \in Seq(R) /\ v \in Seq(R)
        BY <2>10, <2>11
      <3> HIDE DEF u, v, rows
      <3>3. /\ u \o v \in Seq(R) /\ Len(u \o v) = Len(u) + Len(v)
            /\ \A i \in 1..Len(u) : (u \o v)[i] = u[i]
            /\ \A i \in 1..Len(v) : (u \o v)[Len(u) + i] = v[i]
        BY <3>2, Behind
      <3> QED BY <3>1, <3>3
    <2> HIDE DEF u, v, rows
    <2>13. Len(rows) = n
      BY <2>4, <2>6, <2>10, <2>11, <2>12
    <2>14. ASSUME NEW j \in 1..n PROVE rows[j] = SubSeq(SubSeq(p, 1, n), 1, j)
      <3>1. SubSeq(SubSeq(p, 1, n), 1, j) = SubSeq(p, 1, j) /\ b.rows[j] = SubSeq(p, 1, j)
        <4>1. j \in 0..n
          BY <2>7
        <4> QED BY <2>4, <2>5, <2>8, <4>1
      <3>2. CASE j <= c.len
        <4>1. j \in 1..c.len
          BY <2>6, <2>7, <3>2
        <4> QED BY <2>6, <2>10, <2>12, <3>1, <4>1
      <3>3. CASE ~(j <= c.len)
        <4>1. j - c.len \in 1..(n - c.len) /\ c.len + (j - c.len) = j
          BY <2>6, <2>7, <3>3
        <4>2. rows[c.len + (j - c.len)] = v[j - c.len] /\ v[j - c.len] = b.rows[c.len + (j - c.len)]
          BY <2>10, <2>11, <2>12, <4>1
        <4> QED BY <3>1, <4>1, <4>2
      <3> QED BY <3>2, <3>3
    <2>15. k \in Contexts
      <3>1. rows \in Seq(Seq(Sayable))
        BY <2>12 DEF R
      <3> QED BY <2>7, <2>8, <3>1 DEF Contexts
    <2>16. k.hist = SubSeq(p, 1, n) /\ k.len = n /\ k.rows = rows
      OBVIOUS
    <2> HIDE DEF k
    <2>17. ContextOK(k)
      <3>1. n <= Len(rows) /\ Len(rows) <= MaxCtx
        BY <2>4, <2>5, <2>13, SizesAndWords
      <3>2. k.len <= Len(k.hist)
        BY <2>4, <2>8, <2>16
      <3> QED BY <2>14, <2>15, <2>16, <3>1, <3>2 DEF ContextOK
    <2> QED BY <2>3, <2>4, <2>8, <2>16, <2>17 DEF PrefixOfPrompt
  <1> QED BY <1>1, <1>2
----------------------------------------------------------------------------
(* One slot moves; turns begin.                                            *)

(* When one slot moves and stays sound, the invariant is kept. *)
LEMMA OneSlot ==
    ASSUME TurnsInv, NEW s \in Slots, NEW c, NEW t, SlotOK(engine.model, engine.greedy, c, t),
           ctx' = [ctx EXCEPT ![s] = c], turn' = [turn EXCEPT ![s] = t],
           EngineOK', engine'.model = engine.model, engine'.greedy = engine.greedy
    PROVE  TurnsInv'
  <1>1. c \in Contexts /\ t \in TurnStates
    BY DEF SlotOK, ContextOK, TurnOK
  <1>2. ctx' \in [Slots -> Contexts] /\ turn' \in [Slots -> TurnStates]
    BY <1>1 DEF TurnsInv
  <1>3. \A z \in Slots : ctx'[z] = IF z = s THEN c ELSE ctx[z]
    BY DEF TurnsInv
  <1>4. \A z \in Slots : turn'[z] = IF z = s THEN t ELSE turn[z]
    BY DEF TurnsInv
  <1>5. ASSUME NEW z \in Slots PROVE SlotOK(engine'.model, engine'.greedy, ctx'[z], turn'[z])
    <2>1. CASE z = s
      BY <1>3, <1>4, <2>1
    <2>2. CASE z # s
      BY <1>3, <1>4, <2>2 DEF TurnsInv
    <2> QED BY <2>1, <2>2
  <1> QED BY <1>2, <1>5 DEF TurnsInv

(* What the invariant says of one slot. *)
LEMMA OfASlot ==
    ASSUME TurnsInv, NEW s \in engine.slots
    PROVE  /\ s \in Slots /\ ContextOK(ctx[s])
           /\ TurnOK(engine.model, engine.greedy, ctx[s], turn[s])
           /\ turn[s].at = "idle" => turn[s] = NoTurn
           /\ ctx[s] \in Contexts /\ turn[s] \in TurnStates
           /\ ctx[s].len \in Nat /\ ctx[s].len <= Len(ctx[s].hist) /\ ctx[s].len <= Len(ctx[s].rows)
           /\ ctx[s].hist \in Seq(Tokens) /\ Len(ctx[s].hist) \in Nat /\ Len(ctx[s].rows) \in Nat
           /\ Len(ctx[s].rows) <= MaxCtx
           /\ engine \in Engines /\ engine.model \in Models /\ engine.draft \in 0..Draft /\ engine.turns \in Nat
  <1>1. s \in Slots /\ engine \in Engines
    BY DEF TurnsInv, EngineOK, Engines
  <1>2. ContextOK(ctx[s]) /\ TurnOK(engine.model, engine.greedy, ctx[s], turn[s])
    BY <1>1 DEF TurnsInv, SlotOK
  <1>3. turn[s] \in TurnStates /\ (turn[s].at = "idle" => turn[s] = NoTurn)
    BY <1>2 DEF TurnOK
  <1>4. ctx[s] \in Contexts /\ ctx[s].len <= Len(ctx[s].hist) /\ ctx[s].len <= Len(ctx[s].rows)
        /\ Len(ctx[s].rows) <= MaxCtx
    BY <1>2 DEF ContextOK
  <1>5. ctx[s].len \in Nat /\ ctx[s].hist \in Seq(Tokens) /\ ctx[s].rows \in Seq(Seq(Sayable))
    BY <1>4 DEF Contexts
  <1>6. Len(ctx[s].hist) \in Nat /\ Len(ctx[s].rows) \in Nat
    BY <1>5, LenProperties
  <1>7. engine.model \in Models /\ engine.draft \in 0..Draft /\ engine.turns \in Nat
    BY <1>1 DEF Engines
  <1> QED BY <1>1, <1>2, <1>3, <1>4, <1>5, <1>6, <1>7

(* The engine counts the turn and goes to its context. *)
LEMMA EngineCounts ==
    ASSUME TurnsInv, NEW s \in engine.slots, engine.turns < MaxTurns,
           engine' = [engine EXCEPT !.turns = @ + 1, !.sc = s]
    PROVE  EngineOK' /\ engine'.model = engine.model /\ engine'.greedy = engine.greedy
  <1>1. engine \in Engines /\ MaxTurns \in Nat /\ s \in Slots
    BY SizesAndWords DEF TurnsInv, EngineOK, Engines
  <1>2. engine.turns + 1 \in 0..MaxTurns
    BY <1>1 DEF Engines
  <1>3. engine' \in Engines
    BY <1>1, <1>2 DEF Engines
  <1>4. engine'.sc = s /\ engine'.slots = engine.slots /\ engine'.model = engine.model
        /\ engine'.greedy = engine.greedy
    BY <1>1 DEF Engines
  <1> QED BY <1>3, <1>4 DEF EngineOK

(* The record of no turn, and of a new one. *)
LEMMA NoTurnIsATurn ==
    /\ NoTurn \in TurnStates /\ NoTurn.at = "idle" /\ NoTurn.k = 0 /\ NoTurn.budget = 0
    /\ NoTurn.cause = "none" /\ Len(NoTurn.draft) = 0 /\ Len(NoTurn.refused) = 0
  <1>1. /\ <<>> \in Seq(Sayable) /\ Len(<<>>) = 0
    BY EmptySeq
  <1>2. NoTurn \in TurnStates
    BY <1>1 DEF NoTurn, TurnStates
  <1> QED BY <1>1, <1>2 DEF NoTurn

\* The record of a turn that begins.
Fresh(budget, base, logit) == [NoTurn EXCEPT !.budget = budget, !.base = base, !.logit = logit]

(* What it is. *)
LEMMA NewTurn ==
    ASSUME NEW budget \in Nat, NEW base \in Nat, NEW logit \in Seq(Sayable), NEW u, u = Fresh(budget, base, logit)
    PROVE  /\ u \in TurnStates /\ u.budget = budget /\ u.base = base /\ u.logit = logit
           /\ u.k = 0 /\ u.cause = "none" /\ Len(u.draft) = 0 /\ Len(u.refused) = 0
  <1>1. /\ u \in TurnStates /\ u.budget = budget /\ u.base = base /\ u.logit = logit
        /\ u.k = NoTurn.k /\ u.cause = NoTurn.cause /\ u.draft = NoTurn.draft /\ u.refused = NoTurn.refused
    BY NoTurnIsATurn DEF TurnStates, Fresh
  <1> QED BY <1>1, NoTurnIsATurn

\* The record of a turn that goes on.
Going(t, at) == [t EXCEPT !.at = at]

(* Only where it is changes. *)
LEMMA TurnGoesOn ==
    ASSUME NEW t \in TurnStates,
           NEW at \in {"idle", "pick", "draft", "verify", "first", "round", "rows", "end"},
           NEW u, u = Going(t, at)
    PROVE  /\ u \in TurnStates /\ u.at = at /\ u.budget = t.budget /\ u.base = t.base /\ u.logit = t.logit
           /\ u.ban = t.ban /\ u.draft = t.draft /\ u.k = t.k /\ u.cause = t.cause /\ u.refused = t.refused
  BY DEF TurnStates, Going

\* The record of a turn that ends.
Ended(t, cause) ==
    [[t EXCEPT !.cause = cause, !.logit = <<>>, !.draft = <<>>, !.k = 0, !.ban = {}] EXCEPT !.at = "end"]

(* Its drafts and logits are gone, its cause is set. *)
LEMMA TurnEnds ==
    ASSUME NEW t \in TurnStates, NEW cause \in {"cap", "stop", "cut"},
           NEW u, u = Ended(t, cause)
    PROVE  /\ u \in TurnStates /\ u.at = "end" /\ u.budget = t.budget /\ u.base = t.base
           /\ Len(u.draft) = 0 /\ u.k = 0 /\ u.cause = cause /\ u.refused = t.refused
  <1>1. /\ <<>> \in Seq(Sayable) /\ Len(<<>>) = 0
    BY EmptySeq
  <1> DEFINE v == [t EXCEPT !.cause = cause, !.logit = <<>>, !.draft = <<>>, !.k = 0, !.ban = {}]
  <1>2. /\ v \in TurnStates /\ v.budget = t.budget /\ v.base = t.base /\ v.draft = <<>> /\ v.k = 0
        /\ v.cause = cause /\ v.refused = t.refused
    BY <1>1 DEF TurnStates
  <1>3. u = [v EXCEPT !.at = "end"]
    BY DEF Ended
  <1> HIDE DEF v
  <1>4. /\ u \in TurnStates /\ u.at = "end" /\ u.budget = v.budget /\ u.base = v.base /\ u.draft = v.draft
        /\ u.k = v.k /\ u.cause = v.cause /\ u.refused = v.refused
    BY <1>2, <1>3 DEF TurnStates
  <1> QED BY <1>1, <1>2, <1>4

(* A slot without a turn is sound when its history is what counts. *)
LEMMA IdleIsSound ==
    ASSUME NEW m, NEW g, NEW c, ContextOK(c), Len(c.hist) = c.len
    PROVE  SlotOK(m, g, c, NoTurn)
  <1>1. Draft \in Nat
    BY SizesAndWords
  <1>3. /\ NoTurn \in TurnStates /\ NoTurn.at = "idle" /\ NoTurn.k = 0 /\ Len(NoTurn.draft) = 0
        /\ Len(NoTurn.refused) = 0
    BY NoTurnIsATurn
  <1>4. Avoided(m, g, c.hist, NoTurn)
    BY <1>3 DEF Avoided
  <1> QED BY <1>1, <1>3, <1>4 DEF SlotOK, TurnOK

(* Begin: a turn whose budget fits in the context starts behind its prompt. *)
LEMMA TurnBegins ==
    ASSUME TurnsInv, NEW s \in engine.slots, engine.turns < MaxTurns, NEW at \in {"pick", "first"},
           NEW c, ContextOK(c), Len(c.hist) = c.len, c.len \in Nat \ {0}, Last(c.rows) = c.hist,
           NEW budget \in Nat, budget > 0 => c.len + budget + 1 <= MaxCtx,
           Begin(s, at, c, budget)
    PROVE  TurnsInv'
  <1>1. EngineOK' /\ engine'.model = engine.model /\ engine'.greedy = engine.greedy /\ s \in Slots
    BY EngineCounts, OfASlot DEF Begin
  <1>2. /\ c.hist \in Seq(Tokens) /\ c.hist \in Seq(Sayable) /\ <<>> \in Seq(Sayable) /\ Len(<<>>) = 0
        /\ Draft \in Nat
    <2>1. c.hist \in Seq(Tokens)
      BY DEF ContextOK, Contexts
    <2> QED BY <2>1, SizesAndWords, EmptySeq
  <1>3. ASSUME NEW t \in TurnStates, t.base = c.len, t.k = 0, Len(t.draft) = 0, Len(t.refused) = 0,
               \/ t.at \in {"pick", "first"} /\ t.budget = budget /\ budget > 0 /\ t.logit = c.hist /\ t.cause = "none"
               \/ t.at = "end" /\ t.budget = 0 /\ t.cause = "cap"
        PROVE  SlotOK(engine.model, engine.greedy, c, t)
    <2>1. Follows(engine.model, c.hist, t.base)
      BY <1>3 DEF Follows
    <2>2. Progress(engine.model, c.hist, t)
      BY <1>3, <2>1 DEF Progress
    <2>3. Avoided(engine.model, engine.greedy, c.hist, t)
      BY <1>3 DEF Avoided
    <2> QED BY <1>2, <1>3, <2>2, <2>3 DEF SlotOK, TurnOK
  <1>4. CASE budget > 0
    <2> DEFINE v == Fresh(budget, c.len, c.hist)
               t == Going(v, at)
    <2>1. ctx' = [ctx EXCEPT ![s] = c] /\ turn' = [turn EXCEPT ![s] = t]
      BY <1>4 DEF Begin, GoOn, Fresh, Going
    <2>2. /\ v \in TurnStates /\ v.budget = budget /\ v.base = c.len /\ v.logit = c.hist
          /\ v.k = 0 /\ Len(v.draft) = 0 /\ Len(v.refused) = 0 /\ v.cause = "none"
      BY <1>2, NewTurn
    <2> HIDE DEF v
    <2>3. /\ t \in TurnStates /\ t.at = at /\ t.budget = budget /\ t.base = c.len /\ t.logit = c.hist
          /\ t.k = 0 /\ Len(t.draft) = 0 /\ Len(t.refused) = 0 /\ t.cause = "none"
      BY <2>2, TurnGoesOn
    <2> HIDE DEF t
    <2>4. SlotOK(engine.model, engine.greedy, c, t)
      BY <1>3, <1>4, <2>3
    <2> QED BY <1>1, <2>1, <2>4, OneSlot
  <1>5. CASE ~(budget > 0)
    <2> DEFINE v == [NoTurn EXCEPT !.base = c.len]
               t == Ended(v, "cap")
    <2>1. ctx' = [ctx EXCEPT ![s] = c] /\ turn' = [turn EXCEPT ![s] = t]
      BY <1>5 DEF Begin, End, GoOn, Ended
    <2>2. v \in TurnStates /\ v.budget = 0 /\ v.base = c.len /\ Len(v.refused) = 0
      <3>1. v \in TurnStates /\ v.budget = NoTurn.budget /\ v.base = c.len /\ v.refused = NoTurn.refused
        BY NoTurnIsATurn DEF TurnStates
      <3> QED BY <3>1, NoTurnIsATurn
    <2> HIDE DEF v
    <2>3. /\ t \in TurnStates /\ t.at = "end" /\ t.budget = 0 /\ t.base = c.len /\ t.k = 0
          /\ Len(t.draft) = 0 /\ Len(t.refused) = 0 /\ t.cause = "cap"
      BY <2>2, TurnEnds
    <2> HIDE DEF t
    <2>4. SlotOK(engine.model, engine.greedy, c, t)
      BY <1>3, <2>3
    <2> QED BY <1>1, <2>1, <2>4, OneSlot
  <1> QED BY <1>4, <1>5
(* The budgets of a turn fit in the context. *)
LEMMA BudgetsFit ==
    ASSUME TurnsInv, NEW len \in Nat
    PROVE  /\ Allowed(len) \in Nat /\ (Allowed(len) > 0 => len + Allowed(len) + 1 <= MaxCtx)
           /\ Least(Budget, Minus(MaxCtx, len + 1)) \in Nat
           /\ (Least(Budget, Minus(MaxCtx, len + 1)) > 0 => len + Least(Budget, Minus(MaxCtx, len + 1)) + 1 <= MaxCtx)
  <1>1. engine.draft \in Nat /\ MaxCtx \in Nat /\ Budget \in Nat
    BY SizesAndWords DEF TurnsInv, EngineOK, Engines
  <1>2. /\ Allowed(len) \in Nat /\ (Allowed(len) > 0 => len + Allowed(len) + 1 <= MaxCtx)
    BY <1>1 DEF Allowed, Least, Minus
  <1> QED BY <1>1, <1>2 DEF Least, Minus

(* The first n words, or all. *)
LEMMA AtMostProperties ==
    ASSUME NEW w \in Seq(Tokens), NEW n \in Nat
    PROVE  /\ AtMost(w, n) \in Seq(Tokens) /\ Len(AtMost(w, n)) <= n /\ Len(AtMost(w, n)) <= Len(w)
           /\ n > 0 /\ w # <<>> => AtMost(w, n) # <<>>
  <1>1. Len(w) \in Nat /\ (w # <<>> => Len(w) > 0) /\ Len(<<>>) = 0
    BY EmptySeq, LenProperties
  <1>2. Least(n, Len(w)) \in 0..Len(w) /\ Least(n, Len(w)) <= n /\ (n > 0 /\ w # <<>> => Least(n, Len(w)) > 0)
    BY <1>1 DEF Least
  <1>3. AtMost(w, n) \in Seq(Tokens) /\ Len(AtMost(w, n)) = Least(n, Len(w))
    BY <1>2, PrefixOf DEF AtMost
  <1> QED BY <1>1, <1>2, <1>3

(* PROMPT. *)
LEMMA PromptKeeps ==
    ASSUME TurnsInv, NEW s \in engine.slots, NEW prompt \in Prompts, Prompt(s, prompt)
    PROVE  TurnsInv'
  <1> DEFINE p == AtMost(prompt, MaxCtx - Spare - engine.draft)
             c == Keep(ctx[s], p)
  <1>1. /\ s \in Slots /\ ContextOK(ctx[s]) /\ engine.turns < MaxTurns /\ engine.draft \in 0..Draft
        /\ turn[s] = NoTurn
    BY OfASlot DEF Prompt, Quiet
  <1>2. prompt \in Seq(Tokens) /\ MaxCtx - Spare - engine.draft \in Nat /\ MaxCtx - Spare - engine.draft <= MaxCtx
    BY <1>1, SizesAndWords, SpecTurnsAssumption
  <1>3. p \in Seq(Tokens) /\ Len(p) \in Nat /\ Len(p) <= MaxCtx
    <2>1. p \in Seq(Tokens) /\ Len(p) <= MaxCtx - Spare - engine.draft
      BY <1>2, AtMostProperties
    <2>2. Len(p) \in Nat
      BY <2>1, LenProperties
    <2> QED BY <1>1, <1>2, <2>1, <2>2, SizesAndWords
  <1>4. \/ p = <<>> /\ GoOn(s, "idle", c, turn[s]) /\ engine' = [engine EXCEPT !.turns = @ + 1, !.sc = s]
        \/ p # <<>> /\ Begin(s, "pick", Prefill(c, p), Allowed(Len(p)))
    BY DEF Prompt
  <1> HIDE DEF p
  <1>5. PrefixOfPrompt(c, p)
    BY <1>1, <1>3, KeptProperties
  <1> HIDE DEF c
  <1>6. CASE p = <<>> /\ GoOn(s, "idle", c, turn[s]) /\ engine' = [engine EXCEPT !.turns = @ + 1, !.sc = s]
    <2>1. ctx' = [ctx EXCEPT ![s] = c] /\ turn' = [turn EXCEPT ![s] = NoTurn]
      <3>1. [NoTurn EXCEPT !.at = "idle"] = NoTurn
        BY DEF NoTurn
      <3> QED BY <1>1, <1>6, <3>1 DEF GoOn
    <2>2. SlotOK(engine.model, engine.greedy, c, NoTurn)
      BY <1>5, IdleIsSound DEF PrefixOfPrompt
    <2> QED BY <1>1, <1>6, <2>1, <2>2, OneSlot, EngineCounts
  <1>7. CASE p # <<>> /\ Begin(s, "pick", Prefill(c, p), Allowed(Len(p)))
    <2> DEFINE d == Prefill(c, p)
               budget == Allowed(Len(p))
    <2>1. ContextOK(d) /\ d.hist = p /\ d.len = Len(p) /\ Last(d.rows) = p /\ Len(p) \in Nat \ {0}
      <3>1. Ready(c, p)
        BY <1>3, <1>5, RowsOfPrompt
      <3>2. Holds(Prefill(c, p), p)
        BY <1>3, <1>7, <3>1, PrefillProperties
      <3> QED BY <3>2 DEF Holds
    <2>2. budget \in Nat /\ (budget > 0 => Len(p) + budget + 1 <= MaxCtx)
      BY <1>3, BudgetsFit
    <2> HIDE DEF d, budget
    <2>3. Begin(s, "pick", d, budget)
      BY <1>7 DEF d, budget
    <2> QED BY <1>1, <2>1, <2>2, <2>3, TurnBegins
  <1> QED BY <1>4, <1>6, <1>7

(* A line of text. *)
LEMMA TextKeeps ==
    ASSUME TurnsInv, NEW s \in engine.slots, NEW input \in Prompts, Text(s, input)
    PROVE  TurnsInv'
  <1> DEFINE c == ctx[s]
             full == c.len + Len(input) + Spare + engine.draft >= MaxCtx
             p == IF full THEN AtMost(input, MaxCtx - Spare - engine.draft) ELSE SubSeq(c.hist, 1, c.len) \o input
             k == [c EXCEPT !.len = IF full THEN 0 ELSE @]
  <1>1. /\ s \in Slots /\ ContextOK(c) /\ engine.turns < MaxTurns /\ engine.draft \in 0..Draft
        /\ c \in Contexts /\ c.len \in Nat /\ c.len <= Len(c.hist) /\ c.len <= Len(c.rows) /\ input # <<>>
        /\ c.hist \in Seq(Tokens) /\ Len(c.hist) \in Nat
        /\ \A j \in 1..c.len : c.rows[j] = SubSeq(c.hist, 1, j)
    BY OfASlot DEF Text, ContextOK
  <1>2. /\ input \in Seq(Tokens) /\ MaxCtx - Spare - engine.draft \in Nat /\ MaxCtx - Spare - engine.draft > 0
        /\ MaxCtx - Spare - engine.draft <= MaxCtx /\ Len(input) \in Nat \ {0}
    <2>1. input \in Seq(Tokens)
      BY SpecTurnsAssumption
    <2>2. Len(input) \in Nat \ {0}
      BY <1>1, <2>1, EmptySeq
    <2> QED BY <1>1, <2>1, <2>2, SizesAndWords
  <1>3. Begin(s, "pick", Prefill(k, p), Allowed(Len(p)))
    BY DEF Text
  <1>4. /\ p \in Seq(Tokens) /\ p # <<>> /\ Len(p) <= MaxCtx
        /\ k \in Contexts /\ k.len <= Len(p) /\ k.len <= Len(k.rows)
        /\ \A j \in 1..k.len : k.rows[j] = SubSeq(p, 1, j)
    <2>1. CASE full
      <3>1. p = AtMost(input, MaxCtx - Spare - engine.draft) /\ k = [c EXCEPT !.len = 0]
        BY <2>1
      <3>2. p \in Seq(Tokens) /\ p # <<>> /\ Len(p) <= MaxCtx - Spare - engine.draft
        BY <1>1, <1>2, <3>1, AtMostProperties
      <3>3. k \in Contexts /\ k.len = 0
        BY <1>1, <3>1 DEF Contexts
      <3> HIDE DEF p, k
      <3>4. Len(p) \in Nat /\ Len(k.rows) \in Nat /\ MaxCtx \in Nat
        BY <3>2, <3>3, SizesAndWords, LenProperties DEF Contexts
      <3> QED BY <1>2, <3>2, <3>3, <3>4
    <2>2. CASE ~full
      <3> DEFINE h == SubSeq(c.hist, 1, c.len)
      <3>1. p = h \o input /\ k = [c EXCEPT !.len = c.len] /\ c.len + Len(input) < MaxCtx
        <4>1. p = h \o input /\ k = [c EXCEPT !.len = c.len]
          BY <2>2, Zenon
        <4>2. ~(c.len + Len(input) + Spare + engine.draft >= MaxCtx)
          BY <2>2
        <4> HIDE DEF p, k, full, h
        <4>3. c.len + Len(input) < MaxCtx
          BY <1>1, <1>2, <4>2, SizesAndWords
        <4> QED BY <4>1, <4>3
      <3>2. h \in Seq(Tokens) /\ Len(h) = c.len /\ \A i \in 1..c.len : h[i] = c.hist[i]
        BY <1>1, PrefixOf
      <3>3. k = c
        BY <1>1, <3>1 DEF Contexts
      <3> HIDE DEF h, p, k
      <3>4. /\ p \in Seq(Tokens) /\ Len(p) = c.len + Len(input) /\ \A i \in 1..c.len : p[i] = c.hist[i]
        <4>1. /\ h \o input \in Seq(Tokens) /\ Len(h \o input) = Len(h) + Len(input)
              /\ \A i \in 1..Len(h) : (h \o input)[i] = h[i]
          BY <1>2, <3>2, Behind
        <4> QED BY <3>1, <3>2, <4>1
      <3>5. ASSUME NEW j \in 1..c.len PROVE c.rows[j] = SubSeq(p, 1, j)
        <4>1. j \in 0..Len(c.hist) /\ j <= Len(p) /\ \A i \in 1..j : c.hist[i] = p[i]
          BY <1>1, <1>2, <3>4
        <4>2. SubSeq(c.hist, 1, j) = SubSeq(p, 1, j)
          BY <1>1, <3>4, <4>1, SamePrefix
        <4> QED BY <1>1, <4>2
      <3>6. Len(p) > 0 /\ c.len <= Len(p) /\ Len(p) <= MaxCtx /\ Len(<<>>) = 0
        <4>1. Len(<<>>) = 0
          OBVIOUS
        <4>2. c.len \in Nat /\ Len(input) \in Nat \ {0} /\ Len(p) = c.len + Len(input) /\ MaxCtx \in Nat
          BY <1>1, <1>2, <3>4, SizesAndWords
        <4>3. Len(p) > 0 /\ c.len <= Len(p) /\ Len(p) <= MaxCtx
          <5>1. c.len + Len(input) < MaxCtx
            BY <3>1
          <5> HIDE DEF c
          <5> QED BY <4>2, <5>1
        <4> QED BY <4>1, <4>3
      <3>7. p # <<>>
        BY <3>6
      <3> QED BY <1>1, <3>3, <3>4, <3>5, <3>6, <3>7
    <2> QED BY <2>1, <2>2
  <1> HIDE DEF p, k, full, c
  <1> DEFINE d == Prefill(k, p)
             budget == Allowed(Len(p))
  <1>5. ContextOK(d) /\ d.hist = p /\ d.len = Len(p) /\ Last(d.rows) = p /\ Len(p) \in Nat \ {0}
    <2>1. Ready(k, p)
      BY <1>4 DEF Ready
    <2>2. Holds(Prefill(k, p), p)
      BY <1>4, <2>1, PrefillProperties
    <2> QED BY <2>2 DEF Holds
  <1>6. budget \in Nat /\ (budget > 0 => Len(p) + budget + 1 <= MaxCtx)
    BY <1>5, BudgetsFit
  <1> HIDE DEF d, budget
  <1>7. Begin(s, "pick", d, budget)
    BY <1>3 DEF d, budget
  <1> QED BY <1>1, <1>5, <1>6, <1>7, TurnBegins

(* MORE. *)
LEMMA MoreKeeps ==
    ASSUME TurnsInv, NEW s \in engine.slots, MoreOf(s)
    PROVE  TurnsInv'
  <1> DEFINE c == ctx[s]
             p == SubSeq(c.hist, 1, c.len)
             d == Prefill(c, p)
             budget == Allowed(c.len)
  <1>1. /\ s \in Slots /\ ContextOK(c) /\ engine.turns < MaxTurns
        /\ c \in Contexts /\ c.len \in Nat /\ c.len <= Len(c.hist) /\ c.len <= Len(c.rows) /\ c.len > 0
        /\ c.hist \in Seq(Tokens) /\ Len(c.hist) \in Nat /\ Len(c.rows) <= MaxCtx /\ Len(c.rows) \in Nat
    BY OfASlot DEF MoreOf
  <1>2. /\ p \in Seq(Tokens) /\ Len(p) = c.len /\ \A j \in 1..c.len : c.rows[j] = SubSeq(p, 1, j)
    <2>1. c.len <= c.len
      BY <1>1
    <2> HIDE DEF c
    <2> QED BY <1>1, <2>1, KeptRows
  <1> HIDE DEF c, p
  <1>3. p # <<>> /\ Len(p) <= MaxCtx /\ c.len <= Len(p)
    BY <1>1, <1>2, EmptySeq, SizesAndWords
  <1>4. ContextOK(d) /\ d.hist = p /\ d.len = Len(p) /\ Last(d.rows) = p /\ Len(p) \in Nat \ {0}
    <2>1. Ready(c, p)
      BY <1>1, <1>2, <1>3 DEF Ready
    <2>2. Holds(Prefill(c, p), p)
      BY <1>2, <1>3, <2>1, PrefillProperties
    <2> QED BY <2>2 DEF Holds
  <1>5. budget \in Nat /\ (budget > 0 => Len(p) + budget + 1 <= MaxCtx)
    BY <1>1, <1>2, BudgetsFit
  <1> HIDE DEF d, budget
  <1>6. Begin(s, "pick", d, budget)
    BY DEF d, budget, MoreOf, c, p
  <1> QED BY <1>1, <1>4, <1>5, <1>6, TurnBegins

(* RESET. *)
LEMMA ResetKeeps ==
    ASSUME TurnsInv, NEW s \in engine.slots, Reset(s)
    PROVE  TurnsInv'
  <1> DEFINE c == [ctx[s] EXCEPT !.hist = <<>>, !.len = 0]
  <1>1. s \in Slots /\ ctx[s] \in Contexts /\ turn[s] = NoTurn /\ Len(ctx[s].rows) <= MaxCtx
        /\ Len(ctx[s].rows) \in Nat
    BY OfASlot DEF Reset, Quiet
  <1>2. ctx' = [ctx EXCEPT ![s] = c] /\ turn' = [turn EXCEPT ![s] = NoTurn]
    <2>1. [NoTurn EXCEPT !.at = "idle"] = NoTurn
      BY DEF NoTurn
    <2> QED BY <1>1, <2>1 DEF GoOn, Reset
  <1>3. <<>> \in Seq(Tokens) /\ Len(<<>>) = 0
    BY EmptySeq
  <1>4. c \in Contexts /\ c.hist = <<>> /\ c.len = 0 /\ c.rows = ctx[s].rows
    BY <1>1, <1>3 DEF Contexts
  <1> HIDE DEF c
  <1>5. SlotOK(engine.model, engine.greedy, c, NoTurn)
    <2>1. ContextOK(c)
      BY <1>1, <1>3, <1>4 DEF ContextOK
    <2> QED BY <1>3, <1>4, <2>1, IdleIsSound
  <1>6. EngineOK' /\ engine' = engine
    BY DEF Reset, TurnsInv, EngineOK
  <1> QED BY <1>1, <1>2, <1>5, <1>6, OneSlot

(* mux_submit. *)
LEMMA SubmitKeeps ==
    ASSUME TurnsInv, NEW s \in engine.slots, NEW p \in Prompts, Submit(s, p)
    PROVE  TurnsInv'
  <1> DEFINE a == Adopt(s, Keep(ctx[s], p), p)
             d == Prefill(a, p)
             budget == Least(Budget, Minus(MaxCtx, Len(p) + 1))
             at == IF engine.draft > 0 THEN "pick" ELSE "first"
  <1>1. /\ s \in Slots /\ ContextOK(ctx[s]) /\ engine.turns < MaxTurns /\ p # <<>> /\ Len(p) <= MaxCtx - 2
    BY OfASlot DEF Submit
  <1>2. p \in Seq(Tokens) /\ Len(p) \in Nat /\ Len(p) <= MaxCtx
    <2>1. p \in Seq(Tokens)
      BY SpecTurnsAssumption
    <2>2. Len(p) \in Nat /\ MaxCtx \in Nat
      BY <2>1, LenProperties, SizesAndWords
    <2> QED BY <1>1, <2>1, <2>2
  <1>3. PrefixOfPrompt(a, p)
    BY <1>1, <1>2, KeptProperties, AdoptProperties
  <1> HIDE DEF a
  <1>4. ContextOK(d) /\ d.hist = p /\ d.len = Len(p) /\ Last(d.rows) = p /\ Len(p) \in Nat \ {0}
    <2>1. Ready(a, p)
      BY <1>2, <1>3, RowsOfPrompt
    <2>2. Holds(Prefill(a, p), p)
      BY <1>1, <1>2, <2>1, PrefillProperties
    <2> QED BY <2>2 DEF Holds
  <1>5. budget \in Nat /\ (budget > 0 => Len(p) + budget + 1 <= MaxCtx)
    BY <1>2, BudgetsFit
  <1>6. at \in {"pick", "first"}
    OBVIOUS
  <1> HIDE DEF d, budget, at
  <1>7. Begin(s, at, d, budget)
    BY DEF d, budget, at, a, Submit
  <1> QED BY <1>1, <1>4, <1>5, <1>6, <1>7, TurnBegins
----------------------------------------------------------------------------
(* What is said, and how a turn goes on and ends.                          *)

\* A turn that is decoding: its history follows the model, within its budget.
Underway(m, past, t) ==
    /\ t \in TurnStates /\ past \in Seq(Tokens) /\ m \in Models
    /\ t.base \in 1..Len(past) /\ Len(past) <= t.base + t.budget
    /\ t.budget > 0 => t.base + t.budget + 1 <= MaxCtx
    /\ Follows(m, past, t.base)
    /\ t.cause = "none" /\ Len(t.draft) <= Draft

\* What was refused, if anything, was already replaced.
Replaced(past, t) ==
    \/ Len(t.refused) = 0
    \/ Len(t.refused) <= Len(past) /\ past[Len(t.refused)] # t.refused[Len(t.refused)]

(* What the invariant says of a turn that is decoding. *)
LEMMA WhileDecoding ==
    ASSUME TurnsInv, NEW s \in engine.slots, turn[s].at \notin {"idle", "end"}
    PROVE  /\ Underway(engine.model, ctx[s].hist, turn[s])
           /\ turn[s].at # "pick" => Replaced(ctx[s].hist, turn[s])
           /\ turn[s].at \in {"first", "draft", "round", "rows"}
                => Len(ctx[s].hist) < turn[s].base + turn[s].budget
           /\ turn[s].k \in Nat /\ turn[s].base \in Nat /\ turn[s].budget \in Nat /\ Draft \in Nat
           /\ turn[s].draft \in Seq(Sayable) /\ Len(turn[s].draft) \in Nat
           /\ turn[s].refused \in Seq(Sayable) /\ Len(turn[s].refused) \in Nat
  <1>1. /\ TurnOK(engine.model, engine.greedy, ctx[s], turn[s]) /\ turn[s] \in TurnStates
        /\ ctx[s].hist \in Seq(Tokens) /\ Len(ctx[s].hist) \in Nat /\ engine.model \in Models
    BY OfASlot
  <1>2. Progress(engine.model, ctx[s].hist, turn[s]) /\ Avoided(engine.model, engine.greedy, ctx[s].hist, turn[s])
        /\ Len(turn[s].draft) <= Draft
    BY <1>1 DEF TurnOK
  <1>3. Underway(engine.model, ctx[s].hist, turn[s])
    BY <1>1, <1>2 DEF Progress, Underway
  <1>4. turn[s].at # "pick" => Replaced(ctx[s].hist, turn[s])
    BY <1>2 DEF Avoided, Replaced
  <1>5. turn[s].at \in {"first", "draft", "round", "rows"} => Len(ctx[s].hist) < turn[s].base + turn[s].budget
    BY <1>2 DEF Progress
  <1>6. turn[s].k \in Nat /\ turn[s].draft \in Seq(Sayable) /\ turn[s].refused \in Seq(Sayable)
        /\ turn[s].base \in Nat /\ turn[s].budget \in Nat
    BY <1>1 DEF TurnStates
  <1> QED BY <1>3, <1>4, <1>5, <1>6, SizesAndWords, LenProperties

(* A history has a last token, and the model gives something after it. *)
LEMMA ModelGoesOn ==
    ASSUME NEW m, NEW past, NEW t, Underway(m, past, t)
    PROVE  /\ Len(past) \in Nat \ {0} /\ Last(past) \in Tokens /\ Last(past) = past[Len(past)]
           /\ m[Last(past)] \subseteq Sayable /\ m[Last(past)] # {}
           /\ t.base \in Nat /\ t.budget \in Nat
  <1>1. past \in Seq(Tokens) /\ m \in Models /\ t.base \in 1..Len(past) /\ t \in TurnStates
    BY DEF Underway
  <1>2. Len(past) \in Nat \ {0}
    BY <1>1, LenProperties
  <1>3. past[Len(past)] \in Tokens
    BY <1>1, <1>2, ElementOfSeq
  <1>4. t.base \in Nat /\ t.budget \in Nat
    BY <1>1 DEF TurnStates
  <1> QED BY <1>1, <1>2, <1>3, <1>4, SizesAndWords DEF Last

(* Say: the history has a token more, the rows are as they were. *)
LEMMA SaidProperties ==
    ASSUME NEW c, ContextOK(c), NEW token \in Tokens
    PROVE  /\ ContextOK(Say(c, token))
           /\ Say(c, token).hist = Append(c.hist, token) /\ Say(c, token).len = c.len
           /\ Say(c, token).rows = c.rows
           /\ Append(c.hist, token) \in Seq(Tokens) /\ Len(Append(c.hist, token)) = Len(c.hist) + 1
           /\ Append(c.hist, token)[Len(c.hist) + 1] = token
           /\ \A i \in 1..Len(c.hist) : Append(c.hist, token)[i] = c.hist[i]
  <1>1. c \in Contexts /\ c.hist \in Seq(Tokens) /\ c.len \in Nat /\ c.len <= Len(c.hist) /\ c.len <= Len(c.rows)
        /\ Len(c.rows) <= MaxCtx /\ \A n \in 1..c.len : c.rows[n] = SubSeq(c.hist, 1, n)
    BY DEF ContextOK, Contexts
  <1> DEFINE h == Append(c.hist, token)
             d == Say(c, token)
  <1>2. /\ h \in Seq(Tokens) /\ Len(h) = Len(c.hist) + 1 /\ h[Len(c.hist) + 1] = token /\ Len(c.hist) \in Nat
        /\ \A i \in 1..Len(c.hist) : h[i] = c.hist[i]
        /\ \A n \in 0..Len(c.hist) : SubSeq(h, 1, n) = SubSeq(c.hist, 1, n)
    BY <1>1, OneMore, LenProperties
  <1>3. d = [c EXCEPT !.hist = h]
    BY DEF Say
  <1> HIDE DEF h, d
  <1>4. d \in Contexts /\ d.hist = h /\ d.len = c.len /\ d.rows = c.rows
    BY <1>1, <1>2, <1>3 DEF Contexts
  <1>5. ASSUME NEW n \in 1..c.len PROVE d.rows[n] = SubSeq(d.hist, 1, n)
    <2>1. n \in 0..Len(c.hist)
      BY <1>1, <1>2
    <2> QED BY <1>1, <1>2, <1>4, <2>1
  <1>6. ContextOK(d)
    BY <1>1, <1>2, <1>4, <1>5 DEF ContextOK
  <1> QED BY <1>2, <1>4, <1>6 DEF h, d

(* A token the model gives keeps the history one of the model. *)
LEMMA SaidFollows ==
    ASSUME NEW m, NEW past, NEW t, Underway(m, past, t), NEW token \in Tokens, token \in m[Last(past)],
           Len(past) < t.base + t.budget
    PROVE  Underway(m, Append(past, token), t)
  <1> DEFINE h == Append(past, token)
  <1>1. /\ past \in Seq(Tokens) /\ Len(past) \in Nat \ {0} /\ t.base \in 1..Len(past) /\ t.budget \in Nat
        /\ t.base \in Nat /\ Last(past) = past[Len(past)] /\ Follows(m, past, t.base)
    BY ModelGoesOn DEF Underway
  <1>2. /\ h \in Seq(Tokens) /\ Len(h) = Len(past) + 1 /\ h[Len(past) + 1] = token
        /\ \A i \in 1..Len(past) : h[i] = past[i]
    BY <1>1, OneMore
  <1> HIDE DEF h
  <1>3. ASSUME NEW n \in (t.base + 1)..Len(h) PROVE h[n] \in m[h[n - 1]]
    <2>1. CASE n <= Len(past)
      <3>1. n \in (t.base + 1)..Len(past) /\ n \in 1..Len(past) /\ n - 1 \in 1..Len(past)
        BY <1>1, <1>2, <2>1
      <3>2. past[n] \in m[past[n - 1]]
        BY <1>1, <3>1 DEF Follows
      <3> QED BY <1>2, <3>1, <3>2
    <2>2. CASE ~(n <= Len(past))
      <3>1. n = Len(past) + 1 /\ n - 1 = Len(past) /\ Len(past) \in 1..Len(past)
        BY <1>1, <1>2, <2>2
      <3> QED BY <1>1, <1>2, <3>1
    <2> QED BY <2>1, <2>2
  <1>4. Follows(m, h, t.base)
    BY <1>3 DEF Follows
  <1>5. t.base \in 1..Len(h) /\ Len(h) <= t.base + t.budget
    BY <1>1, <1>2
  <1> QED BY <1>2, <1>4, <1>5 DEF Underway, h

(* What was replaced stays so when more is said. *)
LEMMA StaysReplaced ==
    ASSUME NEW past \in Seq(Tokens), NEW token \in Tokens, NEW t \in TurnStates,
           \/ Replaced(past, t)
           \/ Len(t.refused) = Len(past) + 1 /\ token # t.refused[Len(t.refused)]
    PROVE  Replaced(Append(past, token), t)
  <1> DEFINE h == Append(past, token)
             n == Len(t.refused)
  <1>1. /\ Len(h) = Len(past) + 1 /\ h[Len(past) + 1] = token /\ \A i \in 1..Len(past) : h[i] = past[i]
        /\ Len(past) \in Nat /\ n \in Nat
    <2>1. t.refused \in Seq(Sayable)
      BY DEF TurnStates
    <2> QED BY <2>1, OneMore, LenProperties
  <1> HIDE DEF h
  <1>2. CASE n = 0
    BY <1>2 DEF Replaced
  <1>3. CASE n # 0 /\ n <= Len(past) /\ past[n] # t.refused[n]
    <2>1. n \in 1..Len(past) /\ n <= Len(h)
      BY <1>1, <1>3
    <2>2. h[n] # t.refused[n]
      BY <1>1, <1>3, <2>1
    <2> QED BY <2>1, <2>2 DEF Replaced, h
  <1>4. CASE n = Len(past) + 1 /\ token # t.refused[n]
    <2>1. n <= Len(h) /\ h[n] # t.refused[n]
      BY <1>1, <1>4
    <2> QED BY <2>1 DEF Replaced, h
  <1> QED BY <1>2, <1>3, <1>4 DEF Replaced

(* End: a turn that is decoding ends well. *)
LEMMA EndIsSound ==
    ASSUME NEW m, NEW g, NEW c, ContextOK(c), NEW t, Underway(m, c.hist, t),
           NEW cause \in {"cap", "stop", "cut"},
           cause = "cap" => Len(c.hist) >= t.base + t.budget,
           cause = "stop" => Stop \in m[Last(c.hist)],
           Replaced(c.hist, t) \/ Len(t.refused) > Len(c.hist)
    PROVE  SlotOK(m, g, c, Ended(t, cause))
  <1> DEFINE u == Ended(t, cause)
  <1>1. t \in TurnStates /\ Draft \in Nat
    BY SizesAndWords DEF Underway
  <1>2. /\ u \in TurnStates /\ u.at = "end" /\ u.budget = t.budget /\ u.base = t.base
        /\ Len(u.draft) = 0 /\ u.k = 0 /\ u.cause = cause /\ u.refused = t.refused
    BY <1>1, TurnEnds
  <1> HIDE DEF u
  <1>3. Progress(m, c.hist, u)
    BY <1>2 DEF Progress, Underway
  <1>4. Avoided(m, g, c.hist, u)
    BY <1>2 DEF Avoided, Replaced
  <1> QED BY <1>1, <1>2, <1>3, <1>4 DEF SlotOK, TurnOK, u
----------------------------------------------------------------------------
(* Picks, and the ends of turns.                                           *)

(* A turn that goes on: nothing but where it is changes. *)
LEMMA UnderwayStays ==
    ASSUME NEW m, NEW past, NEW t, Underway(m, past, t),
           NEW u \in TurnStates, u.budget = t.budget, u.base = t.base, u.cause = t.cause, Len(u.draft) <= Draft
    PROVE  Underway(m, past, u)
  BY DEF Underway

\* The logits of the last pick are gone.
Picked(t) == [t EXCEPT !.logit = <<>>, !.ban = {}]

(* The record otherwise stays. *)
LEMMA PickedRecord ==
    ASSUME NEW t \in TurnStates, NEW u, u = Picked(t)
    PROVE  /\ u \in TurnStates /\ u.at = t.at /\ u.budget = t.budget /\ u.base = t.base /\ u.draft = t.draft
           /\ u.k = t.k /\ u.cause = t.cause /\ u.refused = t.refused
  <1>1. <<>> \in Seq(Sayable)
    BY EmptySeq
  <1> QED BY <1>1 DEF TurnStates, Picked

(* spec_decode picks a token: never the one that was refused. *)
LEMMA PickKeeps ==
    ASSUME TurnsInv, NEW s \in engine.slots, PickToken(s)
    PROVE  TurnsInv'
  <1> DEFINE c == ctx[s]
             t == turn[s]
             m == engine.model
             g == engine.greedy
             u == Picked(t)
             past == c.hist
  <1>1. /\ t.at = "pick" /\ ~Leaving(t, Emitted(s)) /\ engine' = engine
        /\ \E token \in Pickable(t) :
              IF token = Stop THEN End(s, "stop", c, u)
              ELSE IF Emitted(s) + 1 >= t.budget THEN End(s, "cap", Say(c, token), u)
              ELSE GoOn(s, "draft", Say(c, token), u)
    <2>1. Picked(t).budget = t.budget
      BY OfASlot, PickedRecord
    <2> QED BY <2>1 DEF PickToken, Picked
  <1>2. /\ s \in Slots /\ ContextOK(c) /\ TurnOK(m, g, c, t) /\ t \in TurnStates /\ past \in Seq(Tokens)
        /\ EngineOK' /\ engine'.model = m /\ engine'.greedy = g /\ Len(past) \in Nat
    BY <1>1, OfASlot DEF TurnsInv, EngineOK
  <1>3. Underway(m, past, t) /\ t.base \in Nat /\ t.budget \in Nat /\ t.k \in Nat
    BY <1>1, WhileDecoding
  <1>4. /\ t.logit = past /\ Len(past) = c.len /\ Avoided(m, g, past, t) /\ t.k <= Len(t.draft) /\ Len(t.draft) <= Draft
    BY <1>1, <1>2 DEF TurnOK
  <1>5. Len(past) < t.base + t.budget
    <2>1. Emitted(s) = Len(past) - t.base /\ ~(Emitted(s) >= t.budget)
      BY <1>1 DEF Leaving, Emitted
    <2> QED BY <1>2, <1>3, <2>1
  <1>6. PICK token \in Pickable(t) :
           IF token = Stop THEN End(s, "stop", c, u)
           ELSE IF Emitted(s) + 1 >= t.budget THEN End(s, "cap", Say(c, token), u)
           ELSE GoOn(s, "draft", Say(c, token), u)
    BY <1>1
  <1>7. /\ u \in TurnStates /\ u.at = t.at /\ u.budget = t.budget /\ u.base = t.base /\ u.draft = t.draft
        /\ u.k = t.k /\ u.cause = t.cause /\ u.refused = t.refused
    BY <1>2, PickedRecord
  <1>8. Underway(m, past, u)
    BY <1>3, <1>4, <1>7, UnderwayStays
  <1>9. token \in m[Last(past)] /\ m[Last(past)] \subseteq Sayable /\ m[Last(past)] # {}
    <2>1. Likely(t.logit) = m[Last(past)]
      BY <1>4 DEF Likely
    <2>2. m[Last(past)] \subseteq Sayable /\ m[Last(past)] # {}
      BY <1>3, ModelGoesOn
    <2> QED BY <2>1, <2>2 DEF Pickable
  <1>10. Replaced(past, u) \/ (Len(u.refused) = Len(past) + 1 /\ token # u.refused[Len(u.refused)])
    <2> DEFINE n == Len(t.refused)
               r == t.refused[n]
    <2>1. CASE Replaced(past, t)
      BY <1>7, <2>1 DEF Replaced
    <2>2. CASE ~Replaced(past, t)
      <3>1. /\ n = Len(past) + 1 /\ (g => r \notin m[Last(past)])
            /\ (~g => t.ban = {r} /\ m[Last(past)] # {r})
        BY <1>1, <1>4, <2>2 DEF Avoided, Replaced
      <3>2. token # r
        <4>1. CASE g
          BY <1>9, <3>1, <4>1
        <4>2. CASE ~g
          <5>1. t.ban = {r} /\ ~(m[Last(past)] \subseteq t.ban)
            BY <1>9, <3>1, <4>2
          <5>2. Likely(t.logit) = m[Last(past)]
            BY <1>4 DEF Likely
          <5>3. token \in m[Last(past)] \ t.ban
            BY <4>2, <5>1, <5>2 DEF Pickable
          <5> QED BY <5>1, <5>3
        <4> QED BY <4>1, <4>2
      <3> QED BY <1>7, <3>1, <3>2
    <2> QED BY <2>1, <2>2
  <1> HIDE DEF c, t, u
  <1>11. CASE token = Stop
    <2>1. ctx' = [ctx EXCEPT ![s] = c] /\ turn' = [turn EXCEPT ![s] = Ended(u, "stop")]
      BY <1>6, <1>11 DEF End, GoOn, Ended
    <2>2. Replaced(past, u) \/ Len(u.refused) > Len(past)
      BY <1>2, <1>10
    <2>3. SlotOK(m, g, c, Ended(u, "stop"))
      BY <1>2, <1>8, <1>9, <1>11, <2>2, EndIsSound
    <2> QED BY <1>2, <2>1, <2>3, OneSlot
  <1>12. CASE token # Stop
    <2> DEFINE d == Say(c, token)
    <2>1. token \in Tokens
      BY <1>9, <1>12, SizesAndWords
    <2>2. ContextOK(d) /\ d.hist = Append(past, token) /\ d.len = c.len /\ Len(d.hist) = Len(past) + 1
      BY <1>2, <2>1, SaidProperties
    <2>3. Underway(m, d.hist, u)
      BY <1>5, <1>7, <1>8, <1>9, <2>1, <2>2, SaidFollows
    <2>4. Replaced(d.hist, u)
      BY <1>2, <1>7, <1>10, <2>1, <2>2, StaysReplaced
    <2>5. Emitted(s) = Len(past) - t.base
      BY DEF Emitted, c, t
    <2> HIDE DEF d
    <2>6. CASE Emitted(s) + 1 >= t.budget
      <3>1. ctx' = [ctx EXCEPT ![s] = d] /\ turn' = [turn EXCEPT ![s] = Ended(u, "cap")]
        BY <1>6, <1>12, <2>6 DEF End, GoOn, Ended, d
      <3>2. Len(d.hist) >= u.base + u.budget
        BY <1>2, <1>3, <1>7, <2>2, <2>5, <2>6
      <3>3. SlotOK(m, g, d, Ended(u, "cap"))
        BY <2>2, <2>3, <2>4, <3>2, EndIsSound
      <3> QED BY <1>2, <3>1, <3>3, OneSlot
    <2>7. CASE ~(Emitted(s) + 1 >= t.budget)
      <3> DEFINE v == Going(u, "draft")
      <3>1. ctx' = [ctx EXCEPT ![s] = d] /\ turn' = [turn EXCEPT ![s] = v]
        BY <1>6, <1>12, <2>7 DEF GoOn, Going, d
      <3>2. /\ v \in TurnStates /\ v.at = "draft" /\ v.budget = u.budget /\ v.base = u.base
            /\ v.draft = u.draft /\ v.k = u.k /\ v.cause = u.cause /\ v.refused = u.refused
        BY <1>7, TurnGoesOn
      <3> HIDE DEF v
      <3>3. Len(d.hist) < v.base + v.budget
        BY <1>2, <1>3, <1>7, <2>2, <2>5, <2>7, <3>2
      <3>4. Progress(m, d.hist, v)
        BY <2>3, <3>2, <3>3 DEF Progress, Underway
      <3>5. Avoided(m, g, d.hist, v)
        BY <2>4, <3>2 DEF Avoided, Replaced
      <3>6. Len(v.draft) <= Draft /\ v.k <= Len(v.draft) /\ v.k <= Len(v.draft) + 1
        <4>1. Len(t.draft) \in Nat
          BY <1>2, LenProperties DEF TurnStates
        <4> QED BY <1>3, <1>4, <1>7, <3>2, <4>1
      <3>7. TurnOK(m, g, d, v)
        BY <1>4, <2>2, <3>2, <3>4, <3>5, <3>6 DEF TurnOK
      <3> QED BY <1>2, <2>2, <3>1, <3>7, OneSlot DEF SlotOK
    <2> QED BY <2>6, <2>7
  <1> QED BY <1>11, <1>12

(* spec_decode leaves its loop. *)
LEMMA LeaveKeeps ==
    ASSUME TurnsInv, NEW s \in engine.slots, LeaveLoop(s)
    PROVE  TurnsInv'
  <1> DEFINE c == ctx[s]
             t == turn[s]
             cause == IF t.cut THEN "cut" ELSE "cap"
  <1>1. t.at = "pick" /\ Leaving(t, Emitted(s)) /\ engine' = engine /\ End(s, cause, c, t)
    BY DEF LeaveLoop
  <1>2. /\ s \in Slots /\ ContextOK(c) /\ TurnOK(engine.model, engine.greedy, c, t) /\ Len(c.hist) \in Nat
        /\ EngineOK' /\ engine'.model = engine.model /\ engine'.greedy = engine.greedy
    BY <1>1, OfASlot DEF TurnsInv, EngineOK
  <1>3. Underway(engine.model, c.hist, t) /\ t.base \in Nat /\ t.budget \in Nat
    BY <1>1, WhileDecoding
  <1>4. cause = "cap" => Len(c.hist) >= t.base + t.budget
    <2>1. cause = "cap" => Emitted(s) >= t.budget
      BY <1>1 DEF Leaving
    <2>2. Emitted(s) = Len(c.hist) - t.base
      BY DEF Emitted
    <2> QED BY <1>2, <1>3, <2>1, <2>2
  <1>5. Replaced(c.hist, t) \/ Len(t.refused) > Len(c.hist)
    <2>1. Avoided(engine.model, engine.greedy, c.hist, t)
      BY <1>2 DEF TurnOK
    <2> QED BY <1>1, <1>2, <2>1 DEF Avoided, Replaced
  <1>6. ctx' = [ctx EXCEPT ![s] = c] /\ turn' = [turn EXCEPT ![s] = Ended(t, cause)]
    BY <1>1 DEF End, GoOn, Ended
  <1>7. cause \in {"cap", "stop", "cut"} /\ cause # "stop"
    OBVIOUS
  <1> HIDE DEF c, t, cause
  <1>8. SlotOK(engine.model, engine.greedy, c, Ended(t, cause))
    BY <1>2, <1>3, <1>4, <1>5, <1>7, EndIsSound
  <1> QED BY <1>2, <1>6, <1>8, OneSlot

(* STOP, CANCEL or SIGINT between two rounds. *)
LEMMA CutKeeps ==
    ASSUME TurnsInv, NEW s \in engine.slots, Cut(s)
    PROVE  TurnsInv'
  <1>1. turn[s].at = "round" /\ engine' = engine /\ End(s, "cut", ctx[s], turn[s])
    BY DEF Cut
  <1>2. /\ s \in Slots /\ ContextOK(ctx[s])
        /\ EngineOK' /\ engine'.model = engine.model /\ engine'.greedy = engine.greedy
    BY <1>1, OfASlot DEF TurnsInv, EngineOK
  <1>3. Underway(engine.model, ctx[s].hist, turn[s]) /\ Replaced(ctx[s].hist, turn[s])
    BY <1>1, WhileDecoding
  <1>4. ctx' = [ctx EXCEPT ![s] = ctx[s]] /\ turn' = [turn EXCEPT ![s] = Ended(turn[s], "cut")]
    BY <1>1 DEF End, GoOn, Ended
  <1>5. SlotOK(engine.model, engine.greedy, ctx[s], Ended(turn[s], "cut"))
    BY <1>2, <1>3, EndIsSound
  <1> QED BY <1>2, <1>4, <1>5, OneSlot

(* The tail of a turn. *)
LEMMA FinishKeeps ==
    ASSUME TurnsInv, NEW s \in engine.slots, FinishTurn(s)
    PROVE  TurnsInv'
  <1> DEFINE c == [ctx[s] EXCEPT !.hist = SubSeq(@, 1, ctx[s].len)]
  <1>1. /\ s \in Slots /\ ContextOK(ctx[s]) /\ engine' = engine
        /\ EngineOK' /\ engine'.model = engine.model /\ engine'.greedy = engine.greedy
        /\ ctx[s] \in Contexts /\ ctx[s].len \in Nat /\ ctx[s].len <= Len(ctx[s].rows)
        /\ Len(ctx[s].rows) <= MaxCtx
    BY OfASlot DEF TurnsInv, EngineOK, FinishTurn
  <1>2. ctx' = [ctx EXCEPT ![s] = c] /\ turn' = [turn EXCEPT ![s] = NoTurn]
    <2>1. [NoTurn EXCEPT !.at = "idle"] = NoTurn
      BY DEF NoTurn
    <2> QED BY <1>1, <2>1 DEF GoOn, FinishTurn
  <1>3. /\ SubSeq(ctx[s].hist, 1, ctx[s].len) \in Seq(Tokens)
        /\ Len(SubSeq(ctx[s].hist, 1, ctx[s].len)) = ctx[s].len
        /\ \A j \in 1..ctx[s].len : ctx[s].rows[j] = SubSeq(SubSeq(ctx[s].hist, 1, ctx[s].len), 1, j)
    <2>1. ctx[s].len <= ctx[s].len
      BY <1>1
    <2> QED BY <1>1, <2>1, KeptRows
  <1>4. c \in Contexts /\ c.hist = SubSeq(ctx[s].hist, 1, ctx[s].len) /\ c.len = ctx[s].len /\ c.rows = ctx[s].rows
    BY <1>1, <1>3 DEF Contexts
  <1> HIDE DEF c
  <1>5. ContextOK(c) /\ Len(c.hist) = c.len
    BY <1>1, <1>3, <1>4 DEF ContextOK
  <1>6. SlotOK(engine.model, engine.greedy, c, NoTurn)
    BY <1>5, IdleIsSound
  <1> QED BY <1>1, <1>2, <1>6, OneSlot

(* SIGINT, STOP or CANCEL while a turn is decoded. *)
LEMMA InterruptKeeps ==
    ASSUME TurnsInv, NEW s \in engine.slots, Interrupt(s)
    PROVE  TurnsInv'
  <1> DEFINE c == ctx[s]
             t == turn[s]
             u == [t EXCEPT !.cut = TRUE]
  <1>1. /\ t.at \in {"draft", "verify", "pick"} /\ engine' = engine
        /\ ctx' = ctx /\ turn' = [turn EXCEPT ![s] = u]
    BY DEF Interrupt
  <1>2. /\ s \in Slots /\ ContextOK(c) /\ TurnOK(engine.model, engine.greedy, c, t) /\ t \in TurnStates
        /\ EngineOK' /\ engine'.model = engine.model /\ engine'.greedy = engine.greedy
        /\ ctx' = [ctx EXCEPT ![s] = c]
    BY <1>1, OfASlot DEF TurnsInv, EngineOK
  <1>3. /\ u \in TurnStates /\ u.at = t.at /\ u.budget = t.budget /\ u.base = t.base /\ u.logit = t.logit
        /\ u.ban = t.ban /\ u.draft = t.draft /\ u.k = t.k /\ u.cause = t.cause /\ u.refused = t.refused
    BY <1>2 DEF TurnStates
  <1> HIDE DEF c, t, u
  <1>4. Progress(engine.model, c.hist, u) /\ Avoided(engine.model, engine.greedy, c.hist, u)
    <2>1. Progress(engine.model, c.hist, t) /\ Avoided(engine.model, engine.greedy, c.hist, t)
      BY <1>1, <1>2 DEF TurnOK
    <2> QED BY <1>3, <2>1 DEF Progress, Avoided
  <1>5. TurnOK(engine.model, engine.greedy, c, u)
    BY <1>1, <1>2, <1>3, <1>4 DEF TurnOK
  <1> QED BY <1>1, <1>2, <1>5, OneSlot DEF SlotOK
----------------------------------------------------------------------------
(* Batches: the pending token and the drafts behind it.                    *)

(* Drafts are short sequences of words. *)
LEMMA DraftsAreWords ==
    ASSUME NEW d \in Drafts
    PROVE  d \in Seq(Sayable) /\ Len(d) \in 0..Draft
  <1>1. Draft \in Nat
    BY SizesAndWords
  <1>2. CASE d = <<>>
    <2>1. <<>> \in Seq(Sayable) /\ Len(<<>>) = 0
      BY EmptySeq
    <2> QED BY <1>1, <1>2, <2>1
  <1>3. CASE d # <<>>
    <2>1. PICK n \in 1..Draft : d \in [1..n -> Sayable]
      BY <1>3 DEF Drafts, Sayable
    <2>2. n \in Nat /\ n \in 0..Draft
      BY <1>1
    <2>3. d \in Seq(Sayable) /\ Len(d) = n
      BY <2>1, <2>2
    <2> QED BY <2>2, <2>3
  <1> QED BY <1>2, <1>3

\* One word: the last of a history, after n others.
TheLast(past, n, u) == Len(past) = n + 1 /\ Len(u) = 1 /\ u[1] = past[n + 1]

\* A history and drafts, and its last with the drafts: what comes after the n others.
Adjoined(S, past, n, draft, u) ==
    /\ past \o draft \in Seq(S) /\ Len(past \o draft) = Len(past) + Len(draft)
    /\ \A i \in 1..Len(past) : (past \o draft)[i] = past[i]
    /\ \A i \in 1..Len(draft) : (past \o draft)[Len(past) + i] = draft[i]
    /\ n \in 0..Len(past \o draft) /\ u \o draft \in Seq(S)
    /\ u \o draft = SubSeq(past \o draft, n + 1, Len(past \o draft))

(* The last of the history and the drafts are what comes after the others. *)
LEMMA PendingAndDrafts ==
    ASSUME NEW S, NEW past \in Seq(S), NEW n \in Nat, NEW draft \in Seq(S),
           NEW u \in Seq(S), TheLast(past, n, u)
    PROVE  Adjoined(S, past, n, draft, u)
  <1>1. Len(past) \in Nat /\ Len(draft) \in Nat
    BY LenProperties
  <1> DEFINE w == past \o draft
             batch == u \o draft
  <1>2. /\ w \in Seq(S) /\ Len(w) = Len(past) + Len(draft)
        /\ \A i \in 1..Len(past) : w[i] = past[i]
        /\ \A i \in 1..Len(draft) : w[Len(past) + i] = draft[i]
    BY Behind
  <1>3. /\ batch \in Seq(S) /\ Len(batch) = Len(u) + Len(draft)
        /\ \A i \in 1..Len(u) : batch[i] = u[i]
        /\ \A i \in 1..Len(draft) : batch[Len(u) + i] = draft[i]
    BY Behind
  <1> HIDE DEF w, batch
  <1>4. /\ batch \in Seq(S) /\ Len(batch) = 1 + Len(draft) /\ batch[1] = past[n + 1]
        /\ \A i \in 1..Len(draft) : batch[1 + i] = draft[i]
    <2>1. 1 \in 1..Len(u)
      BY DEF TheLast
    <2> QED BY <1>3, <2>1 DEF TheLast
  <1>5. /\ n \in 0..Len(w) /\ Len(w) \in n..Len(w) /\ Len(w) = n + 1 + Len(draft) /\ Len(w) - n = 1 + Len(draft)
    BY <1>1, <1>2 DEF TheLast
  <1> DEFINE v == SubSeq(w, n + 1, Len(w))
             l == Len(w)
  <1>6. v \in Seq(S) /\ Len(v) = Len(w) - n /\ \A i \in 1..(Len(w) - n) : v[i] = w[n + i]
    <2>1. w \in Seq(S) /\ n \in 0..Len(w) /\ l \in n..Len(w)
      BY <1>2, <1>5
    <2> HIDE DEF l
    <2>2. /\ SubSeq(w, n + 1, l) \in Seq(S) /\ Len(SubSeq(w, n + 1, l)) = l - n
          /\ \A i \in 1..(l - n) : SubSeq(w, n + 1, l)[i] = w[n + i]
      BY <2>1, PrefixAndRest
    <2> QED BY <2>2 DEF l
  <1> HIDE DEF v
  <1>7. Len(batch) = Len(v)
    BY <1>4, <1>5, <1>6
  <1>8. ASSUME NEW i \in 1..Len(batch) PROVE batch[i] = v[i]
    <2>1. CASE i = 1
      <3>1. n + 1 \in 1..Len(past) /\ 1 \in 1..(Len(w) - n)
        BY <1>1, <1>5 DEF TheLast
      <3> QED BY <1>2, <1>4, <1>6, <2>1, <3>1
    <2>2. CASE i # 1
      <3>1. PICK h \in 1..Len(draft) : i = 1 + h
        <4>1. i - 1 \in 1..Len(draft) /\ i = 1 + (i - 1)
          BY <1>1, <1>4, <2>2
        <4> QED BY <4>1
      <3>2. 1 + h \in 1..(Len(w) - n) /\ n + (1 + h) = Len(past) + h
        BY <1>1, <1>5 DEF TheLast
      <3>3. v[1 + h] = w[Len(past) + h]
        BY <1>6, <3>2
      <3> QED BY <1>2, <1>4, <3>1, <3>3
    <2> QED BY <2>1, <2>2
  <1>9. batch = v
    BY <1>4, <1>6, <1>7, <1>8, SeqEqual
  <1> QED BY <1>2, <1>4, <1>5, <1>9 DEF v, w, batch, Adjoined

\* One token is pending, and there is room for the drafts.
Pending(c) == Len(c.hist) = c.len + 1
HasRoom(c, draft) == Len(c.hist) + Len(draft) <= MaxCtx

\* The batch of the pending token and the drafts.
Tried(c, draft) == Forward(c, c.len, <<Last(c.hist)>> \o draft)

(* A batch behind the rows of the history: they are those of the history   *)
(* and of the drafts.                                                      *)
LEMMA TriedProperties ==
    ASSUME NEW c, ContextOK(c), Pending(c), NEW draft \in Seq(Sayable), HasRoom(c, draft),
           NEW f, f = Tried(c, draft)
    PROVE  ContextOK(f) /\ f.hist = c.hist /\ f.len = c.len /\ Batched(f, draft, 0)
  <1> DEFINE past == c.hist
             n == c.len
             w == past \o draft
             u == <<Last(past)>>
             batch == u \o draft
  <1>1. /\ c \in Contexts /\ past \in Seq(Tokens) /\ past \in Seq(Sayable) /\ n \in Nat /\ n <= Len(c.rows)
        /\ Len(past) \in Nat /\ Len(draft) \in Nat /\ Len(past) = n + 1
        /\ \A j \in 1..n : c.rows[j] = SubSeq(past, 1, j)
    BY SizesAndWords, LenProperties DEF ContextOK, Contexts, Pending
  <1> HIDE DEF past, n
  <1>2. /\ w \in Seq(Sayable) /\ Len(w) = Len(past) + Len(draft)
        /\ \A i \in 1..Len(past) : w[i] = past[i]
        /\ \A i \in 1..Len(draft) : w[Len(past) + i] = draft[i]
        /\ n \in 0..Len(w) /\ batch \in Seq(Sayable) /\ batch = SubSeq(w, n + 1, Len(w))
    <2>1. u \in Seq(Sayable) /\ TheLast(past, n, u)
      <3>1. n + 1 \in 1..Len(past) /\ Last(past) = past[n + 1]
        BY <1>1 DEF Last
      <3>2. Last(past) \in Sayable
        BY <1>1, <3>1, ElementOfSeq
      <3> QED BY <1>1, <3>1, <3>2 DEF TheLast
    <2> HIDE DEF u
    <2>2. past \in Seq(Sayable) /\ n \in Nat
      BY <1>1
    <2>3. Adjoined(Sayable, past, n, draft, u)
      BY <2>1, <2>2, PendingAndDrafts
    <2> QED BY <2>3 DEF Adjoined
  <1>5. Len(w) \in n..Len(w) /\ Len(w) = n + 1 + Len(draft)
    <2> HIDE DEF w
    <2> QED BY <1>1, <1>2
  <1>8. f = Forward(c, n, batch)
    BY DEF Tried, n, past
  <1> HIDE DEF w, u, batch
  <1>7. ASSUME NEW j \in 1..n PROVE c.rows[j] = SubSeq(w, 1, j)
    <2>1. j \in 0..Len(past) /\ j <= Len(w) /\ \A i \in 1..j : past[i] = w[i]
      BY <1>1, <1>2, <1>5
    <2>2. SubSeq(past, 1, j) = SubSeq(w, 1, j)
      BY <1>1, <1>2, <2>1, SamePrefix
    <2> QED BY <1>1, <2>2
  <1>9. /\ f = [hist |-> c.hist, len |-> c.len, rows |-> f.rows]
        /\ f.rows \in Seq(Seq(Sayable)) /\ Len(f.rows) = Len(w)
        /\ \A j \in 1..Len(w) : f.rows[j] = SubSeq(w, 1, j)
    <2>1. \A j \in 1..n : c.rows[j] = SubSeq(w, 1, j)
      BY <1>7
    <2>2. c \in Contexts /\ w \in Seq(Sayable) /\ n \in 0..Len(w) /\ n <= Len(c.rows)
          /\ batch \in Seq(Sayable) /\ batch = SubSeq(w, n + 1, Len(w))
      BY <1>1, <1>2
    <2>3. /\ Forward(c, n, batch) = [hist |-> c.hist, len |-> c.len, rows |-> Forward(c, n, batch).rows]
          /\ Forward(c, n, batch).rows \in Seq(Seq(Sayable))
          /\ Len(Forward(c, n, batch).rows) = Len(w)
          /\ \A j \in 1..Len(w) : Forward(c, n, batch).rows[j] = SubSeq(w, 1, j)
      BY <2>1, <2>2, ForwardProperties
    <2> QED BY <1>8, <2>3
  <1>10. f \in Contexts /\ f.hist = past /\ f.len = n
    <2>1. f.hist = past /\ f.len = n
      BY <1>9 DEF past, n
    <2>2. f = [hist |-> past, len |-> n, rows |-> f.rows]
      BY <1>9 DEF past, n
    <2> QED BY <1>1, <1>9, <2>1, <2>2 DEF Contexts
  <1>11. ASSUME NEW j \in 1..n PROVE f.rows[j] = SubSeq(f.hist, 1, j)
    <2>1. j \in 1..Len(w)
      BY <1>1, <1>5
    <2> QED BY <1>1, <1>7, <1>9, <1>10, <2>1
  <1>12. ContextOK(f)
    <2>1. Len(w) <= MaxCtx
      <3>1. Len(past) + Len(draft) <= MaxCtx
        BY DEF past, HasRoom
      <3> QED BY <1>2, <3>1
    <2>2. f.len <= Len(f.hist) /\ f.len <= Len(f.rows) /\ Len(f.rows) <= MaxCtx
      BY <1>1, <1>5, <1>9, <1>10, <2>1
    <2> QED BY <1>10, <1>11, <2>2 DEF ContextOK
  <1>13. ASSUME NEW j \in 1..Len(f.rows)
         PROVE  /\ Len(f.rows[j]) = j
                /\ \A i \in 1..j : f.rows[j][i] = IF i <= Len(f.hist) THEN f.hist[i] ELSE draft[0 + i - Len(f.hist)]
    <2>1. j \in 1..Len(w) /\ j \in 0..Len(w)
      BY <1>9
    <2>2. f.rows[j] = SubSeq(w, 1, j)
      BY <1>9, <2>1
    <2>3. Len(SubSeq(w, 1, j)) = j /\ \A i \in 1..j : SubSeq(w, 1, j)[i] = w[i]
      BY <1>2, <2>1, PrefixOf
    <2>4. ASSUME NEW i \in 1..j
          PROVE  w[i] = IF i <= Len(past) THEN past[i] ELSE draft[0 + i - Len(past)]
      <3>1. CASE i <= Len(past)
        <4>1. i \in 1..Len(past)
          BY <1>1, <2>1, <3>1
        <4> QED BY <1>2, <3>1, <4>1
      <3>2. CASE ~(i <= Len(past))
        <4>1. i - Len(past) \in 1..Len(draft) /\ Len(past) + (i - Len(past)) = i /\ 0 + i - Len(past) = i - Len(past)
          BY <1>1, <1>2, <2>1, <3>2
        <4>2. w[Len(past) + (i - Len(past))] = draft[i - Len(past)]
          BY <1>2, <4>1
        <4> QED BY <3>2, <4>1, <4>2
      <3> QED BY <3>1, <3>2
    <2> QED BY <1>10, <2>2, <2>3, <2>4
  <1>14. Batched(f, draft, 0)
    <2>1. 0 <= Len(draft) /\ Len(f.rows) = Len(f.hist) + Len(draft) - 0
      <3>1. Len(f.rows) = Len(past) + Len(draft) /\ f.hist = past
        BY <1>2, <1>9, <1>10
      <3>2. Len(past) \in Nat /\ Len(draft) \in Nat
        BY <1>1
      <3>3. Len(past) + Len(draft) - 0 = Len(past) + Len(draft) /\ 0 <= Len(draft)
        BY <3>2
      <3> QED BY <3>1, <3>3
    <2> QED BY <1>13, <2>1 DEF Batched
  <1> QED BY <1>10, <1>12, <1>14 DEF past, n

(* The rows of a batch, up to the history, are the history's. *)
LEMMA BatchRows ==
    ASSUME NEW c, ContextOK(c), NEW draft \in Seq(Sayable), NEW k \in Nat, Batched(c, draft, k)
    PROVE  /\ \A j \in 1..Len(c.hist) : c.rows[j] = SubSeq(c.hist, 1, j)
           /\ Len(c.hist) > 0 => c.rows[Len(c.hist)] = c.hist
           /\ Len(c.hist) <= Len(c.rows)
  <1>1. /\ c.hist \in Seq(Tokens) /\ c.hist \in Seq(Sayable) /\ Len(c.hist) \in Nat /\ Len(draft) \in Nat
        /\ c.rows \in Seq(Seq(Sayable)) /\ Len(c.rows) \in Nat
    BY SizesAndWords, LenProperties DEF ContextOK, Contexts
  <1>2. Len(c.hist) <= Len(c.rows)
    BY <1>1 DEF Batched
  <1>3. ASSUME NEW j \in 1..Len(c.hist) PROVE c.rows[j] = SubSeq(c.hist, 1, j)
    <2>1. j \in 1..Len(c.rows) /\ j <= Len(c.hist)
      BY <1>1, <1>2
    <2>2. c.rows[j] \in Seq(Sayable)
      <3> DEFINE R == Seq(Sayable)
      <3>1. c.rows \in Seq(R)
        BY <1>1
      <3> HIDE DEF R
      <3>2. c.rows[j] \in R
        BY <2>1, <3>1, ElementOfSeq
      <3> QED BY <3>2 DEF R
    <2>3. Len(c.rows[j]) = j /\ \A i \in 1..j : c.rows[j][i] = c.hist[i]
      <3>1. \A i \in 1..j : i <= Len(c.hist)
        BY <1>1, <2>1
      <3> QED BY <2>1, <3>1 DEF Batched
    <2> DEFINE r == c.rows[j]
    <2>4. r \in Seq(Sayable) /\ Len(r) = j /\ \A i \in 1..Len(r) : r[i] = c.hist[i]
      BY <2>2, <2>3
    <2> HIDE DEF r
    <2>5. r = SubSeq(c.hist, 1, Len(r))
      BY <1>1, <2>1, <2>4, IsThePrefix
    <2> QED BY <2>4, <2>5 DEF r
  <1>4. ASSUME Len(c.hist) > 0 PROVE c.rows[Len(c.hist)] = c.hist
    <2>1. Len(c.hist) \in 1..Len(c.hist)
      BY <1>1, <1>4
    <2> QED BY <1>1, <1>3, <2>1, SubSeqFull
  <1> QED BY <1>2, <1>3, <1>4

\* The draft that may be said next.
NextDraft(draft, k, token) == k < Len(draft) /\ draft[k + 1] = token

(* A draft that is said is no longer behind the history but in it. *)
LEMMA BatchStep ==
    ASSUME NEW c, ContextOK(c), NEW draft \in Seq(Sayable), NEW k \in Nat, Batched(c, draft, k),
           NEW token \in Tokens, NextDraft(draft, k, token)
    PROVE  Batched(Say(c, token), draft, k + 1)
  <1> DEFINE d == Say(c, token)
  <1>1. /\ d.hist = Append(c.hist, token) /\ d.rows = c.rows /\ Len(d.hist) = Len(c.hist) + 1
        /\ d.hist[Len(c.hist) + 1] = token /\ \A i \in 1..Len(c.hist) : d.hist[i] = c.hist[i]
    BY SaidProperties
  <1>0. k < Len(draft) /\ draft[k + 1] = token
    BY DEF NextDraft
  <1>2. /\ Len(c.hist) \in Nat /\ Len(draft) \in Nat /\ Len(c.rows) \in Nat
    <2>1. c.hist \in Seq(Tokens) /\ c.rows \in Seq(Seq(Sayable))
      BY DEF ContextOK, Contexts
    <2> QED BY <2>1, LenProperties
  <1> HIDE DEF d
  <1>3. k + 1 <= Len(draft) /\ Len(d.rows) = Len(d.hist) + Len(draft) - (k + 1)
    <2>1. Len(c.rows) = Len(c.hist) + Len(draft) - k
      BY DEF Batched
    <2> QED BY <1>0, <1>1, <1>2, <2>1
  <1>4. ASSUME NEW j \in 1..Len(d.rows)
        PROVE  /\ Len(d.rows[j]) = j
               /\ \A i \in 1..j : d.rows[j][i] = IF i <= Len(d.hist) THEN d.hist[i] ELSE draft[(k + 1) + i - Len(d.hist)]
    <2>1. /\ Len(c.rows[j]) = j
          /\ \A i \in 1..j : c.rows[j][i] = IF i <= Len(c.hist) THEN c.hist[i] ELSE draft[k + i - Len(c.hist)]
      BY <1>1 DEF Batched
    <2>2. ASSUME NEW i \in 1..j
          PROVE  c.rows[j][i] = IF i <= Len(d.hist) THEN d.hist[i] ELSE draft[(k + 1) + i - Len(d.hist)]
      <3>1. CASE i <= Len(c.hist)
        <4>1. i \in 1..Len(c.hist) /\ i <= Len(d.hist)
          BY <1>1, <1>2, <3>1
        <4> QED BY <1>1, <2>1, <3>1, <4>1
      <3>2. CASE i = Len(c.hist) + 1
        <4>1. ~(i <= Len(c.hist)) /\ i <= Len(d.hist) /\ k + i - Len(c.hist) = k + 1
          BY <1>1, <1>2, <3>2
        <4> QED BY <1>0, <1>1, <2>1, <3>2, <4>1
      <3>3. CASE ~(i <= Len(c.hist)) /\ i # Len(c.hist) + 1
        <4> DEFINE m == Len(c.hist)
                   n == Len(d.hist)
        <4>1. m \in Nat /\ n = m + 1 /\ ~(i <= m) /\ i # m + 1
          BY <1>1, <1>2, <3>3
        <4>2. i \in Nat
          OBVIOUS
        <4> HIDE DEF m, n
        <4>3. ~(i <= n) /\ (k + 1) + i - n = k + i - m
          BY <4>1, <4>2
        <4> QED BY <2>1, <3>3, <4>3 DEF m, n
      <3> QED BY <3>1, <3>2, <3>3
    <2> QED BY <1>1, <2>1, <2>2
  <1>5. Batched(d, draft, k + 1)
    BY <1>3, <1>4 DEF Batched
  <1> QED BY <1>5 DEF d

\* All that was said counts.
Counted(c) == [c EXCEPT !.len = Len(c.hist)]

(* The rows of a batch, up to the history, may all count. *)
LEMMA CountedProperties ==
    ASSUME NEW c, ContextOK(c), NEW draft \in Seq(Sayable), NEW k \in Nat, Batched(c, draft, k),
           NEW d, d = Counted(c)
    PROVE  ContextOK(d) /\ d.hist = c.hist /\ d.len = Len(c.hist) /\ d.rows = c.rows
  <1>1. /\ \A j \in 1..Len(c.hist) : c.rows[j] = SubSeq(c.hist, 1, j)
        /\ Len(c.hist) <= Len(c.rows)
    BY BatchRows
  <1>2. c \in Contexts /\ Len(c.rows) <= MaxCtx /\ Len(c.hist) \in Nat
    BY LenProperties DEF ContextOK, Contexts
  <1>3. d \in Contexts /\ d.hist = c.hist /\ d.len = Len(c.hist) /\ d.rows = c.rows
    BY <1>2 DEF Contexts, Counted
  <1>4. ContextOK(d)
    BY <1>1, <1>2, <1>3 DEF ContextOK
  <1> QED BY <1>3, <1>4
----------------------------------------------------------------------------
(* Turns with drafts, and the theorem.                                     *)

\* The drafts of a turn, before the first of them is verified.
Drafted(t, draft) == [t EXCEPT !.draft = draft, !.k = 0]

(* The record of a turn with its drafts. *)
LEMMA DraftedRecord ==
    ASSUME NEW t \in TurnStates, NEW draft \in Seq(Sayable), NEW u, u = Drafted(t, draft)
    PROVE  /\ u \in TurnStates /\ u.at = t.at /\ u.budget = t.budget /\ u.base = t.base /\ u.draft = draft
           /\ u.k = 0 /\ u.cause = t.cause /\ u.refused = t.refused /\ u.ban = t.ban /\ u.logit = t.logit
  BY DEF TurnStates, Drafted

(* A turn whose history follows the model is sound where nothing is asked of its rows. *)
LEMMA PutTogether ==
    ASSUME NEW m, NEW g, NEW c, ContextOK(c), NEW t \in TurnStates, Underway(m, c.hist, t), Replaced(c.hist, t),
           t.at \in {"pick", "draft", "verify", "round", "rows"},
           t.k \in Nat, t.k <= Len(t.draft) + 1, t.at # "round" => t.k <= Len(t.draft),
           t.at = "pick" => Len(c.hist) = c.len /\ t.logit = c.hist,
           t.at \in {"draft", "round", "rows"} => Len(c.hist) = c.len + 1 /\ Len(c.hist) < t.base + t.budget,
           t.at = "verify" => Len(c.hist) = c.len + 1 + t.k,
           t.at \in {"verify", "rows"} => Batched(c, t.draft, t.k)
    PROVE  SlotOK(m, g, c, t)
  <1>1. Progress(m, c.hist, t) /\ Len(t.draft) <= Draft
    BY DEF Progress, Underway
  <1>2. Avoided(m, g, c.hist, t)
    BY DEF Avoided, Replaced
  <1>3. TurnOK(m, g, c, t)
    BY <1>1, <1>2 DEF TurnOK
  <1> QED BY <1>3 DEF SlotOK

(* Drafts go through the model behind the pending token. *)
LEMMA BatchKeeps ==
    ASSUME TurnsInv, NEW s \in engine.slots, NEW at \in {"verify", "rows"}, turn[s].at \in {"draft", "round"},
           NEW draft \in Seq(Sayable), Len(draft) <= Draft, HasRoom(ctx[s], draft),
           GoOn(s, at, Tried(ctx[s], draft), Drafted(turn[s], draft)), engine' = engine
    PROVE  TurnsInv'
  <1> DEFINE c == ctx[s]
             t == turn[s]
             m == engine.model
             f == Tried(c, draft)
             u == Drafted(t, draft)
             v == Going(u, at)
  <1>1. /\ s \in Slots /\ ContextOK(c) /\ TurnOK(m, engine.greedy, c, t) /\ t \in TurnStates
        /\ EngineOK' /\ engine'.model = m /\ engine'.greedy = engine.greedy
        /\ Len(c.hist) \in Nat /\ c.len \in Nat
    BY OfASlot DEF TurnsInv, EngineOK
  <1>2. Underway(m, c.hist, t) /\ Replaced(c.hist, t) /\ Len(c.hist) < t.base + t.budget
    BY WhileDecoding
  <1>3. Len(c.hist) = c.len + 1 /\ Pending(c)
    BY <1>1 DEF TurnOK, Pending
  <1>4. ctx' = [ctx EXCEPT ![s] = f] /\ turn' = [turn EXCEPT ![s] = v]
    BY DEF GoOn, Going
  <1>5. HasRoom(c, draft) /\ Len(draft) \in Nat
    BY LenProperties
  <1>6. at \in {"verify", "rows"} /\ at \in {"idle", "pick", "draft", "verify", "first", "round", "rows", "end"}
    OBVIOUS
  <1> HIDE DEF c, t, m, f, u, v
  <1>7. ContextOK(f) /\ f.hist = c.hist /\ f.len = c.len /\ Batched(f, draft, 0)
    BY <1>1, <1>3, <1>5, TriedProperties DEF f
  <1>8. /\ u \in TurnStates /\ u.budget = t.budget /\ u.base = t.base /\ u.draft = draft
        /\ u.k = 0 /\ u.cause = t.cause /\ u.refused = t.refused
    BY <1>1, DraftedRecord DEF u
  <1>9. /\ v \in TurnStates /\ v.at = at /\ v.budget = u.budget /\ v.base = u.base /\ v.draft = u.draft
        /\ v.k = u.k /\ v.cause = u.cause /\ v.refused = u.refused
    BY <1>6, <1>8, TurnGoesOn DEF v
  <1>10. /\ v.budget = t.budget /\ v.base = t.base /\ v.draft = draft /\ v.k = 0 /\ v.cause = t.cause
         /\ v.refused = t.refused
    BY <1>8, <1>9
  <1>11. Underway(m, f.hist, v) /\ Replaced(f.hist, v)
    <2>1. Underway(m, c.hist, v)
      BY <1>2, <1>9, <1>10, UnderwayStays
    <2>2. Replaced(c.hist, v)
      BY <1>2, <1>10 DEF Replaced
    <2> QED BY <1>7, <2>1, <2>2
  <1>12. /\ v.k \in Nat /\ v.k <= Len(v.draft) /\ v.k <= Len(v.draft) + 1 /\ v.at \in {"verify", "rows"}
         /\ Len(f.hist) = f.len + 1 /\ Len(f.hist) < v.base + v.budget /\ Len(f.hist) = f.len + 1 + v.k
    <2>1. v.k = 0 /\ Len(v.draft) \in Nat /\ f.len \in Nat /\ Len(f.hist) = f.len + 1
      BY <1>1, <1>3, <1>5, <1>7, <1>10
    <2>2. Len(f.hist) < v.base + v.budget
      BY <1>2, <1>7, <1>10
    <2> QED BY <1>6, <1>9, <2>1, <2>2
  <1>13. SlotOK(m, engine.greedy, f, v)
    <2>1. Batched(f, v.draft, v.k)
      BY <1>7, <1>10
    <2>2. v.at # "pick"
      BY <1>12
    <2> QED BY <1>7, <1>9, <1>11, <1>12, <2>1, <2>2, PutTogether
  <1> QED BY <1>1, <1>4, <1>13, OneSlot DEF m

(* spec_decode tries its drafts. *)
LEMMA SpeculateKeeps ==
    ASSUME TurnsInv, NEW s \in engine.slots, Speculate(s)
    PROVE  TurnsInv'
  <1>1. PICK d \in Drafts :
           GoOn(s, "verify", Tried(ctx[s], SubSeq(d, 1, Fits(s, Len(d)))),
                Drafted(turn[s], SubSeq(d, 1, Fits(s, Len(d)))))
    BY DEF Speculate, Tried, Drafted
  <1>2. turn[s].at = "draft" /\ engine' = engine
    BY DEF Speculate
  <1>3. d \in Seq(Sayable) /\ Len(d) \in 0..Draft /\ Draft \in Nat /\ MaxCtx \in Nat
    BY DraftsAreWords, SizesAndWords
  <1> DEFINE t == turn[s]
             past == ctx[s].hist
             len == ctx[s].len
             n == Fits(s, Len(d))
  <1>4. /\ Len(past) \in Nat /\ len \in Nat /\ t.base \in Nat /\ t.budget \in Nat
        /\ Len(past) < t.base + t.budget /\ Len(past) = len + 1
        /\ t.base \in 1..Len(past) /\ (t.budget > 0 => t.base + t.budget + 1 <= MaxCtx)
    <2>1. Len(past) = len + 1
      BY <1>2, OfASlot DEF TurnOK
    <2>2. Underway(engine.model, past, t) /\ t.base \in Nat /\ t.budget \in Nat /\ Len(past) < t.base + t.budget
      BY <1>2, WhileDecoding
    <2> QED BY <2>1, <2>2, OfASlot DEF Underway
  <1>5. Emitted(s) = Len(past) - t.base
    BY DEF Emitted
  <1>6. n = LET b == Least(Len(d), t.budget - Emitted(s))
            IN IF len + 1 + b + 1 > MaxCtx THEN Minus(MaxCtx, len + 2) ELSE b
    BY DEF Fits
  <1> HIDE DEF t, past, len, n
  <1>7. n \in 0..Len(d) /\ Len(past) + n <= MaxCtx
    <2>1. Emitted(s) \in Nat /\ t.budget - Emitted(s) \in Nat /\ len + 2 <= MaxCtx
      BY <1>3, <1>4, <1>5
    <2> DEFINE b == Least(Len(d), t.budget - Emitted(s))
    <2>2. b \in 0..Len(d)
      BY <1>3, <2>1 DEF Least
    <2>3. n = IF len + 1 + b + 1 > MaxCtx THEN Minus(MaxCtx, len + 2) ELSE b
      BY <1>6
    <2> HIDE DEF b
    <2> QED BY <1>3, <1>4, <2>1, <2>2, <2>3 DEF Minus
  <1> DEFINE draft == SubSeq(d, 1, n)
  <1>8. draft \in Seq(Sayable) /\ Len(draft) = n
    BY <1>3, <1>7, PrefixOf
  <1>9. Len(draft) <= Draft /\ Len(past) + Len(draft) <= MaxCtx
    BY <1>3, <1>4, <1>7, <1>8
  <1>10. GoOn(s, "verify", Tried(ctx[s], draft), Drafted(turn[s], draft))
    BY <1>1 DEF n
  <1> HIDE DEF draft
  <1>11. HasRoom(ctx[s], draft)
    BY <1>9 DEF HasRoom, past
  <1> QED BY <1>2, <1>8, <1>9, <1>10, <1>11, BatchKeeps

(* A round of run_serve_mux. *)
LEMMA RoundKeeps ==
    ASSUME TurnsInv, NEW s \in engine.slots, Round(s)
    PROVE  TurnsInv'
  <1> DEFINE Width(d) == IF ~engine.greedy \/ ctx[s].len + 1 + Len(d) >= MaxCtx - 1 THEN 0 ELSE Len(d)
  <1>1. PICK d \in Drafts :
           GoOn(s, "rows", Tried(ctx[s], SubSeq(d, 1, Width(d))), Drafted(turn[s], SubSeq(d, 1, Width(d))))
    BY DEF Round, Tried, Drafted
  <1>2. turn[s].at = "round" /\ engine' = engine
    BY DEF Round
  <1>3. d \in Seq(Sayable) /\ Len(d) \in 0..Draft /\ Draft \in Nat /\ MaxCtx \in Nat
    BY DraftsAreWords, SizesAndWords
  <1> DEFINE t == turn[s]
             past == ctx[s].hist
             len == ctx[s].len
             n == Width(d)
  <1>4. /\ Len(past) \in Nat /\ len \in Nat /\ t.base \in Nat /\ t.budget \in Nat
        /\ Len(past) < t.base + t.budget /\ Len(past) = len + 1
        /\ t.base \in 1..Len(past) /\ (t.budget > 0 => t.base + t.budget + 1 <= MaxCtx)
    <2>1. Len(past) = len + 1
      BY <1>2, OfASlot DEF TurnOK
    <2>2. Underway(engine.model, past, t) /\ t.base \in Nat /\ t.budget \in Nat /\ Len(past) < t.base + t.budget
      BY <1>2, WhileDecoding
    <2> QED BY <2>1, <2>2, OfASlot DEF Underway
  <1>5. n = IF ~engine.greedy \/ len + 1 + Len(d) >= MaxCtx - 1 THEN 0 ELSE Len(d)
    OBVIOUS
  <1> HIDE DEF t, past, len, n
  <1>6. n \in 0..Len(d) /\ Len(past) + n <= MaxCtx
    <2>1. n = 0 \/ (n = Len(d) /\ ~(len + 1 + Len(d) >= MaxCtx - 1))
      BY <1>5
    <2> QED BY <1>3, <1>4, <2>1
  <1> DEFINE draft == SubSeq(d, 1, n)
  <1>7. draft \in Seq(Sayable) /\ Len(draft) = n
    BY <1>3, <1>6, PrefixOf
  <1>8. Len(draft) <= Draft /\ Len(past) + Len(draft) <= MaxCtx
    BY <1>3, <1>4, <1>6, <1>7
  <1>9. GoOn(s, "rows", Tried(ctx[s], draft), Drafted(turn[s], draft))
    BY <1>1 DEF n
  <1> HIDE DEF draft, Width
  <1>10. HasRoom(ctx[s], draft)
    BY <1>8 DEF HasRoom, past
  <1> QED BY <1>2, <1>7, <1>8, <1>9, <1>10, BatchKeeps
\* The end of verification, a refused draft, and an accepted one.
Settling(t, logit) == [t EXCEPT !.logit = logit, !.draft = <<>>, !.k = 0]
Refusing(t, ban, refused) == [t EXCEPT !.ban = ban, !.refused = refused]
Accepting(t) == [t EXCEPT !.k = @ + 1]

(* The records of these. *)
LEMMA VerifiedRecords ==
    ASSUME NEW t \in TurnStates
    PROVE  /\ \A logit \in Seq(Sayable) :
                LET u == Settling(t, logit) IN
                /\ u \in TurnStates /\ u.at = t.at /\ u.budget = t.budget /\ u.base = t.base /\ u.logit = logit
                /\ u.draft = <<>> /\ u.k = 0 /\ u.cause = t.cause /\ u.refused = t.refused /\ u.ban = t.ban
           /\ \A ban \in SUBSET Sayable, refused \in Seq(Sayable) :
                LET u == Refusing(t, ban, refused) IN
                /\ u \in TurnStates /\ u.at = t.at /\ u.budget = t.budget /\ u.base = t.base /\ u.logit = t.logit
                /\ u.draft = t.draft /\ u.k = t.k /\ u.cause = t.cause /\ u.refused = refused /\ u.ban = ban
           /\ LET u == Accepting(t) IN
                /\ u \in TurnStates /\ u.at = t.at /\ u.budget = t.budget /\ u.base = t.base /\ u.logit = t.logit
                /\ u.draft = t.draft /\ u.k = t.k + 1 /\ u.cause = t.cause /\ u.refused = t.refused /\ u.ban = t.ban
  <1>1. <<>> \in Seq(Sayable)
    BY EmptySeq
  <1>2. ASSUME NEW logit \in Seq(Sayable), NEW u, u = Settling(t, logit)
        PROVE  /\ u \in TurnStates /\ u.at = t.at /\ u.budget = t.budget /\ u.base = t.base /\ u.logit = logit
               /\ u.draft = <<>> /\ u.k = 0 /\ u.cause = t.cause /\ u.refused = t.refused /\ u.ban = t.ban
    BY <1>1, <1>2 DEF TurnStates, Settling
  <1>3. ASSUME NEW ban \in SUBSET Sayable, NEW refused \in Seq(Sayable), NEW u, u = Refusing(t, ban, refused)
        PROVE  /\ u \in TurnStates /\ u.at = t.at /\ u.budget = t.budget /\ u.base = t.base /\ u.logit = t.logit
               /\ u.draft = t.draft /\ u.k = t.k /\ u.cause = t.cause /\ u.refused = refused /\ u.ban = ban
    BY <1>3 DEF TurnStates, Refusing
  <1>4. ASSUME NEW u, u = Accepting(t)
        PROVE  /\ u \in TurnStates /\ u.at = t.at /\ u.budget = t.budget /\ u.base = t.base /\ u.logit = t.logit
               /\ u.draft = t.draft /\ u.k = t.k + 1 /\ u.cause = t.cause /\ u.refused = t.refused /\ u.ban = t.ban
    <2> DEFINE n == t.k + 1
    <2>1. n \in Nat
      BY DEF TurnStates
    <2>2. u = [t EXCEPT !.k = n]
      BY <1>4 DEF Accepting
    <2> HIDE DEF n
    <2>3. /\ u \in TurnStates /\ u.at = t.at /\ u.budget = t.budget /\ u.base = t.base /\ u.logit = t.logit
          /\ u.draft = t.draft /\ u.k = n /\ u.cause = t.cause /\ u.refused = t.refused /\ u.ban = t.ban
      BY <2>1, <2>2 DEF TurnStates
    <2> QED BY <2>3 DEF n
  <1> QED BY <1>2, <1>3, <1>4

(* What the invariant says while drafts are verified: the row of the last  *)
(* token that counts is that of the history, and all of it may count.      *)
LEMMA WhileVerifying ==
    ASSUME TurnsInv, NEW s \in engine.slots, turn[s].at = "verify"
    PROVE  /\ Len(ctx[s].hist) = ctx[s].len + 1 + turn[s].k /\ Len(ctx[s].hist) \in Nat \ {0}
           /\ Batched(ctx[s], turn[s].draft, turn[s].k) /\ turn[s].k <= Len(turn[s].draft)
           /\ ctx[s].rows[Len(ctx[s].hist)] = ctx[s].hist
           /\ ContextOK(Counted(ctx[s])) /\ Counted(ctx[s]).hist = ctx[s].hist
           /\ Counted(ctx[s]).len = Len(ctx[s].hist)
           /\ Settled(s) = <<Counted(ctx[s]), Settling(turn[s], ctx[s].hist)>>
  <1> DEFINE c == ctx[s]
             t == turn[s]
  <1>1. /\ ContextOK(c) /\ Len(c.hist) = c.len + 1 + t.k /\ Batched(c, t.draft, t.k) /\ t.k <= Len(t.draft)
    BY OfASlot DEF TurnOK
  <1>2. t.k \in Nat /\ t.draft \in Seq(Sayable) /\ c.len \in Nat
    BY WhileDecoding, OfASlot
  <1>3. Len(c.hist) \in Nat \ {0}
    BY <1>1, <1>2
  <1>4. /\ c.rows[Len(c.hist)] = c.hist
        /\ ContextOK(Counted(c)) /\ Counted(c).hist = c.hist /\ Counted(c).len = Len(c.hist)
    <2>1. Len(c.hist) > 0
      BY <1>3
    <2> HIDE DEF c, t
    <2> QED BY <1>1, <1>2, <2>1, BatchRows, CountedProperties
  <1>5. Settled(s) = <<Counted(c), Settling(t, c.hist)>>
    <2>1. Settled(s) = <<[c EXCEPT !.len = c.len + 1 + t.k],
                         [t EXCEPT !.logit = c.rows[c.len + 1 + t.k], !.draft = <<>>, !.k = 0]>>
      BY DEF Settled
    <2>2. Settled(s) = <<[c EXCEPT !.len = Len(c.hist)],
                         [t EXCEPT !.logit = c.rows[Len(c.hist)], !.draft = <<>>, !.k = 0]>>
      BY <1>1, <2>1, Zenon
    <2> QED BY <1>4, <2>2 DEF Counted, Settling
  <1> QED BY <1>1, <1>3, <1>4, <1>5

(* spec_decode verifies a draft. *)
LEMMA VerifyKeeps ==
    ASSUME TurnsInv, NEW s \in engine.slots, Verify(s)
    PROVE  TurnsInv'
  <1> DEFINE c == ctx[s]
             t == turn[s]
             m == engine.model
             g == engine.greedy
             past == c.hist
             d == Counted(c)
             u == Settling(t, past)
             token == t.draft[t.k + 1]
             w == Refusing(u, IF g THEN {} ELSE {token}, Append(past, token))
  <1>1. t.at = "verify" /\ engine' = engine
    BY DEF Verify
  <1>2. /\ s \in Slots /\ ContextOK(c) /\ t \in TurnStates /\ past \in Seq(Tokens)
        /\ EngineOK' /\ engine'.model = m /\ engine'.greedy = g
    BY <1>1, OfASlot DEF TurnsInv, EngineOK
  <1>3. /\ Len(past) = c.len + 1 + t.k /\ Len(past) \in Nat \ {0}
        /\ Batched(c, t.draft, t.k) /\ t.k <= Len(t.draft)
        /\ c.rows[Len(past)] = past /\ ContextOK(d) /\ d.hist = past /\ d.len = Len(past)
        /\ Settled(s) = <<d, u>>
    BY <1>1, WhileVerifying
  <1>4. /\ Underway(m, past, t) /\ Replaced(past, t) /\ t.base \in Nat /\ t.budget \in Nat /\ t.k \in Nat
        /\ t.draft \in Seq(Sayable) /\ Len(t.draft) \in Nat
    BY <1>1, WhileDecoding
  <1>5. m[Last(past)] \subseteq Sayable /\ past \in Seq(Sayable)
    BY <1>2, <1>4, ModelGoesOn, SizesAndWords
  <1>6. Emitted(s) = Len(past) - t.base
    BY DEF Emitted
  <1>7. \/ GoOn(s, "pick", d, u)
        \/ /\ ~(t.k = Len(t.draft)) /\ ~(Emitted(s) >= t.budget)
           /\ \/ /\ token \in m[Last(past)] /\ token # Stop
                 /\ GoOn(s, "verify", Say(c, token), Accepting(t))
              \/ token \in m[Last(past)] /\ token = Stop /\ End(s, "stop", d, u)
              \/ /\ m[Last(past)] # {token} /\ (g => token \notin m[Last(past)])
                 /\ GoOn(s, "pick", d, w)
    <2>1. Likely(c.rows[c.len + 1 + t.k]) = m[Last(past)]
      BY <1>3 DEF Likely
    <2>2. Settled(s)[1] = d /\ Settled(s)[2] = u
      BY <1>3
    <2>3. Say(c, token).hist = Append(past, token)
      BY <1>2 DEF Say, ContextOK, Contexts
    <2> HIDE DEF d, u
    <2> QED BY <2>1, <2>2, <2>3, Zenon DEF Verify, Accepting, Refusing
  <1>8. /\ u \in TurnStates /\ u.budget = t.budget /\ u.base = t.base /\ u.logit = past /\ u.draft = <<>>
        /\ u.k = 0 /\ u.cause = t.cause /\ u.refused = t.refused
    <2>1. t \in TurnStates /\ past \in Seq(Sayable) /\ u = Settling(t, past)
      BY <1>2, <1>5
    <2> HIDE DEF t, past, u
    <2> QED BY <2>1, VerifiedRecords
  <1>9. Draft \in Nat /\ <<>> \in Seq(Sayable) /\ Len(<<>>) = 0
    BY SizesAndWords, EmptySeq
  <1> HIDE DEF c, t, m, g, past, d, u, token, w
  <1>10. Underway(m, d.hist, u) /\ Replaced(d.hist, u)
    <2>1. Underway(m, past, u)
      BY <1>4, <1>8, <1>9, UnderwayStays
    <2>2. Replaced(past, u)
      BY <1>4, <1>8 DEF Replaced
    <2> QED BY <1>3, <2>1, <2>2
  <1>11. CASE GoOn(s, "pick", d, u)
    <2> DEFINE v == Going(u, "pick")
    <2>1. ctx' = [ctx EXCEPT ![s] = d] /\ turn' = [turn EXCEPT ![s] = v]
      BY <1>11 DEF GoOn, Going
    <2>2. /\ v \in TurnStates /\ v.at = "pick" /\ v.budget = u.budget /\ v.base = u.base /\ v.logit = u.logit
          /\ v.draft = u.draft /\ v.k = u.k /\ v.cause = u.cause /\ v.refused = u.refused
      BY <1>8, TurnGoesOn
    <2> HIDE DEF v
    <2>3. Underway(m, d.hist, v) /\ Replaced(d.hist, v)
      <3>1. Underway(m, d.hist, v)
        BY <1>8, <1>9, <1>10, <2>2, UnderwayStays
      <3> QED BY <1>10, <2>2, <3>1 DEF Replaced
    <2>4. v.k \in Nat /\ v.k <= Len(v.draft) /\ v.k <= Len(v.draft) + 1 /\ Len(d.hist) = d.len /\ v.logit = d.hist
      BY <1>3, <1>8, <1>9, <2>2
    <2>5. SlotOK(m, g, d, v)
      BY <1>3, <2>2, <2>3, <2>4, PutTogether
    <2> QED BY <1>2, <2>1, <2>5, OneSlot DEF m, g
  <1>12. ASSUME ~(t.k = Len(t.draft)), ~(Emitted(s) >= t.budget),
                token \in m[Last(past)], token # Stop, GoOn(s, "verify", Say(c, token), Accepting(t))
         PROVE  TurnsInv'
    <2> DEFINE e == Say(c, token)
               a == Accepting(t)
               v == Going(a, "verify")
    <2>1. ctx' = [ctx EXCEPT ![s] = e] /\ turn' = [turn EXCEPT ![s] = v]
      BY <1>12 DEF GoOn, Going
    <2>2. token \in Tokens
      BY <1>5, <1>12, SizesAndWords
    <2>3. /\ a \in TurnStates /\ a.budget = t.budget /\ a.base = t.base /\ a.draft = t.draft /\ a.k = t.k + 1
          /\ a.cause = t.cause /\ a.refused = t.refused
      BY <1>2, VerifiedRecords
    <2> HIDE DEF a
    <2>4. /\ v \in TurnStates /\ v.at = "verify" /\ v.budget = a.budget /\ v.base = a.base
          /\ v.draft = a.draft /\ v.k = a.k /\ v.cause = a.cause /\ v.refused = a.refused
      BY <2>3, TurnGoesOn
    <2> HIDE DEF v, e
    <2>5. ContextOK(e) /\ e.hist = Append(past, token) /\ e.len = c.len /\ Len(e.hist) = Len(past) + 1
      BY <1>2, <2>2, SaidProperties DEF e, past
    <2>6. Len(past) < t.base + t.budget
      BY <1>3, <1>4, <1>6, <1>12
    <2>7. Underway(m, e.hist, v)
      <3>1. Underway(m, Append(past, token), t)
        BY <1>4, <1>12, <2>2, <2>6, SaidFollows
      <3>2. v.budget = t.budget /\ v.base = t.base /\ v.cause = t.cause /\ v.draft = t.draft /\ Len(t.draft) <= Draft
        BY <1>4, <2>3, <2>4 DEF Underway
      <3> QED BY <2>4, <2>5, <3>1, <3>2, UnderwayStays
    <2>8. Replaced(e.hist, v)
      <3>1. Replaced(Append(past, token), t)
        BY <1>2, <1>4, <2>2, StaysReplaced
      <3> QED BY <2>3, <2>4, <2>5, <3>1 DEF Replaced
    <2>9. Batched(e, v.draft, v.k)
      <3>1. NextDraft(t.draft, t.k, token)
        BY <1>3, <1>4, <1>12 DEF NextDraft, token
      <3>2. Batched(e, t.draft, t.k + 1)
        BY <1>2, <1>3, <1>4, <2>2, <3>1, BatchStep DEF e
      <3> QED BY <2>3, <2>4, <3>2
    <2>10. v.k \in Nat /\ v.k <= Len(v.draft) /\ v.k <= Len(v.draft) + 1
      <3>1. v.k = t.k + 1 /\ v.draft = t.draft
        BY <2>3, <2>4
      <3> QED BY <1>3, <1>4, <1>12, <3>1
    <2>11. Len(e.hist) = e.len + 1 + v.k
      <3>1. Len(e.hist) = (c.len + 1 + t.k) + 1 /\ v.k = t.k + 1 /\ e.len = c.len /\ c.len \in Nat
        BY <1>2, <1>3, <2>3, <2>4, <2>5 DEF ContextOK, Contexts
      <3> QED BY <1>4, <3>1
    <2>12. SlotOK(m, g, e, v)
      BY <2>4, <2>5, <2>7, <2>8, <2>9, <2>10, <2>11, PutTogether
    <2> QED BY <1>2, <2>1, <2>12, OneSlot DEF m, g
  <1>13. ASSUME token \in m[Last(past)], token = Stop, End(s, "stop", d, u)
         PROVE  TurnsInv'
    <2>1. ctx' = [ctx EXCEPT ![s] = d] /\ turn' = [turn EXCEPT ![s] = Ended(u, "stop")]
      BY <1>13 DEF End, GoOn, Ended
    <2>2. SlotOK(m, g, d, Ended(u, "stop"))
      BY <1>3, <1>10, <1>13, EndIsSound
    <2> QED BY <1>2, <2>1, <2>2, OneSlot DEF m, g
  <1>14. ASSUME ~(t.k = Len(t.draft)), m[Last(past)] # {token}, g => token \notin m[Last(past)], GoOn(s, "pick", d, w)
         PROVE  TurnsInv'
    <2> DEFINE ban == IF g THEN {} ELSE {token}
               refused == Append(past, token)
               v == Going(w, "pick")
    <2>1. ctx' = [ctx EXCEPT ![s] = d] /\ turn' = [turn EXCEPT ![s] = v]
      BY <1>14 DEF GoOn, Going
    <2>2. token \in Sayable
      <3>1. t.k + 1 \in 1..Len(t.draft)
        BY <1>3, <1>4, <1>14
      <3> QED BY <1>4, <3>1, ElementOfSeq DEF token
    <2>3. /\ refused \in Seq(Sayable) /\ Len(refused) = Len(past) + 1 /\ refused[Len(past) + 1] = token
      BY <1>5, <2>2, OneMore
    <2>4. ban \in SUBSET Sayable /\ (~g => ban = {token})
      BY <2>2
    <2> HIDE DEF ban, refused
    <2>5. /\ w \in TurnStates /\ w.budget = u.budget /\ w.base = u.base /\ w.logit = u.logit /\ w.draft = u.draft
          /\ w.k = u.k /\ w.cause = u.cause /\ w.refused = refused /\ w.ban = ban
      <3>1. w = Refusing(u, ban, refused)
        BY DEF w, ban, refused
      <3> QED BY <1>8, <2>3, <2>4, <3>1, VerifiedRecords
    <2>6. /\ v \in TurnStates /\ v.at = "pick" /\ v.budget = w.budget /\ v.base = w.base /\ v.logit = w.logit
          /\ v.draft = w.draft /\ v.k = w.k /\ v.cause = w.cause /\ v.refused = w.refused /\ v.ban = w.ban
      BY <2>5, TurnGoesOn
    <2> HIDE DEF v
    <2>7. /\ v.budget = t.budget /\ v.base = t.base /\ v.logit = past /\ v.draft = <<>> /\ v.k = 0
          /\ v.cause = t.cause /\ v.refused = refused /\ v.ban = ban
      BY <1>8, <2>5, <2>6
    <2>8. Underway(m, d.hist, v)
      BY <1>3, <1>4, <1>9, <2>6, <2>7, UnderwayStays
    <2>9. Progress(m, d.hist, v)
      BY <2>6, <2>8 DEF Progress, Underway
    <2>10. Avoided(m, g, d.hist, v)
      <3>1. Len(v.refused) = Len(past) + 1 /\ v.refused[Len(v.refused)] = token
        BY <2>3, <2>7
      <3>2. v.at = "pick" /\ (g => token \notin m[Last(past)]) /\ (~g => v.ban = {token} /\ m[Last(past)] # {token})
        BY <1>14, <2>4, <2>6, <2>7
      <3> QED BY <1>3, <3>1, <3>2 DEF Avoided
    <2>11. TurnOK(m, g, d, v)
      BY <1>3, <1>9, <2>6, <2>7, <2>9, <2>10 DEF TurnOK
    <2> QED BY <1>2, <1>3, <2>1, <2>11, OneSlot DEF SlotOK, m, g
  <1> QED BY <1>7, <1>11, <1>12, <1>13, <1>14
(* A token picked after the history, without speculation. *)
LEMMA PendKeeps ==
    ASSUME TurnsInv, NEW s \in engine.slots,
           NEW c, ContextOK(c), Len(c.hist) = c.len,
           NEW t \in TurnStates, Underway(engine.model, c.hist, t), Replaced(c.hist, t),
           Len(c.hist) < t.base + t.budget, t.k <= Len(t.draft),
           NEW at \in {"round", "rows"}, at = "rows" => Batched(c, t.draft, t.k),
           Pend(s, c, t, at), engine' = engine
    PROVE  TurnsInv'
  <1> DEFINE m == engine.model
             g == engine.greedy
             past == c.hist
             a == Accepting(t)
  <1>1. /\ s \in Slots /\ past \in Seq(Tokens) /\ EngineOK' /\ engine'.model = m /\ engine'.greedy = g
        /\ t.draft \in Seq(Sayable) /\ Len(t.draft) \in Nat /\ t.k \in Nat
    <2>1. t.draft \in Seq(Sayable) /\ t.k \in Nat
      BY DEF TurnStates
    <2> QED BY <2>1, OfASlot, LenProperties DEF TurnsInv, EngineOK, ContextOK, Contexts
  <1>2. /\ Len(past) \in Nat \ {0} /\ m[Last(past)] \subseteq Sayable /\ t.base \in Nat /\ t.budget \in Nat
    BY ModelGoesOn
  <1>3. c.rows[c.len] = past
    <2>1. c.len \in 1..c.len /\ c.len = Len(past)
      BY <1>2
    <2>2. c.rows[c.len] = SubSeq(past, 1, c.len)
      BY <2>1 DEF ContextOK
    <2> QED BY <1>1, <2>1, <2>2, SubSeqFull
  <1>4. PICK token \in m[Last(past)] :
           IF token = Stop THEN End(s, "stop", c, t)
           ELSE IF Len(Say(c, token).hist) - t.base >= t.budget THEN End(s, "cap", Say(c, token), t)
           ELSE GoOn(s, IF t.k < Len(t.draft) /\ token = t.draft[t.k + 1] THEN at ELSE "round", Say(c, token), a)
    <2>1. Likely(c.rows[c.len]) = m[Last(past)]
      BY <1>3 DEF Likely
    <2> QED BY <2>1 DEF Pend, Accepting
  <1>5. Underway(m, past, t) /\ Replaced(past, t) /\ Len(past) < t.base + t.budget
    OBVIOUS
  <1>6. /\ a \in TurnStates /\ a.budget = t.budget /\ a.base = t.base /\ a.draft = t.draft /\ a.k = t.k + 1
        /\ a.cause = t.cause /\ a.refused = t.refused
    BY VerifiedRecords
  <1>7. CASE token = Stop
    <2>1. ctx' = [ctx EXCEPT ![s] = c] /\ turn' = [turn EXCEPT ![s] = Ended(t, "stop")]
      BY <1>4, <1>7 DEF End, GoOn, Ended
    <2> HIDE DEF m, g, past, a
    <2>2. SlotOK(m, g, c, Ended(t, "stop"))
      BY <1>4, <1>5, <1>7, EndIsSound DEF past
    <2> QED BY <1>1, <2>1, <2>2, OneSlot DEF m, g
  <1>8. CASE token # Stop
    <2> DEFINE e == Say(c, token)
    <2>1. token \in Tokens /\ token \in m[Last(past)]
      BY <1>2, <1>4, <1>8, SizesAndWords
    <2>2. ContextOK(e) /\ e.hist = Append(past, token) /\ e.len = c.len /\ Len(e.hist) = Len(past) + 1
      BY <2>1, SaidProperties
    <2>3. Len(e.hist) - t.base >= t.budget \/ Len(e.hist) < t.base + t.budget
      BY <1>2, <2>2
    <2>4. \/ Len(e.hist) - t.base >= t.budget /\ End(s, "cap", e, t)
          \/ /\ ~(Len(e.hist) - t.base >= t.budget)
             /\ \/ /\ t.k < Len(t.draft) /\ token = t.draft[t.k + 1]
                   /\ GoOn(s, at, e, a)
                \/ GoOn(s, "round", e, a)
      BY <1>4, <1>8
    <2> HIDE DEF m, g, past, a, e
    <2>5. Underway(m, e.hist, t) /\ Replaced(e.hist, t)
      <3>1. Underway(m, Append(past, token), t)
        BY <1>5, <2>1, SaidFollows
      <3>2. Replaced(Append(past, token), t)
        BY <1>1, <1>5, <2>1, StaysReplaced
      <3> QED BY <2>2, <3>1, <3>2
    <2>6. CASE Len(e.hist) - t.base >= t.budget /\ End(s, "cap", e, t)
      <3>1. ctx' = [ctx EXCEPT ![s] = e] /\ turn' = [turn EXCEPT ![s] = Ended(t, "cap")]
        BY <2>6 DEF End, GoOn, Ended
      <3>2. Len(e.hist) >= t.base + t.budget
        BY <1>2, <2>2, <2>6
      <3>3. SlotOK(m, g, e, Ended(t, "cap"))
        BY <2>2, <2>5, <3>2, EndIsSound
      <3> QED BY <1>1, <3>1, <3>3, OneSlot DEF m, g
    <2>7. ASSUME ~(Len(e.hist) - t.base >= t.budget), NEW next \in {"round", "rows"},
                 next = "rows" => t.k < Len(t.draft) /\ Batched(e, t.draft, t.k + 1),
                 GoOn(s, next, e, a)
          PROVE  TurnsInv'
      <3> DEFINE v == Going(a, next)
      <3>1. ctx' = [ctx EXCEPT ![s] = e] /\ turn' = [turn EXCEPT ![s] = v]
        BY <2>7 DEF GoOn, Going
      <3>2. /\ v \in TurnStates /\ v.at = next /\ v.budget = a.budget /\ v.base = a.base /\ v.draft = a.draft
            /\ v.k = a.k /\ v.cause = a.cause /\ v.refused = a.refused
        BY <1>6, TurnGoesOn
      <3> HIDE DEF v
      <3>3. /\ v.budget = t.budget /\ v.base = t.base /\ v.draft = t.draft /\ v.k = t.k + 1 /\ v.cause = t.cause
            /\ v.refused = t.refused
        BY <1>6, <3>2
      <3>4. Underway(m, e.hist, v) /\ Replaced(e.hist, v)
        <4>1. Len(t.draft) <= Draft
          BY <1>5 DEF Underway
        <4>2. Underway(m, e.hist, v)
          BY <2>5, <3>2, <3>3, <4>1, UnderwayStays
        <4> QED BY <2>5, <3>3, <4>2 DEF Replaced
      <3>5. /\ v.k \in Nat /\ v.k <= Len(v.draft) + 1 /\ (v.at # "round" => v.k <= Len(v.draft))
        BY <1>1, <2>7, <3>2, <3>3
      <3>6. Len(e.hist) = e.len + 1 /\ Len(e.hist) < v.base + v.budget
        <4>1. Len(past) = c.len
          BY DEF past
        <4> QED BY <1>2, <2>2, <2>7, <3>3, <4>1
      <3>7. v.at = "rows" => Batched(e, v.draft, v.k)
        BY <2>7, <3>2, <3>3
      <3>8. v.at \in {"round", "rows"}
        BY <2>7, <3>2
      <3>9. SlotOK(m, g, e, v)
        BY <2>2, <3>2, <3>4, <3>5, <3>6, <3>7, <3>8, PutTogether
      <3> QED BY <1>1, <3>1, <3>9, OneSlot DEF m, g
    <2>8. ASSUME ~(Len(e.hist) - t.base >= t.budget), t.k < Len(t.draft), token = t.draft[t.k + 1], GoOn(s, at, e, a)
          PROVE  TurnsInv'
      <3>1. NextDraft(t.draft, t.k, token)
        BY <2>8 DEF NextDraft
      <3>2. at = "rows" => Batched(e, t.draft, t.k + 1)
        BY <1>1, <2>1, <3>1, BatchStep DEF e
      <3> QED BY <2>7, <2>8, <3>2
    <2>9. ASSUME ~(Len(e.hist) - t.base >= t.budget), GoOn(s, "round", e, a)
          PROVE  TurnsInv'
      BY <2>7, <2>9
    <2> QED BY <2>4, <2>6, <2>8, <2>9
  <1> QED BY <1>7, <1>8

(* The first token of a turn without speculation. *)
LEMMA FirstTokenKeeps ==
    ASSUME TurnsInv, NEW s \in engine.slots, FirstToken(s)
    PROVE  TurnsInv'
  <1> DEFINE c == ctx[s]
             t == turn[s]
             u == [t EXCEPT !.logit = <<>>]
  <1>1. t.at = "first" /\ Pend(s, c, u, "round") /\ engine' = engine
    BY DEF FirstToken
  <1>2. ContextOK(c) /\ TurnOK(engine.model, engine.greedy, c, t) /\ t \in TurnStates
    BY OfASlot
  <1>3. Underway(engine.model, c.hist, t) /\ Replaced(c.hist, t) /\ Len(c.hist) < t.base + t.budget
    BY <1>1, WhileDecoding
  <1>4. /\ u \in TurnStates /\ u.budget = t.budget /\ u.base = t.base /\ u.draft = t.draft
        /\ u.k = t.k /\ u.cause = t.cause /\ u.refused = t.refused
    <2>1. <<>> \in Seq(Sayable)
      BY EmptySeq
    <2> QED BY <1>2, <2>1 DEF TurnStates
  <1>5. Len(c.hist) = c.len /\ u.k <= Len(u.draft) /\ Len(u.draft) <= Draft
    BY <1>1, <1>2, <1>4 DEF TurnOK
  <1> HIDE DEF c, t, u
  <1>6. Underway(engine.model, c.hist, u) /\ Replaced(c.hist, u)
    <2>1. Underway(engine.model, c.hist, u)
      BY <1>3, <1>4, <1>5, UnderwayStays
    <2> QED BY <1>3, <1>4, <2>1 DEF Replaced
  <1>7. Len(c.hist) < u.base + u.budget
    BY <1>3, <1>4
  <1> QED BY <1>1, <1>2, <1>4, <1>5, <1>6, <1>7, PendKeeps

(* A row of a round. *)
LEMMA RoundRowKeeps ==
    ASSUME TurnsInv, NEW s \in engine.slots, RoundRow(s)
    PROVE  TurnsInv'
  <1> DEFINE c == ctx[s]
             t == turn[s]
             d == [c EXCEPT !.len = @ + 1]
  <1>1. t.at = "rows" /\ Pend(s, d, t, "rows") /\ engine' = engine
    BY DEF RoundRow
  <1>2. ContextOK(c) /\ TurnOK(engine.model, engine.greedy, c, t) /\ t \in TurnStates /\ c \in Contexts
    BY OfASlot
  <1>3. Underway(engine.model, c.hist, t) /\ Replaced(c.hist, t) /\ Len(c.hist) < t.base + t.budget
        /\ t.k \in Nat /\ t.draft \in Seq(Sayable)
    BY <1>1, WhileDecoding
  <1>4. Len(c.hist) = c.len + 1 /\ t.k <= Len(t.draft) /\ Batched(c, t.draft, t.k)
    BY <1>1, <1>2 DEF TurnOK
  <1>5. d = Counted(c)
    BY <1>2, <1>4 DEF Counted, Contexts
  <1> HIDE DEF c, t, d
  <1>6. ContextOK(d) /\ d.hist = c.hist /\ d.len = Len(c.hist) /\ d.rows = c.rows
    BY <1>2, <1>3, <1>4, <1>5, CountedProperties
  <1>7. Batched(d, t.draft, t.k)
    BY <1>4, <1>6 DEF Batched
  <1>8. Underway(engine.model, d.hist, t) /\ Replaced(d.hist, t) /\ Len(d.hist) < t.base + t.budget
        /\ Len(d.hist) = d.len
    BY <1>3, <1>6
  <1> QED BY <1>1, <1>2, <1>4, <1>6, <1>7, <1>8, PendKeeps

(* The process starts without a turn. *)
LEMMA TurnsStart ==
    ASSUME TurnsInit
    PROVE  TurnsInv
  <1>1. PICK model \in Models, loop \in {"serve", "mux"}, slots \in {{FirstSlot}, Slots}, share \in BOOLEAN :
           engine = [model |-> model, loop |-> loop, slots |-> slots, share |-> share, sc |-> FirstSlot,
                     greedy |-> \A t \in Tokens : \E u \in model[t] : model[t] = {u},
                     draft |-> IF loop = "mux" /\ slots # {FirstSlot} THEN 0 ELSE Draft,
                     turns |-> 0]
    BY DEF TurnsInit
  <1>2. FirstSlot \in Slots /\ Draft \in Nat /\ MaxTurns \in Nat /\ MaxCtx \in Nat
    BY SizesAndWords
  <1>3. EngineOK
    <2> DEFINE greedy == \A t \in Tokens : \E u \in model[t] : model[t] = {u}
               draft == IF loop = "mux" /\ slots # {FirstSlot} THEN 0 ELSE Draft
    <2>1. greedy \in BOOLEAN
      BY Zenon
    <2>2. draft \in 0..Draft /\ 0 \in 0..MaxTurns
      BY <1>2
    <2>3. slots \in SUBSET Slots /\ FirstSlot \in slots
      BY <1>2
    <2>4. engine = [model |-> model, loop |-> loop, slots |-> slots, share |-> share, sc |-> FirstSlot,
                    greedy |-> greedy, draft |-> draft, turns |-> 0]
      BY <1>1
    <2> HIDE DEF greedy, draft
    <2>5. engine \in Engines
      BY <1>2, <2>1, <2>2, <2>3, <2>4 DEF Engines
    <2> QED BY <2>3, <2>4, <2>5 DEF EngineOK
  <1> DEFINE none == [hist |-> <<>>, len |-> 0, rows |-> <<>>]
  <1>4. ctx = [s \in Slots |-> none] /\ turn = [s \in Slots |-> NoTurn]
    BY DEF TurnsInit
  <1>5. none \in Contexts /\ Len(none.hist) = 0 /\ none.len = 0 /\ Len(none.rows) = 0
    <2>1. <<>> \in Seq(Tokens) /\ <<>> \in Seq(Seq(Sayable)) /\ Len(<<>>) = 0
      BY EmptySeq
    <2> QED BY <2>1 DEF Contexts
  <1> HIDE DEF none
  <1>6. ContextOK(none)
    BY <1>2, <1>5 DEF ContextOK
  <1>7. SlotOK(engine.model, engine.greedy, none, NoTurn)
    BY <1>5, <1>6, IdleIsSound
  <1>8. ctx \in [Slots -> Contexts] /\ turn \in [Slots -> TurnStates]
    BY <1>4, <1>5, NoTurnIsATurn
  <1> QED BY <1>3, <1>4, <1>7, <1>8 DEF TurnsInv

(* Every step keeps the invariant. *)
LEMMA TurnsStep ==
    ASSUME TurnsInv, [TurnsNext]_turnsVars
    PROVE  TurnsInv'
  <1>1. CASE UNCHANGED turnsVars
    BY <1>1 DEF turnsVars, TurnsInv, EngineOK
  <1>2. CASE TurnsNext
    <2>1. PICK s \in engine.slots :
             \/ \E p \in Prompts : Prompt(s, p) \/ Text(s, p) \/ Submit(s, p)
             \/ MoreOf(s) \/ Reset(s)
             \/ PickToken(s) \/ LeaveLoop(s) \/ Speculate(s) \/ Verify(s) \/ Interrupt(s)
             \/ FirstToken(s) \/ Round(s) \/ RoundRow(s) \/ Cut(s) \/ FinishTurn(s)
      BY <1>2 DEF TurnsNext
    <2>2. CASE \E p \in Prompts : Prompt(s, p) \/ Text(s, p) \/ Submit(s, p)
      BY <2>2, PromptKeeps, TextKeeps, SubmitKeeps
    <2>3. CASE MoreOf(s) \/ Reset(s) \/ Interrupt(s) \/ FinishTurn(s)
      BY <2>3, MoreKeeps, ResetKeeps, InterruptKeeps, FinishKeeps
    <2>4. CASE PickToken(s) \/ LeaveLoop(s) \/ Speculate(s) \/ Verify(s)
      BY <2>4, PickKeeps, LeaveKeeps, SpeculateKeeps, VerifyKeeps
    <2>5. CASE FirstToken(s) \/ Round(s) \/ RoundRow(s) \/ Cut(s)
      BY <2>5, FirstTokenKeeps, RoundKeeps, RoundRowKeeps, CutKeeps
    <2> QED BY <2>1, <2>2, <2>3, <2>4, <2>5
  <1> QED BY <1>1, <1>2

(* What the invariant says of what is seen. *)
LEMMA TurnsInvImplies ==
    ASSUME TurnsInv
    PROVE  SpeculationIsInvisible
  <1>1. engine \in Engines /\ engine.sc \in engine.slots /\ engine.turns \in 0..MaxTurns
    BY DEF TurnsInv, EngineOK, Engines
  <1>2. MaxCtx \in Nat /\ Draft \in Nat
    BY SizesAndWords
  <1>3. ASSUME NEW s \in Slots
        PROVE  /\ ContextOK(ctx[s]) /\ TurnOK(engine.model, engine.greedy, ctx[s], turn[s]) /\ turn[s] \in TurnStates
               /\ ctx[s].len \in Nat /\ ctx[s].hist \in Seq(Tokens) /\ Len(ctx[s].rows) \in Nat
               /\ ctx[s].len <= Len(ctx[s].rows) /\ Len(ctx[s].rows) <= MaxCtx /\ Len(ctx[s].hist) \in Nat
               /\ \A n \in 1..ctx[s].len : ctx[s].rows[n] = SubSeq(ctx[s].hist, 1, n)
    <2>1. ContextOK(ctx[s]) /\ TurnOK(engine.model, engine.greedy, ctx[s], turn[s])
      BY DEF TurnsInv, SlotOK
    <2>2. ctx[s] \in Contexts
      BY <2>1 DEF ContextOK
    <2> QED BY <2>1, <2>2, LenProperties DEF ContextOK, Contexts, TurnOK
  <1>4. TurnsTypeOK
    <2>1. ASSUME NEW s \in Slots
          PROVE  /\ ctx[s].len \in 0..MaxCtx /\ ctx[s].hist \in Seq(Tokens)
                 /\ Len(ctx[s].rows) <= MaxCtx
                 /\ turn[s].at \in {"idle", "pick", "draft", "verify", "first", "round", "rows", "end"}
                 /\ turn[s].k \in 0..(Draft + 1)
      <3>1. turn[s] \in TurnStates /\ Len(turn[s].draft) <= Draft /\ turn[s].k <= Len(turn[s].draft) + 1
        BY <1>3 DEF TurnOK
      <3>2. /\ turn[s].at \in {"idle", "pick", "draft", "verify", "first", "round", "rows", "end"}
            /\ turn[s].k \in Nat /\ turn[s].draft \in Seq(Sayable)
        BY <3>1 DEF TurnStates
      <3>3. Len(turn[s].draft) \in Nat
        BY <3>2, LenProperties
      <3> QED BY <1>2, <1>3, <3>1, <3>2, <3>3
    <2> QED BY <1>1, <2>1 DEF TurnsTypeOK
  <1>5. RowsFollowHistory
    BY <1>3 DEF RowsFollowHistory
  <1>6. RepliesAreTheModels
    <2>1. ASSUME NEW s \in Slots, turn[s].at # "idle"
          PROVE  LET past == ctx[s].hist IN
                 /\ \A n \in (turn[s].base + 1)..Len(past) : past[n] \in engine.model[past[n - 1]]
                 /\ turn[s].cause = "cap" => Emitted(s) >= turn[s].budget
                 /\ turn[s].cause = "stop" => Stop \in engine.model[Last(past)]
                 /\ Emitted(s) <= turn[s].budget
      <3>1. Progress(engine.model, ctx[s].hist, turn[s])
        BY <1>3, <2>1 DEF TurnOK
      <3>2. turn[s].base \in Nat /\ turn[s].budget \in Nat /\ Emitted(s) = Len(ctx[s].hist) - turn[s].base
        BY <1>3 DEF TurnStates, Emitted
      <3>3. /\ Len(ctx[s].hist) <= turn[s].base + turn[s].budget
            /\ turn[s].cause = "cap" => Len(ctx[s].hist) >= turn[s].base + turn[s].budget
            /\ turn[s].cause = "stop" => Stop \in engine.model[Last(ctx[s].hist)]
            /\ \A n \in (turn[s].base + 1)..Len(ctx[s].hist) :
                  ctx[s].hist[n] \in engine.model[ctx[s].hist[n - 1]]
        BY <3>1 DEF Progress, Follows
      <3>4. Emitted(s) <= turn[s].budget /\ (turn[s].cause = "cap" => Emitted(s) >= turn[s].budget)
        BY <1>3, <3>2, <3>3
      <3> QED BY <3>3, <3>4
    <2> QED BY <2>1 DEF RepliesAreTheModels
  <1>7. RefusedIsNotPicked
    <2>1. ASSUME NEW s \in Slots, turn[s].refused # <<>>, IsPrefix(turn[s].refused, ctx[s].hist)
          PROVE  FALSE
      <3> DEFINE r == turn[s].refused
                 past == ctx[s].hist
                 n == Len(r)
      <3>1. r \in Seq(Sayable) /\ past \in Seq(Sayable) /\ n \in Nat \ {0} /\ Len(past) \in Nat
        <4>1. r \in Seq(Sayable)
          BY <1>3 DEF TurnStates
        <4>2. n \in Nat \ {0}
          BY <2>1, <4>1, EmptySeq
        <4> QED BY <1>3, <4>1, <4>2, SizesAndWords
      <3>2. n <= Len(past) /\ SubSeq(r, 1, n) = SubSeq(past, 1, n)
        BY <2>1 DEF IsPrefix
      <3>3. Avoided(engine.model, engine.greedy, past, turn[s])
        BY <1>3 DEF TurnOK
      <3>4. n <= Len(past) => past[n] # r[n]
        BY <3>1, <3>3 DEF Avoided
      <3> HIDE DEF r, past, n
      <3>5. n \in 0..n /\ n \in 1..n
        BY <3>1
      <3>6. \A i \in 1..n : r[i] = past[i]
        BY <3>1, <3>2, <3>5, SamePrefix DEF n
      <3> QED BY <3>2, <3>4, <3>5, <3>6
    <2> QED BY <2>1 DEF RefusedIsNotPicked
  <1> QED BY <1>4, <1>5, <1>6, <1>7 DEF SpeculationIsInvisible

(* Whatever was drafted, verified, refused, reused or adopted: the rows a  *)
(* turn goes on from are those of its history, and every token of a reply  *)
(* is one the model gives after the tokens before it.                      *)
THEOREM DraftsNeverShow == TurnsSpec => []SpeculationIsInvisible
  <1>1. TurnsInit => TurnsInv
    BY TurnsStart
  <1>2. TurnsInv /\ [TurnsNext]_turnsVars => TurnsInv'
    BY TurnsStep
  <1>3. TurnsInv => SpeculationIsInvisible
    BY TurnsInvImplies
  <1> QED BY <1>1, <1>2, <1>3, PTL DEF TurnsSpec

----------------------------------------------------------------------------
(* Rows.                                                                   *)

Rowed == Seq(Seq(RowTokens))

\* The first n rows are those of the tokens.
Holding(rws, tokens, n) ==
    /\ rws \in Rowed /\ n <= Len(rws)
    /\ \A i \in 1..n : rws[i] = SubSeq(tokens, 1, i)

\* What a device has are the first rows of the host's.
CopyOf(copy, rws) ==
    /\ copy \in Rowed /\ Len(copy) <= Len(rws)
    /\ \A i \in 1..Len(copy) : copy[i] = rws[i]

(* The rows up to one of them. *)
LEMMA RowsUpto ==
    ASSUME NEW S, NEW w \in Seq(S), NEW n \in Nat
    PROVE  /\ Upto(w, n) \in Seq(S) /\ Len(Upto(w, n)) <= n /\ Len(Upto(w, n)) <= Len(w)
           /\ n <= Len(w) => Len(Upto(w, n)) = n
           /\ \A i \in 1..Len(Upto(w, n)) : Upto(w, n)[i] = w[i]
  <1> DEFINE k == IF n < Len(w) THEN n ELSE Len(w)
  <1>1. Len(w) \in Nat
    BY LenProperties
  <1>2. k \in 0..Len(w) /\ k <= n /\ k <= Len(w) /\ (n <= Len(w) => k = n) /\ Upto(w, n) = SubSeq(w, 1, k)
    BY <1>1 DEF Upto
  <1> HIDE DEF k
  <1>3. SubSeq(w, 1, k) \in Seq(S) /\ Len(SubSeq(w, 1, k)) = k
        /\ \A i \in 1..k : SubSeq(w, 1, k)[i] = w[i]
    BY <1>2, PrefixOf
  <1> QED BY <1>2, <1>3

(* Rows written in place: those before and those after them stay. *)
LEMMA RowsWritten ==
    ASSUME NEW S, NEW w \in Seq(S), NEW n \in 0..Len(w), NEW new \in Seq(S), NEW u, u = Written(w, n, new)
    PROVE  /\ u \in Seq(S) /\ n + Len(new) <= Len(u) /\ Len(w) <= Len(u)
           /\ Len(u) = n + Len(new) \/ Len(u) = Len(w)
           /\ \A i \in 1..n : u[i] = w[i]
           /\ \A i \in 1..Len(new) : u[n + i] = new[i]
  <1> DEFINE v == Upto(w, n) \o new
             m == n + Len(new)
             rest == SubSeq(w, m + 1, Len(w))
  <1>1. n \in Nat /\ n <= Len(w) /\ Len(w) \in Nat /\ Len(new) \in Nat /\ m \in Nat
    BY LenProperties
  <1>2. /\ Upto(w, n) \in Seq(S) /\ Len(Upto(w, n)) = n
        /\ \A i \in 1..n : Upto(w, n)[i] = w[i]
    BY <1>1, RowsUpto
  <1>3. /\ v \in Seq(S) /\ Len(v) = m
        /\ \A i \in 1..n : v[i] = w[i]
        /\ \A i \in 1..Len(new) : v[n + i] = new[i]
    <2> DEFINE a == Upto(w, n)
    <2>1. Len(a) = n /\ (\A i \in 1..n : a[i] = w[i]) /\ v = a \o new
      BY <1>2
    <2>3. a \in Seq(S)
      BY <1>2
    <2> HIDE DEF a, v
    <2>2. /\ a \o new \in Seq(S) /\ Len(a \o new) = Len(a) + Len(new)
          /\ \A i \in 1..Len(a) : (a \o new)[i] = a[i]
          /\ \A i \in 1..Len(new) : (a \o new)[Len(a) + i] = new[i]
      BY <2>3, Behind
    <2> QED BY <2>1, <2>2, <2>3
  <1>4. rest \in Seq(S) /\ Len(rest) \in Nat /\ (m + Len(rest) = m \/ m + Len(rest) = Len(w))
        /\ Len(w) <= m + Len(rest)
    <2>1. CASE m <= Len(w)
      <3>1. m \in 0..Len(w) /\ Len(w) \in m..Len(w)
        BY <1>1, <2>1
      <3>2. rest \in Seq(S) /\ Len(rest) = Len(w) - m
        BY <3>1, PrefixAndRest
      <3> HIDE DEF rest, m
      <3> QED BY <1>1, <2>1, <3>2
    <2>2. CASE ~(m <= Len(w))
      <3>1. \A i \in (m + 1)..Len(w) : w[i] \in S
        BY <1>1, <2>2
      <3>2. m + 1 \in Int /\ Len(w) \in Int /\ ~(m + 1 <= Len(w))
        BY <1>1, <2>2
      <3>3. rest \in Seq(S) /\ Len(rest) = 0
        BY <3>1, <3>2, SubSeqProperties
      <3> HIDE DEF rest, m
      <3> QED BY <1>1, <2>2, <3>3
    <2> QED BY <2>1, <2>2
  <1>5. u = v \o rest
    BY DEF Written
  <1> HIDE DEF v, rest
  <1> HIDE DEF m
  <1>6. /\ v \o rest \in Seq(S) /\ Len(v \o rest) = m + Len(rest)
        /\ \A i \in 1..m : (v \o rest)[i] = v[i]
    <2>1. v \in Seq(S) /\ Len(v) = m /\ rest \in Seq(S)
      BY <1>3, <1>4
    <2>2. /\ v \o rest \in Seq(S) /\ Len(v \o rest) = Len(v) + Len(rest)
          /\ \A i \in 1..Len(v) : (v \o rest)[i] = v[i]
      BY <2>1, Behind
    <2> QED BY <2>1, <2>2
  <1> USE DEF m
  <1>7. \A i \in 1..n : i \in 1..m
    BY <1>1
  <1>8. \A i \in 1..Len(new) : n + i \in 1..m
    BY <1>1
  <1>9. m <= m + Len(rest)
    BY <1>1, <1>4
  <1> HIDE DEF m
  <1>10. u \in Seq(S) /\ m <= Len(u) /\ Len(w) <= Len(u) /\ (Len(u) = m \/ Len(u) = Len(w))
    BY <1>4, <1>5, <1>6, <1>9
  <1>11. ASSUME NEW i \in 1..n PROVE u[i] = w[i]
    BY <1>3, <1>5, <1>6, <1>7
  <1>12. ASSUME NEW i \in 1..Len(new) PROVE u[n + i] = new[i]
    BY <1>3, <1>5, <1>6, <1>8
  <1> QED BY <1>10, <1>11, <1>12 DEF m

(* A copy brought up to row n is a copy, of n rows at least. *)
LEMMA RowsSynced ==
    ASSUME NEW copy, NEW rws \in Rowed, CopyOf(copy, rws), NEW n \in Nat, n <= Len(rws),
           NEW u, u = Synced(copy, rws, n)
    PROVE  CopyOf(u, rws) /\ n <= Len(u) /\ (Len(copy) <= n => Len(u) = n)
  <1>1. copy \in Rowed /\ Len(copy) \in Nat /\ Len(rws) \in Nat /\ Len(copy) <= Len(rws)
        /\ \A i \in 1..Len(copy) : copy[i] = rws[i]
    BY LenProperties DEF CopyOf, Rowed
  <1>2. CASE ~(Len(copy) < n)
    BY <1>1, <1>2 DEF Synced
  <1>3. CASE Len(copy) < n
    <2> DEFINE k == Len(copy)
               more == SubSeq(rws, k + 1, n)
    <2>1. k \in 0..Len(rws) /\ n \in k..Len(rws) /\ k \in Nat
      BY <1>1, <1>3
    <2> HIDE DEF k
    <2>2. more \in Rowed /\ Len(more) = n - k /\ \A i \in 1..(n - k) : more[i] = rws[k + i]
      BY <2>1, PrefixAndRest DEF Rowed
    <2>3. u = copy \o more
      BY <1>3 DEF Synced, k
    <2> HIDE DEF more
    <2>4. /\ copy \o more \in Rowed /\ Len(copy \o more) = k + Len(more)
          /\ \A i \in 1..k : (copy \o more)[i] = copy[i]
          /\ \A i \in 1..Len(more) : (copy \o more)[k + i] = more[i]
      BY <1>1, <2>2, Behind DEF Rowed, k
    <2>5. u \in Rowed /\ Len(u) = n
      BY <2>1, <2>2, <2>3, <2>4
    <2>6. ASSUME NEW i \in 1..n PROVE u[i] = rws[i]
      <3>1. CASE i <= k
        <4>1. i \in 1..k
          BY <2>1, <3>1
        <4> QED BY <1>1, <2>3, <2>4, <4>1 DEF k
      <3>2. CASE ~(i <= k)
        <4>1. i - k \in 1..(n - k) /\ k + (i - k) = i
          BY <2>1, <3>2
        <4>2. u[k + (i - k)] = more[i - k] /\ more[i - k] = rws[k + (i - k)]
          BY <2>2, <2>3, <2>4, <4>1
        <4> QED BY <4>1, <4>2
      <3> QED BY <3>1, <3>2
    <2>7. CopyOf(u, rws)
      BY <2>5, <2>6 DEF CopyOf
    <2> QED BY <2>5, <2>7
  <1> QED BY <1>2, <1>3

(* A copy that is cut is a copy, of what is written behind it too. *)
LEMMA RowsCut ==
    ASSUME NEW copy, NEW rws \in Rowed, CopyOf(copy, rws), NEW n \in Nat
    PROVE  /\ CopyOf(Upto(copy, n), rws) /\ Len(Upto(copy, n)) <= n
           /\ \A new \in Rowed : Len(rws) <= Len(new) /\ (\A i \in 1..n : i <= Len(rws) => new[i] = rws[i])
                                    => CopyOf(Upto(copy, n), new)
  <1>1. copy \in Rowed /\ Len(copy) \in Nat /\ Len(rws) \in Nat /\ Len(copy) <= Len(rws)
        /\ \A i \in 1..Len(copy) : copy[i] = rws[i]
    BY LenProperties DEF CopyOf, Rowed
  <1>2. /\ Upto(copy, n) \in Rowed /\ Len(Upto(copy, n)) <= n /\ Len(Upto(copy, n)) <= Len(copy)
        /\ \A i \in 1..Len(Upto(copy, n)) : Upto(copy, n)[i] = copy[i]
    <2> DEFINE S == Seq(RowTokens)
    <2>1. copy \in Seq(S)
      BY <1>1 DEF Rowed
    <2> HIDE DEF S
    <2>2. /\ Upto(copy, n) \in Seq(S)
          /\ Len(Upto(copy, n)) <= n /\ Len(Upto(copy, n)) <= Len(copy)
          /\ \A i \in 1..Len(Upto(copy, n)) : Upto(copy, n)[i] = copy[i]
      BY <2>1, RowsUpto
    <2> QED BY <2>2 DEF Rowed, S
  <1> DEFINE u == Upto(copy, n)
  <1>0. /\ u \in Rowed /\ Len(u) <= n /\ Len(u) <= Len(copy)
        /\ \A i \in 1..Len(u) : u[i] = copy[i]
    BY <1>2
  <1> HIDE DEF u
  <1>3. Len(u) \in Nat
    BY <1>0, LenProperties DEF Rowed
  <1>4. \A i \in 1..Len(u) : i \in 1..Len(copy) /\ i \in 1..n /\ i <= Len(rws)
    BY <1>1, <1>0, <1>3
  <1>5. Len(u) <= Len(rws)
    BY <1>1, <1>0, <1>3
  <1>6. \A i \in 1..Len(u) : u[i] = rws[i]
    BY <1>1, <1>0, <1>4
  <1>7. CopyOf(u, rws)
    BY <1>0, <1>5, <1>6 DEF CopyOf
  <1>8. ASSUME NEW new \in Rowed, Len(rws) <= Len(new), \A i \in 1..n : i <= Len(rws) => new[i] = rws[i]
        PROVE  CopyOf(u, new)
    <2>1. Len(new) \in Nat
      BY LenProperties DEF Rowed
    <2>2. Len(u) <= Len(new)
      BY <1>1, <1>3, <1>5, <1>8, <2>1
    <2>3. \A i \in 1..Len(u) : u[i] = new[i]
      BY <1>4, <1>6, <1>8
    <2> QED BY <1>0, <2>2, <2>3 DEF CopyOf
  <1> QED BY <1>0, <1>7, <1>8 DEF u

(* The rows of some tokens. *)
LEMMA RowsOfTokens ==
    ASSUME NEW tokens \in Seq(RowTokens)
    PROVE  /\ RowsOver(tokens) \in Rowed /\ Len(RowsOver(tokens)) = Len(tokens)
           /\ \A i \in 1..Len(tokens) : RowsOver(tokens)[i] = SubSeq(tokens, 1, i)
  <1>1. Len(tokens) \in Nat
    BY LenProperties
  <1>0. \A i \in 1..Len(tokens) : SubSeq(tokens, 1, i) \in Seq(RowTokens)
    <2> TAKE i \in 1..Len(tokens)
    <2>1. i \in 0..Len(tokens)
      BY <1>1
    <2> QED BY <2>1, PrefixOf
  <1> DEFINE r == [i \in 1..Len(tokens) |-> SubSeq(tokens, 1, i)]
  <1>3. r \in [1..Len(tokens) -> Seq(RowTokens)]
    BY <1>0
  <1>4. RowsOver(tokens) = r /\ \A i \in 1..Len(tokens) : r[i] = SubSeq(tokens, 1, i)
    BY DEF RowsOver
  <1> HIDE DEF r
  <1>5. r \in Seq(Seq(RowTokens)) /\ Len(r) = Len(tokens)
    BY <1>1, <1>3
  <1> QED BY <1>4, <1>5 DEF Rowed

(* What is read is right when the copy holds the rows of the tokens. *)
LEMMA ReadingIsRight ==
    ASSUME NEW tokens \in Seq(RowTokens), NEW n, n = Len(tokens), NEW copy, Holding(copy, tokens, n)
    PROVE  Reading(copy, n, tokens).got = Reading(copy, n, tokens).want
  <1> DEFINE u == Upto(copy, n)
             r == RowsOver(tokens)
  <1>1. copy \in Rowed /\ n \in Nat /\ n <= Len(copy) /\ \A i \in 1..n : copy[i] = SubSeq(tokens, 1, i)
    BY LenProperties DEF Holding
  <1>0. u \in Rowed /\ Len(u) = n /\ \A i \in 1..n : u[i] = copy[i]
    <2>1. /\ u \in Rowed /\ Len(u) = n
          /\ \A i \in 1..Len(u) : u[i] = copy[i]
      BY <1>1, RowsUpto DEF Rowed
    <2> QED BY <2>1
  <1>3. r \in Rowed /\ Len(r) = n /\ \A i \in 1..n : r[i] = SubSeq(tokens, 1, i)
    BY RowsOfTokens
  <1>4. SubSeq(tokens, 1, n) = tokens
    BY SubSeqFull
  <1>5. Reading(copy, n, tokens).got = u /\ Reading(copy, n, tokens).want = r
    BY <1>4 DEF Reading
  <1> HIDE DEF u, r
  <1>6. \A i \in 1..n : u[i] = r[i]
    BY <1>1, <1>0, <1>3
  <1>7. u = r
    BY <1>0, <1>3, <1>6, SeqEqual DEF Rowed
  <1> QED BY <1>5, <1>7


(* The prefix two sequences share. *)
LEMMA CommonPrefix ==
    ASSUME NEW a \in Seq(RowTokens), NEW b \in Seq(RowTokens), NEW k, k = Common(a, b)
    PROVE  k \in 0..Len(a) /\ k <= Len(b) /\ SubSeq(a, 1, k) = SubSeq(b, 1, k)
  <1> DEFINE P(n) == /\ n <= Len(b) /\ SubSeq(a, 1, n) = SubSeq(b, 1, n)
                     /\ n < Len(a) /\ n < Len(b) => a[n + 1] # b[n + 1]
             Ends == {n \in 0..Len(a) : n < Len(a) /\ n < Len(b) => a[n + 1] # b[n + 1]}
  <1>1. Len(a) \in Nat /\ Len(b) \in Nat
    BY LenProperties
  <1>2. Ends \in SUBSET Nat /\ Len(a) \in Ends
    BY <1>1
  <1>3. PICK n \in Ends : \A j \in Ends : n <= j
    <2>1. Ends # {} /\ Ends \in SUBSET Nat
      BY <1>2
    <2> HIDE DEF Ends
    <2> QED BY <2>1, SmallestNumber
  <1>4. n \in 0..Len(a) /\ (n < Len(a) /\ n < Len(b) => a[n + 1] # b[n + 1])
    BY <1>3
  <1>5. ASSUME NEW i \in 1..n PROVE i <= Len(b) /\ a[i] = b[i]
    <2>1. i - 1 \in 0..Len(a) /\ i - 1 \in Nat /\ i - 1 < Len(a) /\ (i - 1) + 1 = i /\ ~(n <= i - 1)
      BY <1>1, <1>4
    <2>2. i - 1 \notin Ends
      BY <1>3, <2>1
    <2>3. i - 1 < Len(b) /\ a[(i - 1) + 1] = b[(i - 1) + 1]
      BY <2>1, <2>2
    <2> QED BY <1>1, <2>1, <2>3
  <1>6. n <= Len(b)
    <2>1. CASE n = 0
      BY <1>1, <2>1
    <2>2. CASE n # 0
      <3>1. n \in 1..n
        BY <1>1, <1>4, <2>2
      <3> QED BY <1>5, <3>1
    <2> QED BY <2>1, <2>2
  <1>7. \A i \in 1..n : a[i] = b[i]
    BY <1>5
  <1>8. SubSeq(a, 1, n) = SubSeq(b, 1, n)
    <2>1. n \in 0..Len(a)
      BY <1>4
    <2> QED BY <1>6, <1>7, <2>1, SamePrefix
  <1>9. P(n)
    BY <1>4, <1>6, <1>8
  <1>10. Common(a, b) = CHOOSE j \in 0..Len(a) : P(j)
    BY DEF Common
  <1> HIDE DEF P
  <1>11. k \in 0..Len(a) /\ P(k)
    BY <1>4, <1>9, <1>10
  <1> QED BY <1>11 DEF P

----------------------------------------------------------------------------
(* The invariant of the rows.                                              *)

\* A slot: the rows of its history, and the ragged entry that follows it.
SlotIsSound(rws, tokens, copy) ==
    /\ tokens \in Seq(RowTokens) /\ Len(rws) <= MaxRows
    /\ Holding(rws, tokens, Len(tokens))
    /\ copy \in Rowed /\ Len(copy) <= Len(tokens)
    /\ \A i \in 1..Len(copy) : copy[i] = SubSeq(tokens, 1, i)
    /\ copy # <<>> => setup.extends

\* The copies of the bound slot, on the builds that make one.
CopiesAreSound(rws, onCuda, onVulkan) ==
    /\ CopyOf(onCuda, rws) /\ (onCuda # <<>> => setup.cuda /\ setup.pipe)
    /\ CopyOf(onVulkan, rws) /\ (onVulkan # <<>> => setup.vulkan)

ReadsAreRight == \A r \in read : r.got = r.want

RowsInv ==
    /\ setup \in Setups /\ bound \in setup.slots /\ active \subseteq setup.slots
    /\ begun \in 0..MaxBegun
    /\ host \in [setup.slots -> Rowed] /\ hist \in [setup.slots -> Seq(RowTokens)]
    /\ ragged \in [setup.slots -> Rowed]
    /\ \A s \in setup.slots : SlotIsSound(host[s], hist[s], ragged[s])
    /\ CopiesAreSound(host[bound], shadow, mirror)
    /\ ReadsAreRight

(* What a forward is about: a slot, its rows, the copies a device has. *)
Sources == [slot : setup.slots, rows : Rowed, shadow : Rowed, mirror : Rowed]

(* Rows written behind the first n are the rows of all the tokens. *)
LEMMA RowsOfABatch ==
    ASSUME NEW tokens \in Seq(RowTokens), NEW n \in 0..Len(tokens), NEW rws, Holding(rws, tokens, n),
           NEW m, m = Len(tokens) - n,
           NEW u, u = Written(rws, n, SubSeq(RowsOver(tokens), n + 1, n + m))
    PROVE  /\ Holding(u, tokens, Len(tokens)) /\ Len(rws) <= Len(u)
           /\ Len(u) = Len(tokens) \/ Len(u) = Len(rws)
           /\ \A i \in 1..n : u[i] = rws[i]
  <1> DEFINE all == RowsOver(tokens)
             new == SubSeq(all, n + 1, Len(tokens))
  <1>1. /\ Len(tokens) \in Nat /\ n \in Nat /\ n <= Len(tokens) /\ n + m = Len(tokens) /\ m \in Nat
        /\ rws \in Rowed /\ n <= Len(rws) /\ Len(rws) \in Nat
        /\ \A i \in 1..n : rws[i] = SubSeq(tokens, 1, i)
    BY LenProperties DEF Holding, Rowed
  <1>2. all \in Rowed /\ Len(all) = Len(tokens) /\ \A i \in 1..Len(tokens) : all[i] = SubSeq(tokens, 1, i)
    BY RowsOfTokens
  <1> HIDE DEF all
  <1>3. new \in Rowed /\ Len(new) = m /\ \A i \in 1..m : new[i] = all[n + i]
    <2> DEFINE S == Seq(RowTokens)
               k == Len(tokens)
    <2>1. all \in Seq(S) /\ n \in 0..Len(all) /\ k \in n..Len(all) /\ k - n = m
      BY <1>1, <1>2 DEF Rowed
    <2> HIDE DEF S, k
    <2>2. /\ SubSeq(all, n + 1, k) \in Seq(S) /\ Len(SubSeq(all, n + 1, k)) = k - n
          /\ \A i \in 1..(k - n) : SubSeq(all, n + 1, k)[i] = all[n + i]
      BY <2>1, PrefixAndRest
    <2> QED BY <2>1, <2>2 DEF S, k, Rowed
  <1>4. u = Written(rws, n, new)
    BY <1>1 DEF all
  <1> HIDE DEF new
  <1>5. /\ u \in Rowed /\ n + m <= Len(u) /\ Len(rws) <= Len(u)
        /\ Len(u) = n + m \/ Len(u) = Len(rws)
        /\ \A i \in 1..n : u[i] = rws[i]
        /\ \A i \in 1..m : u[n + i] = new[i]
    <2> DEFINE S == Seq(RowTokens)
    <2>1. rws \in Seq(S) /\ new \in Seq(S) /\ n \in 0..Len(rws)
      BY <1>1, <1>3 DEF Rowed
    <2> HIDE DEF S
    <2>2. /\ u \in Seq(S) /\ n + Len(new) <= Len(u) /\ Len(rws) <= Len(u)
          /\ Len(u) = n + Len(new) \/ Len(u) = Len(rws)
          /\ \A i \in 1..n : u[i] = rws[i]
          /\ \A i \in 1..Len(new) : u[n + i] = new[i]
      BY <1>4, <2>1, RowsWritten
    <2>3. u \in Rowed
      BY <2>2 DEF S, Rowed
    <2> QED BY <1>3, <2>2, <2>3
  <1>6. ASSUME NEW i \in 1..Len(tokens) PROVE u[i] = SubSeq(tokens, 1, i)
    <2>1. CASE i <= n
      <3>1. i \in 1..n
        BY <1>1, <2>1
      <3> QED BY <1>1, <1>5, <3>1
    <2>2. CASE ~(i <= n)
      <3>1. i - n \in 1..m /\ n + (i - n) = i
        BY <1>1, <2>2
      <3>2. u[n + (i - n)] = new[i - n] /\ new[i - n] = all[n + (i - n)]
        BY <1>3, <1>5, <3>1
      <3> QED BY <1>2, <3>1, <3>2
    <2> QED BY <2>1, <2>2
  <1>7. Len(tokens) <= Len(u)
    BY <1>1, <1>5
  <1> QED BY <1>1, <1>5, <1>6, <1>7 DEF Holding

(* The first n rows of a copy are a copy of rows that are written behind them. *)
LEMMA CutCopies ==
    ASSUME NEW rws \in Rowed, NEW onCuda, NEW onVulkan, CopiesAreSound(rws, onCuda, onVulkan),
           NEW new \in Rowed, NEW n \in Nat, Len(rws) <= Len(new),
           \A i \in 1..n : i <= Len(rws) => new[i] = rws[i]
    PROVE  CopiesAreSound(new, Upto(onCuda, n), Upto(onVulkan, n))
  <1>1. /\ CopyOf(onCuda, rws) /\ (onCuda # <<>> => setup.cuda /\ setup.pipe)
        /\ CopyOf(onVulkan, rws) /\ (onVulkan # <<>> => setup.vulkan)
    BY DEF CopiesAreSound
  <1>2. CopyOf(Upto(onCuda, n), new) /\ CopyOf(Upto(onVulkan, n), new)
    BY <1>1, RowsCut
  <1>3. Upto(<<>>, n) = <<>>
    <2>1. <<>> \in Seq(RowTokens)
      OBVIOUS
    <2>2. Upto(<<>>, n) \in Seq(RowTokens) /\ Len(Upto(<<>>, n)) <= Len(<<>>)
      BY <2>1, RowsUpto
    <2>3. Len(Upto(<<>>, n)) = 0
      <3>1. Len(Upto(<<>>, n)) \in Nat /\ Len(<<>>) = 0
        BY <2>2, LenProperties
      <3> QED BY <2>2, <3>1
    <2> QED BY <2>2, <2>3, EmptySeq
  <1> QED BY <1>1, <1>2, <1>3 DEF CopiesAreSound

(* A forward of a batch behind the first n tokens: wherever it reads, it   *)
(* reads the rows of all the tokens, and leaves true copies on the devices. *)
LEMMA StepAllIsSound ==
    ASSUME SoundSetups, setup \in Setups,
           NEW b \in Sources, NEW tokens \in Seq(RowTokens), NEW n \in 0..Len(tokens),
           NEW batch, Len(batch) = Len(tokens) - n,
           Holding(b.rows, tokens, n), CopiesAreSound(b.rows, b.shadow, b.mirror),
           StepAll(b, n, batch, tokens)
    PROVE  \E u \in Rowed :
               /\ host' = [host EXCEPT ![b.slot] = u] /\ bound' = b.slot
               /\ Holding(u, tokens, Len(tokens)) /\ Len(b.rows) <= Len(u)
               /\ Len(u) = Len(tokens) \/ Len(u) = Len(b.rows)
               /\ CopiesAreSound(u, shadow', mirror')
               /\ ReadsAreRight'
  <1> DEFINE m == Len(batch)
             last == n + m
             u == Written(b.rows, n, SubSeq(RowsOver(tokens), n + 1, n + Len(batch)))
             c == [b EXCEPT !.rows = u]
             cutS == Upto(b.shadow, n)
             cutM == Upto(b.mirror, n)
  <1>1. /\ Len(tokens) \in Nat /\ n \in Nat /\ last = Len(tokens) /\ m = Len(tokens) - n /\ last \in Nat
        /\ b.rows \in Rowed /\ b.shadow \in Rowed /\ b.mirror \in Rowed
    BY LenProperties DEF Sources
  <1>2. /\ Holding(u, tokens, last) /\ Len(b.rows) <= Len(u)
        /\ Len(u) = Len(tokens) \/ Len(u) = Len(b.rows)
        /\ \A i \in 1..n : u[i] = b.rows[i]
    BY <1>1, RowsOfABatch
  <1>3. /\ host' = [host EXCEPT ![b.slot] = u] /\ bound' = b.slot
        /\ \/ Pipe(c, n, batch, tokens)
           \/ FromHost(c, n, batch, tokens)
           \/ FromShadow(c, n, batch, tokens)
           \/ FromMirror(c, n, batch, tokens)
    BY DEF StepAll
  <1> HIDE DEF u
  <1>4. c.rows = u /\ c.shadow = b.shadow /\ c.mirror = b.mirror
    BY DEF Sources
  <1> HIDE DEF c, m, last
  <1>5. u \in Rowed /\ last <= Len(u) /\ Len(u) \in Nat
    BY <1>2, LenProperties DEF Holding, Rowed
  <1>6. /\ CopyOf(b.shadow, b.rows) /\ (b.shadow # <<>> => setup.cuda /\ setup.pipe)
        /\ CopyOf(b.mirror, b.rows) /\ (b.mirror # <<>> => setup.vulkan)
    BY DEF CopiesAreSound
  <1>7. /\ CopyOf(cutS, u) /\ (cutS # <<>> => setup.cuda /\ setup.pipe)
        /\ CopyOf(cutM, u) /\ (cutM # <<>> => setup.vulkan)
    <2>1. \A i \in 1..n : i <= Len(b.rows) => u[i] = b.rows[i]
      BY <1>2
    <2>2. CopiesAreSound(u, cutS, cutM)
      BY <1>1, <1>2, <1>5, <2>1, CutCopies
    <2> QED BY <2>2 DEF CopiesAreSound
  <1>8. ASSUME NEW copy, CopyOf(copy, u), last <= Len(copy)
        PROVE  Reading(copy, last, tokens).got = Reading(copy, last, tokens).want
    <2>1. Holding(copy, tokens, last)
      <3>1. Len(copy) \in Nat /\ copy \in Rowed /\ \A i \in 1..Len(copy) : copy[i] = u[i]
        BY <1>8, LenProperties DEF CopyOf, Rowed
      <3>2. \A i \in 1..last : i \in 1..Len(copy)
        BY <1>1, <1>8, <3>1
      <3>3. \A i \in 1..last : u[i] = SubSeq(tokens, 1, i)
        BY <1>2 DEF Holding
      <3> QED BY <1>8, <3>1, <3>2, <3>3 DEF Holding
    <2> QED BY <1>1, <2>1, ReadingIsRight
  <1>9. CopyOf(u, u)
    BY <1>5 DEF CopyOf
  <1>10. Reading(u, last, tokens).got = Reading(u, last, tokens).want
    BY <1>5, <1>8, <1>9
  <1>11. ASSUME NEW copy, CopyOf(copy, u), NEW w, w = Synced(copy, u, last)
         PROVE  /\ CopyOf(w, u)
                /\ Reading(w, last, tokens).got = Reading(w, last, tokens).want
    <2>1. CopyOf(w, u) /\ last <= Len(w)
      BY <1>1, <1>5, <1>11, RowsSynced
    <2> QED BY <1>8, <2>1
  <1>12. CopiesAreSound(u, shadow', mirror') /\ ReadsAreRight'
    <2>1. CASE Pipe(c, n, batch, tokens)
      <3>1. setup.pipe /\ read' = {Reading(u, last, tokens)} /\ shadow' = cutS /\ mirror' = b.mirror
        BY <1>4, <2>1 DEF Pipe, last, m
      <3>2. ~setup.vulkan
        BY <3>1 DEF SoundSetups
      <3>3. b.mirror = <<>> /\ CopyOf(<<>>, u)
        <4>1. b.mirror = <<>>
          BY <1>6, <3>2
        <4>2. <<>> \in Rowed /\ Len(<<>>) = 0
          BY DEF Rowed
        <4> QED BY <1>5, <4>1, <4>2 DEF CopyOf
      <3> QED BY <1>7, <1>10, <3>1, <3>3 DEF CopiesAreSound, ReadsAreRight
    <2>2. CASE FromHost(c, n, batch, tokens)
      <3>1. read' = {Reading(u, last, tokens)} /\ shadow' = cutS /\ mirror' = cutM
        BY <1>4, <2>2 DEF FromHost, last, m
      <3> QED BY <1>7, <1>10, <3>1 DEF CopiesAreSound, ReadsAreRight
    <2>3. CASE FromShadow(c, n, batch, tokens)
      <3> DEFINE w == Synced(cutS, u, last)
      <3>1. /\ setup.cuda /\ setup.pipe
            /\ read' = {Reading(w, last, tokens)} /\ shadow' = w /\ mirror' = cutM
        BY <1>4, <2>3 DEF FromShadow, last, m
      <3> HIDE DEF w
      <3>2. CopyOf(w, u) /\ Reading(w, last, tokens).got = Reading(w, last, tokens).want
        BY <1>7, <1>11 DEF w
      <3> QED BY <1>7, <3>1, <3>2 DEF CopiesAreSound, ReadsAreRight
    <2>4. CASE FromMirror(c, n, batch, tokens)
      <3> DEFINE w == Synced(cutM, u, last)
      <3>1. /\ setup.vulkan /\ shadow' = cutS /\ mirror' = w
            /\ \E done \in BOOLEAN : read' = {Reading(IF done THEN w ELSE u, last, tokens)}
        BY <1>4, <2>4 DEF FromMirror, last, m
      <3> HIDE DEF w
      <3>2. CopyOf(w, u) /\ Reading(w, last, tokens).got = Reading(w, last, tokens).want
        BY <1>7, <1>11 DEF w
      <3>3. ReadsAreRight'
        <4>1. read' = {Reading(w, last, tokens)} \/ read' = {Reading(u, last, tokens)}
          BY <3>1
        <4> QED BY <1>10, <3>2, <4>1 DEF ReadsAreRight
      <3> QED BY <1>7, <3>1, <3>2, <3>3 DEF CopiesAreSound
    <2> QED BY <1>3, <2>1, <2>2, <2>3, <2>4
  <1> QED BY <1>1, <1>2, <1>3, <1>5, <1>12

(* What the invariant says of one slot. *)
LEMMA OfOneSlot ==
    ASSUME RowsInv, NEW s \in setup.slots
    PROVE  /\ setup \in Setups /\ SlotIsSound(host[s], hist[s], ragged[s])
           /\ hist[s] \in Seq(RowTokens) /\ Len(hist[s]) \in Nat /\ Len(hist[s]) <= Len(host[s])
           /\ host[s] \in Rowed /\ Len(host[s]) \in Nat /\ Len(host[s]) <= MaxRows
           /\ Holding(host[s], hist[s], Len(hist[s]))
  <1>1. setup \in Setups /\ SlotIsSound(host[s], hist[s], ragged[s])
    BY DEF RowsInv
  <1>2. /\ hist[s] \in Seq(RowTokens) /\ host[s] \in Rowed /\ Len(hist[s]) <= Len(host[s])
        /\ Len(host[s]) <= MaxRows /\ Holding(host[s], hist[s], Len(hist[s]))
    BY <1>1 DEF SlotIsSound, Holding
  <1> QED BY <1>1, <1>2, LenProperties DEF Rowed

(* kv_bind: what the slot that is bound has on a device are its rows. *)
LEMMA BoundIsSound ==
    ASSUME RowsInv, NEW s \in setup.slots
    PROVE  /\ Bound(s) = [slot |-> s, rows |-> host[s], shadow |-> Bound(s).shadow, mirror |-> Bound(s).mirror]
           /\ Bound(s) \in Sources /\ CopiesAreSound(host[s], Bound(s).shadow, Bound(s).mirror)
  <1>1. /\ host[s] \in Rowed /\ Len(host[s]) \in Nat
        /\ CopiesAreSound(host[bound], shadow, mirror)
    BY OfOneSlot DEF RowsInv
  <1>2. shadow \in Rowed /\ mirror \in Rowed /\ <<>> \in Rowed
    BY <1>1 DEF CopiesAreSound, CopyOf, Rowed
  <1>3. CopiesAreSound(host[s], <<>>, <<>>)
    <2>1. Len(<<>>) = 0 /\ \A i \in 1..Len(<<>>) : FALSE
      OBVIOUS
    <2> QED BY <1>1, <1>2, <2>1 DEF CopiesAreSound, CopyOf
  <1>4. /\ Bound(s).shadow = IF s = bound THEN shadow ELSE <<>>
        /\ Bound(s).mirror = IF s = bound THEN mirror ELSE <<>>
        /\ Bound(s) = [slot |-> s, rows |-> host[s], shadow |-> Bound(s).shadow, mirror |-> Bound(s).mirror]
    BY DEF Bound
  <1>5. Bound(s).shadow \in Rowed /\ Bound(s).mirror \in Rowed
    BY <1>2, <1>4
  <1>6. Bound(s) \in Sources
    BY <1>1, <1>4, <1>5 DEF Sources
  <1>7. CopiesAreSound(host[s], Bound(s).shadow, Bound(s).mirror)
    BY <1>1, <1>3, <1>4
  <1> QED BY <1>4, <1>6, <1>7

(* When one slot is bound, and its rows and its history change together. *)
LEMMA OneSlotMoves ==
    ASSUME RowsInv, NEW s \in setup.slots, setup' = setup,
           NEW u, NEW tokens, SlotIsSound(u, tokens, ragged[s]),
           host' = [host EXCEPT ![s] = u], hist' = [hist EXCEPT ![s] = tokens], ragged' = ragged,
           bound' = s, active' \subseteq setup.slots, begun' \in 0..MaxBegun,
           CopiesAreSound(u, shadow', mirror'), ReadsAreRight'
    PROVE  RowsInv'
  <1>1. u \in Rowed /\ tokens \in Seq(RowTokens)
    BY DEF SlotIsSound, Holding
  <1>2. host \in [setup.slots -> Rowed] /\ hist \in [setup.slots -> Seq(RowTokens)] /\ setup \in Setups
    BY DEF RowsInv
  <1>3. host' \in [setup.slots -> Rowed] /\ hist' \in [setup.slots -> Seq(RowTokens)]
    BY <1>1, <1>2
  <1>4. host'[s] = u /\ hist'[s] = tokens
    BY <1>2
  <1>5. ASSUME NEW r \in setup.slots PROVE SlotIsSound(host'[r], hist'[r], ragged[r])
    <2>1. CASE r = s
      BY <1>4, <2>1
    <2>2. CASE r # s
      <3>1. host'[r] = host[r] /\ hist'[r] = hist[r]
        BY <1>2, <2>2
      <3>2. SlotIsSound(host[r], hist[r], ragged[r])
        BY OfOneSlot
      <3> QED BY <3>1, <3>2
    <2> QED BY <2>1, <2>2
  <1>6. \A r \in setup.slots : SlotIsSound(host[r], hist[r], ragged[r])'
    BY <1>5 DEF SlotIsSound
  <1>7. CopiesAreSound(host[bound], shadow, mirror)'
    BY <1>4 DEF CopiesAreSound
  <1>8. ragged' \in [setup.slots -> Rowed]
    BY DEF RowsInv
  <1> QED BY <1>2, <1>3, <1>6, <1>7, <1>8 DEF RowsInv

(* Two sequences that agree up to n have the same prefixes up to n. *)
LEMMA SamePrefixes ==
    ASSUME NEW v \in Seq(RowTokens), NEW w \in Seq(RowTokens), NEW n \in 0..Len(v), n <= Len(w),
           SubSeq(v, 1, n) = SubSeq(w, 1, n)
    PROVE  \A i \in 1..n : SubSeq(v, 1, i) = SubSeq(w, 1, i)
  <1>1. n \in 0..Len(w)
    BY LenProperties
  <1> TAKE i \in 1..n
  <1>2. i \in 0..n
    OBVIOUS
  <1>3. SubSeq(SubSeq(v, 1, n), 1, i) = SubSeq(v, 1, i)
    BY <1>2, PrefixOfPrefix
  <1>4. SubSeq(SubSeq(w, 1, n), 1, i) = SubSeq(w, 1, i)
    BY <1>1, <1>2, PrefixOfPrefix
  <1> QED BY <1>3, <1>4

(* A slot is sound with a history that extends the old one, or starts again *)
(* where no ragged entry has followed it.                                   *)
LEMMA HistoryGoesOn ==
    ASSUME RowsInv, NEW s \in setup.slots, NEW w \in Seq(RowTokens), NEW u,
           Holding(u, w, Len(w)), Len(u) <= MaxRows,
           ragged[s] # <<>> => /\ Len(hist[s]) <= Len(w)
                               /\ \A i \in 1..Len(hist[s]) : SubSeq(hist[s], 1, i) = SubSeq(w, 1, i)
    PROVE  SlotIsSound(u, w, ragged[s])
  <1> DEFINE copy == ragged[s]
  <1>1. /\ copy \in Rowed /\ Len(copy) <= Len(hist[s])
        /\ \A i \in 1..Len(copy) : copy[i] = SubSeq(hist[s], 1, i)
        /\ copy # <<>> => setup.extends
    BY OfOneSlot DEF SlotIsSound
  <1>2. Len(copy) \in Nat /\ Len(hist[s]) \in Nat /\ Len(w) \in Nat
    BY <1>1, OfOneSlot, LenProperties DEF Rowed
  <1> HIDE DEF copy
  <1>3. CASE copy = <<>>
    <2>1. Len(copy) = 0 /\ Len(copy) <= Len(w) /\ \A i \in 1..Len(copy) : copy[i] = SubSeq(w, 1, i)
      BY <1>2, <1>3
    <2> QED BY <1>1, <2>1 DEF SlotIsSound, copy
  <1>4. CASE copy # <<>>
    <2>1. Len(hist[s]) <= Len(w) /\ \A i \in 1..Len(hist[s]) : SubSeq(hist[s], 1, i) = SubSeq(w, 1, i)
      BY <1>4 DEF copy
    <2>2. Len(copy) <= Len(w) /\ \A i \in 1..Len(copy) : i \in 1..Len(hist[s])
      BY <1>1, <1>2, <2>1
    <2>3. \A i \in 1..Len(copy) : copy[i] = SubSeq(w, 1, i)
      BY <1>1, <2>1, <2>2
    <2> QED BY <1>1, <2>2, <2>3 DEF SlotIsSound, copy
  <1> QED BY <1>3, <1>4

(* mux_submit, where it adopts: what is kept or copied are the rows of the *)
(* prompt, and the copies of the slot are copies of them.                  *)
LEMMA AdoptedIsSound ==
    ASSUME SoundSetups, RowsInv, NEW s \in setup.slots, NEW prompt \in Seq(RowTokens), Len(prompt) < MaxRows,
           NEW kept, kept = Common(hist[s], prompt), NEW a, a = Adopted(s, prompt, kept)
    PROVE  /\ a.n \in 0..Len(prompt) /\ Holding(a.rows, prompt, a.n) /\ Len(a.rows) <= MaxRows
           /\ CopiesAreSound(a.rows, Bound(s).shadow, Bound(s).mirror)
  <1>1. /\ hist[s] \in Seq(RowTokens) /\ Len(hist[s]) \in Nat /\ Len(hist[s]) <= Len(host[s])
        /\ host[s] \in Rowed /\ Len(host[s]) \in Nat /\ Len(host[s]) <= MaxRows
        /\ Holding(host[s], hist[s], Len(hist[s])) /\ setup \in Setups
    BY OfOneSlot
  <1>2. kept \in 0..Len(hist[s]) /\ kept <= Len(prompt) /\ SubSeq(hist[s], 1, kept) = SubSeq(prompt, 1, kept)
    BY <1>1, CommonPrefix
  <1>3. Len(prompt) \in Nat /\ MaxRows \in Nat
    BY LenProperties, DeviceKvAssumption
  <1>4. /\ kept <= Len(host[s]) /\ kept \in Nat
        /\ \A i \in 1..kept : host[s][i] = SubSeq(prompt, 1, i)
    <2>1. kept <= Len(host[s]) /\ kept \in Nat /\ \A i \in 1..kept : i \in 1..Len(hist[s])
      BY <1>1, <1>2
    <2>2. \A i \in 1..kept : SubSeq(hist[s], 1, i) = SubSeq(prompt, 1, i)
      BY <1>1, <1>2, SamePrefixes
    <2>3. \A i \in 1..Len(hist[s]) : host[s][i] = SubSeq(hist[s], 1, i)
      BY <1>1 DEF Holding
    <2> QED BY <2>1, <2>2, <2>3
  <1>5. CASE Donors(s, prompt) = {}
    <2>1. a = [n |-> kept, rows |-> host[s]]
      BY <1>5 DEF Adopted
    <2>2. a.n = kept /\ a.rows = host[s]
      BY <2>1
    <2>3. Holding(host[s], prompt, kept)
      BY <1>1, <1>4 DEF Holding
    <2>4. kept \in 0..Len(prompt)
      BY <1>2, <1>3, <1>4
    <2>5. CopiesAreSound(host[s], Bound(s).shadow, Bound(s).mirror)
      BY BoundIsSound
    <2> QED BY <1>1, <2>2, <2>3, <2>4, <2>5
  <1>6. CASE Donors(s, prompt) # {}
    <2> DEFINE d == CHOOSE d \in Donors(s, prompt) : TRUE
               n == Common(hist[d], prompt)
               more == SubSeq(host[d], kept + 1, n)
               u == Written(host[s], kept, more)
    <2>1. d \in Donors(s, prompt)
      BY <1>6
    <2>2. a = [n |-> n, rows |-> u]
      BY <1>6 DEF Adopted
    <2>3. a.n = n /\ a.rows = u
      BY <2>2
    <2> HIDE DEF d, n, u
    <2>4. d \in setup.slots /\ d # s /\ setup.share /\ n > kept
      BY <2>1 DEF Donors, n
    <2>5. /\ hist[d] \in Seq(RowTokens) /\ Len(hist[d]) \in Nat /\ Len(hist[d]) <= Len(host[d])
          /\ host[d] \in Rowed /\ Len(host[d]) \in Nat
          /\ Holding(host[d], hist[d], Len(hist[d]))
      BY <2>4, OfOneSlot
    <2>6. n \in 0..Len(hist[d]) /\ n <= Len(prompt) /\ SubSeq(hist[d], 1, n) = SubSeq(prompt, 1, n)
      BY <2>5, CommonPrefix DEF n
    <2>7. \A i \in 1..n : host[d][i] = SubSeq(prompt, 1, i)
      <3>1. \A i \in 1..n : SubSeq(hist[d], 1, i) = SubSeq(prompt, 1, i)
        BY <2>5, <2>6, SamePrefixes
      <3>2. \A i \in 1..Len(hist[d]) : host[d][i] = SubSeq(hist[d], 1, i)
        BY <2>5 DEF Holding
      <3>3. \A i \in 1..n : i \in 1..Len(hist[d])
        BY <2>5, <2>6
      <3> QED BY <3>1, <3>2, <3>3
    <2>8. n \in Nat /\ n - kept \in Nat /\ kept + (n - kept) = n
      BY <1>4, <2>4, <2>6
    <2>9. more \in Rowed /\ Len(more) = n - kept /\ \A i \in 1..(n - kept) : more[i] = host[d][kept + i]
      <3> DEFINE S == Seq(RowTokens)
                 w == host[d]
      <3>1. w \in Seq(S)
        BY <2>5 DEF Rowed
      <3>2. kept \in 0..Len(w) /\ n \in kept..Len(w)
        BY <1>4, <2>4, <2>5, <2>6
      <3> HIDE DEF S, w
      <3>3. /\ SubSeq(w, kept + 1, n) \in Seq(S) /\ Len(SubSeq(w, kept + 1, n)) = n - kept
            /\ \A i \in 1..(n - kept) : SubSeq(w, kept + 1, n)[i] = w[kept + i]
        BY <3>1, <3>2, PrefixAndRest
      <3> QED BY <3>3 DEF S, w, Rowed
    <2> HIDE DEF more
    <2>10. /\ u \in Rowed /\ kept + Len(more) <= Len(u)
           /\ Len(u) = kept + Len(more) \/ Len(u) = Len(host[s])
           /\ \A i \in 1..kept : u[i] = host[s][i]
           /\ \A i \in 1..Len(more) : u[kept + i] = more[i]
      <3> DEFINE S == Seq(RowTokens)
                 w == host[s]
      <3>1. w \in Seq(S) /\ more \in Seq(S) /\ kept \in 0..Len(w)
        BY <1>1, <1>4, <2>9 DEF Rowed
      <3>2. u = Written(w, kept, more)
        BY DEF u
      <3> HIDE DEF S, w
      <3>3. /\ u \in Seq(S) /\ kept + Len(more) <= Len(u)
            /\ Len(u) = kept + Len(more) \/ Len(u) = Len(w)
            /\ \A i \in 1..kept : u[i] = w[i]
            /\ \A i \in 1..Len(more) : u[kept + i] = more[i]
        BY <3>1, <3>2, RowsWritten
      <3> QED BY <3>3 DEF S, w, Rowed
    <2>11. ASSUME NEW i \in 1..n PROVE u[i] = SubSeq(prompt, 1, i)
      <3>1. CASE i <= kept
        <4>1. i \in 1..kept
          BY <1>4, <3>1
        <4> QED BY <1>4, <2>10, <4>1
      <3>2. CASE ~(i <= kept)
        <4>1. i - kept \in 1..(n - kept) /\ kept + (i - kept) = i
          BY <1>4, <2>8, <3>2
        <4>2. u[kept + (i - kept)] = more[i - kept] /\ more[i - kept] = host[d][kept + (i - kept)]
          BY <2>9, <2>10, <4>1
        <4> QED BY <2>7, <4>1, <4>2
      <3> QED BY <3>1, <3>2
    <2>12. Holding(u, prompt, n) /\ Len(u) <= MaxRows /\ n \in 0..Len(prompt)
      <3>1. n <= Len(u) /\ (Len(u) = n \/ Len(u) = Len(host[s]))
        BY <2>8, <2>9, <2>10
      <3>2. Len(u) <= MaxRows /\ n \in 0..Len(prompt)
        BY <1>1, <1>3, <2>6, <2>8, <3>1
      <3> QED BY <2>10, <2>11, <3>1, <3>2 DEF Holding
    <2>13. CopiesAreSound(u, Bound(s).shadow, Bound(s).mirror)
      <3>1. ~(setup.cuda /\ setup.pipe) /\ ~setup.vulkan
        <4>1. ~(\A r \in setup.slots : setup.slots = {r})
          BY <2>4
        <4> QED BY <1>1, <2>4, <4>1 DEF SoundSetups
      <3>2. Bound(s).shadow = <<>> /\ Bound(s).mirror = <<>>
        BY <3>1, BoundIsSound DEF CopiesAreSound
      <3>3. CopyOf(<<>>, u)
        <4>1. <<>> \in Rowed /\ Len(<<>>) = 0 /\ Len(u) \in Nat
          BY <2>10, LenProperties DEF Rowed
        <4> QED BY <4>1 DEF CopyOf
      <3> QED BY <3>2, <3>3 DEF CopiesAreSound
    <2> QED BY <2>3, <2>12, <2>13
  <1> QED BY <1>5, <1>6

(* mux_submit. *)
LEMMA MuxSubmitKeeps ==
    ASSUME SoundSetups, RowsInv, NEW s \in setup.slots, NEW prompt \in RowPrompts, MuxSubmit(s, prompt)
    PROVE  RowsInv'
  <1> DEFINE kept == Common(hist[s], prompt)
             a == Adopted(s, prompt, kept)
             n == IF a.n = Len(prompt) THEN a.n - 1 ELSE a.n
             batch == SubSeq(prompt, n + 1, Len(prompt))
             b == [Bound(s) EXCEPT !.rows = a.rows]
  <1>1. /\ prompt \in Seq(RowTokens) /\ prompt # <<>> /\ Len(prompt) < MaxRows
        /\ MaxRows \in Nat /\ MaxBegun \in Nat
    BY DeviceKvAssumption
  <1>2. Len(prompt) \in Nat /\ Len(prompt) > 0
    BY <1>1, LenProperties, EmptySeq
  <1>3. /\ begun < MaxBegun /\ (setup.extends => kept = Len(hist[s]))
        /\ StepAll(b, n, batch, prompt)
        /\ hist' = [hist EXCEPT ![s] = prompt] /\ active' = active \cup {s} /\ begun' = begun + 1
        /\ setup' = setup /\ ragged' = ragged
    BY DEF MuxSubmit
  <1>4. /\ a.n \in 0..Len(prompt) /\ Holding(a.rows, prompt, a.n) /\ Len(a.rows) <= MaxRows
        /\ CopiesAreSound(a.rows, Bound(s).shadow, Bound(s).mirror)
    BY <1>1, AdoptedIsSound
  <1>5. /\ kept \in 0..Len(hist[s]) /\ kept <= Len(prompt)
        /\ SubSeq(hist[s], 1, kept) = SubSeq(prompt, 1, kept)
    BY <1>1, OfOneSlot, CommonPrefix
  <1> HIDE DEF kept, a
  <1>6. n \in 0..Len(prompt) /\ n <= a.n
    BY <1>2, <1>4
  <1>7. Holding(a.rows, prompt, n)
    <2>1. /\ a.rows \in Rowed /\ a.n <= Len(a.rows) /\ Len(a.rows) \in Nat
          /\ \A i \in 1..a.n : a.rows[i] = SubSeq(prompt, 1, i)
      BY <1>4, LenProperties DEF Holding, Rowed
    <2>2. n <= Len(a.rows) /\ \A i \in 1..n : i \in 1..a.n
      BY <1>4, <1>6, <2>1
    <2> HIDE DEF n
    <2> QED BY <2>1, <2>2 DEF Holding
  <1> HIDE DEF n
  <1>8. Len(batch) = Len(prompt) - n
    <2>1. Len(prompt) \in n..Len(prompt)
      BY <1>2, <1>6
    <2> QED BY <1>1, <1>6, <2>1, PrefixAndRest
  <1>9. /\ b \in Sources /\ b.slot = s /\ b.rows = a.rows
        /\ b.shadow = Bound(s).shadow /\ b.mirror = Bound(s).mirror
    <2>1. /\ Bound(s) = [slot |-> s, rows |-> host[s], shadow |-> Bound(s).shadow, mirror |-> Bound(s).mirror]
          /\ Bound(s) \in Sources
      BY BoundIsSound
    <2>2. a.rows \in Rowed /\ Bound(s).shadow \in Rowed /\ Bound(s).mirror \in Rowed
      BY <1>4, <2>1 DEF Holding, Sources
    <2>3. b = [slot |-> s, rows |-> a.rows, shadow |-> Bound(s).shadow, mirror |-> Bound(s).mirror]
      BY <2>1
    <2> HIDE DEF b
    <2> QED BY <2>2, <2>3 DEF Sources
  <1> HIDE DEF b, batch
  <1>10. PICK u \in Rowed :
            /\ host' = [host EXCEPT ![b.slot] = u] /\ bound' = b.slot
            /\ Holding(u, prompt, Len(prompt)) /\ Len(b.rows) <= Len(u)
            /\ Len(u) = Len(prompt) \/ Len(u) = Len(b.rows)
            /\ CopiesAreSound(u, shadow', mirror')
            /\ ReadsAreRight'
    <2>1. setup \in Setups /\ Holding(b.rows, prompt, n) /\ CopiesAreSound(b.rows, b.shadow, b.mirror)
      BY <1>4, <1>7, <1>9, OfOneSlot
    <2> QED BY <1>1, <1>3, <1>6, <1>8, <1>9, <2>1, StepAllIsSound
  <1>11. SlotIsSound(u, prompt, ragged[s])
    <2>1. Len(u) <= MaxRows
      BY <1>1, <1>2, <1>4, <1>9, <1>10
    <2>2. ASSUME ragged[s] # <<>>
          PROVE  /\ Len(hist[s]) <= Len(prompt)
                 /\ \A i \in 1..Len(hist[s]) : SubSeq(hist[s], 1, i) = SubSeq(prompt, 1, i)
      <3>1. kept = Len(hist[s])
        <4>1. SlotIsSound(host[s], hist[s], ragged[s])
          BY OfOneSlot
        <4> QED BY <1>3, <2>2, <4>1 DEF SlotIsSound
      <3>2. Len(hist[s]) <= Len(prompt)
        BY <1>5, <3>1
      <3>3. SubSeq(hist[s], 1, Len(hist[s])) = SubSeq(prompt, 1, Len(hist[s]))
        BY <1>5, <3>1
      <3>4. hist[s] \in Seq(RowTokens) /\ Len(hist[s]) \in 0..Len(hist[s])
        BY OfOneSlot
      <3> QED BY <1>1, <3>2, <3>3, <3>4, SamePrefixes
    <2> QED BY <1>1, <1>10, <2>1, <2>2, HistoryGoesOn
  <1>12. active' \subseteq setup.slots /\ begun' \in 0..MaxBegun
    <2>1. active \subseteq setup.slots /\ begun \in 0..MaxBegun
      BY DEF RowsInv
    <2> QED BY <1>1, <1>3, <2>1
  <1> QED BY <1>3, <1>9, <1>10, <1>11, <1>12, OneSlotMoves

(* The verification of drafts: what is kept of a batch has its rows. *)
LEMMA VerifyDraftsKeeps ==
    ASSUME SoundSetups, RowsInv, NEW s \in active, NEW batch \in Batches, NEW keep \in 1..Len(batch),
           VerifyDrafts(s, batch, keep)
    PROVE  RowsInv'
  <1> DEFINE h == hist[s]
             n == Len(h)
             tokens == h \o batch
             part == SubSeq(batch, 1, keep)
             new == h \o part
  <1>1. /\ s \in setup.slots /\ active \subseteq setup.slots /\ begun \in 0..MaxBegun
    BY DEF RowsInv
  <1>2. /\ h \in Seq(RowTokens) /\ n \in Nat /\ n <= Len(host[s]) /\ setup \in Setups
        /\ host[s] \in Rowed /\ Len(host[s]) \in Nat /\ Len(host[s]) <= MaxRows
        /\ Holding(host[s], h, n) /\ MaxRows \in Nat
    BY <1>1, OfOneSlot, DeviceKvAssumption
  <1>3. batch \in Seq(RowTokens) /\ Len(batch) \in Nat /\ keep \in 0..Len(batch) /\ keep \in Nat
    <2>1. PICK k \in 1..Small : batch \in [1..k -> RowTokens]
      BY DEF Batches
    <2>2. k \in Nat
      BY <2>1, DeviceKvAssumption
    <2>3. batch \in Seq(RowTokens)
      BY <2>1, <2>2
    <2>4. Len(batch) \in Nat
      BY <2>3, LenProperties
    <2> QED BY <2>3, <2>4
  <1>4. /\ n + Len(batch) <= MaxRows
        /\ StepAll(Bound(s), n, batch, tokens)
        /\ hist' = [hist EXCEPT ![s] = new]
        /\ setup' = setup /\ ragged' = ragged /\ active' = active /\ begun' = begun
    BY DEF VerifyDrafts
  <1> HIDE DEF h
  <1>5. /\ tokens \in Seq(RowTokens) /\ Len(tokens) = n + Len(batch)
        /\ \A i \in 1..n : tokens[i] = h[i]
        /\ \A i \in 1..Len(batch) : tokens[n + i] = batch[i]
    BY <1>2, <1>3, Behind
  <1>6. /\ part \in Seq(RowTokens) /\ Len(part) = keep
        /\ \A i \in 1..keep : part[i] = batch[i]
    BY <1>3, PrefixOf
  <1> HIDE DEF part
  <1>7. /\ new \in Seq(RowTokens) /\ Len(new) = n + Len(part)
        /\ \A i \in 1..n : new[i] = h[i]
        /\ \A i \in 1..Len(part) : new[n + i] = part[i]
    <2>1. h \in Seq(RowTokens)
      BY <1>2
    <2>2. part \in Seq(RowTokens)
      BY <1>6
    <2>3. /\ h \o part \in Seq(RowTokens) /\ Len(h \o part) = Len(h) + Len(part)
          /\ \A i \in 1..Len(h) : (h \o part)[i] = h[i]
          /\ \A i \in 1..Len(part) : (h \o part)[Len(h) + i] = part[i]
      BY <2>1, <2>2, Behind
    <2> QED BY <2>3
  <1> HIDE DEF tokens, new
  <1> DEFINE k == Len(new)
  <1>8. /\ k = n + keep /\ k \in 0..Len(new) /\ k \in Nat /\ k <= Len(tokens) /\ n <= k
        /\ n \in 0..Len(tokens) /\ Len(batch) = Len(tokens) - n /\ Len(tokens) <= MaxRows /\ n \in 0..n
    BY <1>2, <1>3, <1>4, <1>5, <1>6, <1>7
  <1>9. ASSUME NEW i \in 1..k PROVE new[i] = tokens[i]
    <2>1. CASE i <= n
      <3>1. i \in 1..n
        BY <1>8, <2>1
      <3> QED BY <1>5, <1>7, <3>1
    <2>2. CASE ~(i <= n)
      <3>1. i - n \in 1..keep /\ i - n \in 1..Len(batch) /\ n + (i - n) = i
        BY <1>2, <1>3, <1>8, <2>2
      <3>2. new[n + (i - n)] = part[i - n] /\ tokens[n + (i - n)] = batch[i - n] /\ part[i - n] = batch[i - n]
        BY <1>5, <1>6, <1>7, <3>1
      <3> QED BY <3>1, <3>2
    <2> QED BY <2>1, <2>2
  <1> HIDE DEF k, n
  <1>10. \A i \in 1..k : SubSeq(new, 1, i) = SubSeq(tokens, 1, i)
    <2>1. SubSeq(new, 1, k) = SubSeq(tokens, 1, k)
      BY <1>5, <1>7, <1>8, <1>9, SamePrefix
    <2> QED BY <1>5, <1>7, <1>8, <2>1, SamePrefixes
  <1>11. \A i \in 1..n : SubSeq(h, 1, i) = SubSeq(new, 1, i)
    <2>1. n \in 0..Len(h) /\ n <= Len(new) /\ \A i \in 1..n : h[i] = new[i]
      BY <1>7, <1>8 DEF n, k
    <2>2. SubSeq(h, 1, n) = SubSeq(new, 1, n)
      BY <1>2, <1>7, <2>1, SamePrefix
    <2> QED BY <1>2, <1>7, <2>1, <2>2, SamePrefixes
  <1>12. PICK u \in Rowed :
            /\ host' = [host EXCEPT ![Bound(s).slot] = u] /\ bound' = Bound(s).slot
            /\ Holding(u, tokens, Len(tokens)) /\ Len(Bound(s).rows) <= Len(u)
            /\ Len(u) = Len(tokens) \/ Len(u) = Len(Bound(s).rows)
            /\ CopiesAreSound(u, shadow', mirror')
            /\ ReadsAreRight'
    <2>1. Bound(s).rows = host[s] /\ Bound(s) \in Sources
      BY <1>1, BoundIsSound DEF Bound
    <2>2. CopiesAreSound(Bound(s).rows, Bound(s).shadow, Bound(s).mirror)
      BY <1>1, <2>1, BoundIsSound
    <2>3. Holding(Bound(s).rows, tokens, n)
      <3>1. \A i \in 1..n : SubSeq(h, 1, i) = SubSeq(tokens, 1, i)
        <4>1. \A i \in 1..n : i \in 1..k
          BY <1>8
        <4> QED BY <1>10, <1>11, <4>1
      <3> QED BY <1>2, <2>1, <3>1 DEF Holding
    <2> QED BY <1>2, <1>4, <1>5, <1>8, <2>1, <2>2, <2>3, StepAllIsSound
  <1>13. Bound(s).slot = s /\ Bound(s).rows = host[s]
    BY DEF Bound
  <1>14. Len(u) <= MaxRows
    BY <1>2, <1>8, <1>12, <1>13
  <1>15. Holding(u, new, Len(new))
    <2>1. u \in Rowed /\ Len(tokens) <= Len(u) /\ \A i \in 1..Len(tokens) : u[i] = SubSeq(tokens, 1, i)
      BY <1>12 DEF Holding
    <2>2. Len(u) \in Nat /\ Len(tokens) \in Nat
      BY <1>5, <2>1, LenProperties DEF Rowed
    <2>3. k <= Len(u) /\ \A i \in 1..k : i \in 1..Len(tokens)
      BY <1>8, <2>1, <2>2
    <2>4. \A i \in 1..k : u[i] = SubSeq(new, 1, i)
      BY <1>10, <2>1, <2>3
    <2> QED BY <2>1, <2>3, <2>4 DEF Holding, k
  <1>16. SlotIsSound(u, new, ragged[s])
    <2>1. Len(hist[s]) <= Len(new) /\ \A i \in 1..Len(hist[s]) : SubSeq(hist[s], 1, i) = SubSeq(new, 1, i)
      BY <1>8, <1>11 DEF h, n, k
    <2> QED BY <1>1, <1>7, <1>14, <1>15, <2>1, HistoryGoesOn
  <1> QED BY <1>1, <1>4, <1>12, <1>13, <1>16, OneSlotMoves

(* mux_done. *)
LEMMA MuxDoneKeeps ==
    ASSUME RowsInv, NEW s \in setup.slots, MuxDone(s)
    PROVE  RowsInv'
  <1>1. /\ active' \subseteq active /\ bound' = s /\ shadow' = Bound(s).shadow /\ mirror' = Bound(s).mirror
        /\ setup' = setup /\ hist' = hist /\ host' = host /\ ragged' = ragged /\ read' = read /\ begun' = begun
    BY DEF MuxDone
  <1>2. CopiesAreSound(host[s], Bound(s).shadow, Bound(s).mirror)
    BY BoundIsSound
  <1>3. CopiesAreSound(host[bound], shadow, mirror)'
    BY <1>1, <1>2 DEF CopiesAreSound
  <1>4. ASSUME NEW r \in setup.slots PROVE SlotIsSound(host[r], hist[r], ragged[r])'
    <2>1. SlotIsSound(host[r], hist[r], ragged[r])
      BY OfOneSlot
    <2> QED BY <1>1, <2>1 DEF SlotIsSound
  <1>5. ReadsAreRight'
    BY <1>1 DEF RowsInv, ReadsAreRight
  <1>6. /\ setup' \in Setups /\ bound' \in setup'.slots /\ active' \subseteq setup'.slots /\ begun' \in 0..MaxBegun
        /\ host' \in [setup'.slots -> Rowed] /\ hist' \in [setup'.slots -> Seq(RowTokens)]
        /\ ragged' \in [setup'.slots -> Rowed]
    BY <1>1 DEF RowsInv
  <1>7. \A r \in setup'.slots : SlotIsSound(host[r], hist[r], ragged[r])'
    BY <1>1, <1>4
  <1> QED BY <1>3, <1>5, <1>6, <1>7 DEF RowsInv

----------------------------------------------------------------------------
(* A round.                                                                *)

(* The row a round writes: what the slot has then, and what it reads. *)
LEMMA RowOfARound ==
    ASSUME RowsInv, NEW token \in [active -> RowTokens], NEW s \in active, Len(hist[s]) < MaxRows,
           NEW u, u = RoundRows(s, token), NEW w, w = RoundTokens(s, token)
    PROVE  /\ w \in Seq(RowTokens) /\ Len(w) = Len(hist[s]) + 1
           /\ \A i \in 1..Len(hist[s]) : SubSeq(hist[s], 1, i) = SubSeq(w, 1, i)
           /\ Holding(u, w, Len(w)) /\ Len(u) <= MaxRows /\ Len(host[s]) <= Len(u)
           /\ \A i \in 1..Len(hist[s]) : u[i] = host[s][i]
  <1> DEFINE h == hist[s]
             n == Len(h)
  <1>1. s \in setup.slots /\ token[s] \in RowTokens /\ MaxRows \in Nat
    BY DeviceKvAssumption DEF RowsInv
  <1>2. /\ h \in Seq(RowTokens) /\ n \in Nat /\ n <= Len(host[s])
        /\ host[s] \in Rowed /\ Len(host[s]) \in Nat /\ Len(host[s]) <= MaxRows
        /\ Holding(host[s], h, n)
    BY <1>1, OfOneSlot
  <1>3. w = Append(h, token[s]) /\ u = Written(host[s], n, <<w>>)
    BY DEF RoundTokens, RoundRows
  <1>4. n < MaxRows
    OBVIOUS
  <1> HIDE DEF h
  <1>5. /\ w \in Seq(RowTokens) /\ Len(w) = Len(h) + 1
        /\ \A i \in 0..Len(h) : SubSeq(w, 1, i) = SubSeq(h, 1, i)
    BY <1>1, <1>2, <1>3, OneMore
  <1> HIDE DEF n
  <1>6. /\ u \in Rowed /\ n + 1 <= Len(u) /\ Len(host[s]) <= Len(u)
        /\ Len(u) = n + 1 \/ Len(u) = Len(host[s])
        /\ \A i \in 1..n : u[i] = host[s][i]
        /\ u[n + 1] = w
    <2> DEFINE S == Seq(RowTokens)
               r == host[s]
               new == <<w>>
    <2>1. r \in Seq(S) /\ n \in 0..Len(r)
      BY <1>2 DEF Rowed
    <2>2. new \in Seq(S) /\ Len(new) = 1 /\ new[1] = w
      BY <1>5
    <2>3. u = Written(r, n, new)
      BY <1>3
    <2>4. new \in Seq(S)
      BY <2>2
    <2> HIDE DEF S, r, new
    <2>5. /\ u \in Seq(S) /\ n + Len(new) <= Len(u) /\ Len(r) <= Len(u)
          /\ Len(u) = n + Len(new) \/ Len(u) = Len(r)
          /\ \A i \in 1..n : u[i] = r[i]
          /\ \A i \in 1..Len(new) : u[n + i] = new[i]
      BY <2>1, <2>3, <2>4, RowsWritten
    <2>6. u[n + 1] = w
      <3>1. 1 \in 1..Len(new)
        BY <2>2
      <3> QED BY <2>2, <2>5, <3>1
    <2> QED BY <2>2, <2>5, <2>6 DEF S, r, Rowed
  <1>7. ASSUME NEW i \in 1..Len(w) PROVE u[i] = SubSeq(w, 1, i)
    <2>1. CASE i <= n
      <3>1. i \in 1..n /\ i \in 0..Len(h)
        BY <1>2, <2>1 DEF n
      <3>2. host[s][i] = SubSeq(h, 1, i)
        BY <1>2, <3>1 DEF Holding
      <3> QED BY <1>5, <1>6, <3>1, <3>2
    <2>2. CASE ~(i <= n)
      <3>1. i = n + 1 /\ i = Len(w)
        BY <1>2, <1>5, <2>2 DEF n
      <3>2. SubSeq(w, 1, Len(w)) = w
        BY <1>5, SubSeqFull
      <3> QED BY <1>6, <3>1, <3>2
    <2> QED BY <2>1, <2>2
  <1>8. Len(w) <= Len(u) /\ Len(w) = n + 1
    BY <1>5, <1>6 DEF n
  <1>9. Holding(u, w, Len(w))
    BY <1>6, <1>7, <1>8 DEF Holding
  <1>10. Len(u) <= MaxRows
    BY <1>1, <1>2, <1>4, <1>6
  <1>11. \A i \in 1..Len(h) : SubSeq(h, 1, i) = SubSeq(w, 1, i)
    BY <1>5
  <1>12. \A i \in 1..Len(h) : u[i] = host[s][i]
    BY <1>6 DEF n
  <1> QED BY <1>5, <1>6, <1>9, <1>10, <1>11, <1>12 DEF h

(* A copy that has all rows of the round's context reads the right ones. *)
LEMMA RoundReadsRight ==
    ASSUME NEW w \in Seq(RowTokens), NEW u, Holding(u, w, Len(w)), NEW copy, CopyOf(copy, u),
           NEW n, n = Len(w), n <= Len(copy)
    PROVE  Reading(copy, n, w).got = Reading(copy, n, w).want
  <1>1. /\ u \in Rowed /\ (\A i \in 1..n : u[i] = SubSeq(w, 1, i))
        /\ copy \in Rowed /\ Len(copy) \in Nat /\ (\A i \in 1..Len(copy) : copy[i] = u[i]) /\ n \in Nat
    BY LenProperties DEF Holding, CopyOf, Rowed
  <1>2. \A i \in 1..n : i \in 1..Len(copy)
    BY <1>1
  <1>3. Holding(copy, w, n)
    BY <1>1, <1>2 DEF Holding
  <1> QED BY <1>3, ReadingIsRight

(* The ragged entry of a slot that is sound, brought up to a round's row. *)
LEMMA RaggedEntry ==
    ASSUME RowsInv, NEW token \in [active -> RowTokens], NEW s \in active, Len(hist[s]) < MaxRows,
           NEW u, u = RoundRows(s, token), NEW w, w = RoundTokens(s, token),
           NEW copy, copy = Appended(s, u)
    PROVE  /\ CopyOf(copy, u) /\ Len(copy) = Len(w)
           /\ \A i \in 1..Len(copy) : copy[i] = SubSeq(w, 1, i)
  <1>1. s \in setup.slots
    BY DEF RowsInv
  <1>2. /\ w \in Seq(RowTokens) /\ Len(w) = Len(hist[s]) + 1
        /\ \A i \in 1..Len(hist[s]) : SubSeq(hist[s], 1, i) = SubSeq(w, 1, i)
        /\ Holding(u, w, Len(w))
    BY RowOfARound
  <1> DEFINE old == ragged[s]
             n == Len(hist[s]) + 1
  <1>3. /\ old \in Rowed /\ Len(old) \in Nat /\ Len(hist[s]) \in Nat /\ Len(old) <= Len(hist[s])
        /\ \A i \in 1..Len(old) : old[i] = SubSeq(hist[s], 1, i)
    <2>1. /\ old \in Rowed /\ Len(old) <= Len(hist[s])
          /\ \A i \in 1..Len(old) : old[i] = SubSeq(hist[s], 1, i)
      BY <1>1, OfOneSlot DEF SlotIsSound
    <2> QED BY <1>1, <2>1, OfOneSlot, LenProperties DEF Rowed
  <1>4. copy = Synced(old, u, n)
    BY <1>3 DEF Appended
  <1>5. n = Len(w) /\ n \in Nat /\ Len(old) <= n
    BY <1>2, <1>3
  <1>6. /\ u \in Rowed /\ n <= Len(u) /\ Len(u) \in Nat /\ \A i \in 1..n : u[i] = SubSeq(w, 1, i)
    BY <1>2, <1>5, LenProperties DEF Holding, Rowed
  <1>7. CopyOf(old, u)
    <2>1. \A i \in 1..Len(old) : i \in 1..Len(hist[s]) /\ i \in 1..n
      BY <1>3
    <2>2. \A i \in 1..Len(old) : old[i] = u[i]
      BY <1>2, <1>3, <1>6, <2>1
    <2>3. Len(old) <= Len(u)
      BY <1>3, <1>5, <1>6
    <2> QED BY <1>3, <2>2, <2>3 DEF CopyOf
  <1> HIDE DEF old, n
  <1>8. CopyOf(copy, u) /\ Len(copy) = n
    BY <1>4, <1>5, <1>6, <1>7, RowsSynced
  <1>9. \A i \in 1..Len(copy) : copy[i] = SubSeq(w, 1, i)
    BY <1>6, <1>8 DEF CopyOf
  <1> QED BY <1>5, <1>8, <1>9

(* A round of step_decode_batch: the slots that have a turn get a row each. *)
LEMMA DecodeRoundKeeps ==
    ASSUME SoundSetups, RowsInv, NEW token \in [active -> RowTokens], DecodeRound(token)
    PROVE  RowsInv'
  <1> DEFINE cutS == IF bound \in active THEN Upto(shadow, Len(hist[bound])) ELSE shadow
             cutM == IF bound \in active THEN Upto(mirror, Len(hist[bound])) ELSE mirror
  <1>1. /\ setup \in Setups /\ bound \in setup.slots /\ active \subseteq setup.slots
        /\ begun \in 0..MaxBegun /\ ragged \in [setup.slots -> Rowed]
        /\ host \in [setup.slots -> Rowed] /\ hist \in [setup.slots -> Seq(RowTokens)]
        /\ CopiesAreSound(host[bound], shadow, mirror)
    BY DEF RowsInv
  <1>2. /\ \A s \in active : Len(hist[s]) < MaxRows
        /\ RaggedRound(token) \/ ShadowRound(token) \/ HostRound(token)
        /\ host' = [s \in setup.slots |-> IF s \in active THEN RoundRows(s, token) ELSE host[s]]
        /\ hist' = [s \in setup.slots |-> IF s \in active THEN RoundTokens(s, token) ELSE hist[s]]
        /\ mirror' = cutM
        /\ setup' = setup /\ bound' = bound /\ active' = active /\ begun' = begun
    BY DEF DecodeRound
  <1>3. \A s \in active : host'[s] = RoundRows(s, token) /\ hist'[s] = RoundTokens(s, token)
    BY <1>1, <1>2
  <1>4. \A s \in setup.slots \ active : host'[s] = host[s] /\ hist'[s] = hist[s]
    BY <1>2
  <1> HIDE DEF cutS, cutM
  <1>5. ASSUME NEW s \in active
        PROVE  /\ hist'[s] \in Seq(RowTokens) /\ Len(hist'[s]) = Len(hist[s]) + 1
               /\ \A i \in 1..Len(hist[s]) : SubSeq(hist[s], 1, i) = SubSeq(hist'[s], 1, i)
               /\ Holding(host'[s], hist'[s], Len(hist'[s])) /\ host'[s] \in Rowed
               /\ Len(host'[s]) <= MaxRows /\ Len(host[s]) <= Len(host'[s])
               /\ \A i \in 1..Len(hist[s]) : host'[s][i] = host[s][i]
               /\ Len(hist[s]) \in Nat /\ Len(hist'[s]) <= Len(host'[s])
    <2> DEFINE u == RoundRows(s, token)
               w == RoundTokens(s, token)
    <2>1. Len(hist[s]) < MaxRows /\ host'[s] = u /\ hist'[s] = w /\ s \in setup.slots
      BY <1>1, <1>2, <1>3
    <2>2. u = RoundRows(s, token) /\ w = RoundTokens(s, token)
      OBVIOUS
    <2> HIDE DEF u, w
    <2>3. /\ w \in Seq(RowTokens) /\ Len(w) = Len(hist[s]) + 1
          /\ \A i \in 1..Len(hist[s]) : SubSeq(hist[s], 1, i) = SubSeq(w, 1, i)
          /\ Holding(u, w, Len(w)) /\ Len(u) <= MaxRows /\ Len(host[s]) <= Len(u)
          /\ \A i \in 1..Len(hist[s]) : u[i] = host[s][i]
      BY <2>1, <2>2, RowOfARound
    <2>4. Len(hist[s]) \in Nat
      BY <2>1, OfOneSlot
    <2>5. u \in Rowed /\ Len(w) <= Len(u)
      BY <2>3 DEF Holding
    <2> QED BY <2>1, <2>3, <2>4, <2>5
  <1>6. host' \in [setup.slots -> Rowed] /\ hist' \in [setup.slots -> Seq(RowTokens)]
    <2>1. \A s \in setup.slots : host'[s] \in Rowed /\ hist'[s] \in Seq(RowTokens)
      BY <1>1, <1>4, <1>5
    <2> QED BY <1>2, <2>1
  <1>7. CopiesAreSound(host'[bound], cutS, cutM)
    <2>1. CASE bound \notin active
      <3>1. host'[bound] = host[bound] /\ cutS = shadow /\ cutM = mirror
        BY <1>1, <1>4, <2>1 DEF cutS, cutM
      <3> QED BY <1>1, <3>1
    <2>2. CASE bound \in active
      <3> DEFINE new == host'[bound]
                 n == Len(hist[bound])
                 rws == host[bound]
      <3>1. /\ rws \in Rowed /\ new \in Rowed /\ n \in Nat /\ Len(rws) <= Len(new)
            /\ \A i \in 1..n : new[i] = rws[i]
        BY <1>1, <1>5, <2>2
      <3>2. CopiesAreSound(rws, shadow, mirror) /\ cutS = Upto(shadow, n) /\ cutM = Upto(mirror, n)
        BY <1>1, <2>2 DEF cutS, cutM
      <3> HIDE DEF new, n, rws
      <3>3. CopiesAreSound(new, Upto(shadow, n), Upto(mirror, n))
        BY <3>1, <3>2, CutCopies
      <3> QED BY <3>2, <3>3 DEF new
    <2> QED BY <2>1, <2>2
  <1>8. ASSUME NEW s \in active
        PROVE  LET r == Reading(RoundRows(s, token), Len(hist[s]) + 1, RoundTokens(s, token))
               IN  r.got = r.want
    <2> DEFINE u == host'[s]
               w == hist'[s]
               n == Len(hist[s]) + 1
    <2>1. /\ w \in Seq(RowTokens) /\ n = Len(w) /\ Holding(u, w, Len(w)) /\ u \in Rowed /\ n <= Len(u)
      BY <1>5
    <2>2. u = RoundRows(s, token) /\ w = RoundTokens(s, token)
      BY <1>3
    <2> HIDE DEF u, w, n
    <2>3. CopyOf(u, u)
      <3>1. Len(u) \in Nat
        BY <2>1, LenProperties DEF Rowed
      <3> QED BY <2>1, <3>1 DEF CopyOf
    <2>4. Reading(u, n, w).got = Reading(u, n, w).want
      BY <2>1, <2>3, RoundReadsRight
    <2> QED BY <2>2, <2>4 DEF n
  <1>9. ASSUME NEW s \in setup.slots PROVE SlotIsSound(host'[s], hist'[s], ragged[s])
    <2>1. CASE s \in active
      <3>1. \A i \in 1..Len(hist[s]) : SubSeq(hist[s], 1, i) = SubSeq(hist'[s], 1, i)
        BY <1>5, <2>1
      <3>2. Len(hist[s]) <= Len(hist'[s])
        BY <1>5, <2>1
      <3> DEFINE u == host'[s]
                 w == hist'[s]
      <3>3. w \in Seq(RowTokens) /\ Holding(u, w, Len(w)) /\ Len(u) <= MaxRows
        BY <1>5, <2>1
      <3>4. Len(hist[s]) <= Len(w) /\ \A i \in 1..Len(hist[s]) : SubSeq(hist[s], 1, i) = SubSeq(w, 1, i)
        BY <3>1, <3>2
      <3> HIDE DEF u, w
      <3>5. SlotIsSound(u, w, ragged[s])
        BY <3>3, <3>4, HistoryGoesOn
      <3> QED BY <3>5 DEF u, w
    <2>2. CASE s \notin active
      <3>1. SlotIsSound(host[s], hist[s], ragged[s])
        BY OfOneSlot
      <3> QED BY <1>4, <2>2, <3>1
    <2> QED BY <2>1, <2>2
  <1>10. ASSUME ragged' \in [setup.slots -> Rowed], CopiesAreSound(host'[bound], shadow', cutM), ReadsAreRight',
                \A s \in setup.slots : SlotIsSound(host'[s], hist'[s], ragged'[s])
         PROVE  RowsInv'
    <2>1. CopiesAreSound(host[bound], shadow, mirror)'
      BY <1>2, <1>10 DEF CopiesAreSound
    <2>2. \A s \in setup.slots : SlotIsSound(host[s], hist[s], ragged[s])'
      BY <1>2, <1>10 DEF SlotIsSound
    <2> QED BY <1>1, <1>2, <1>6, <1>10, <2>1, <2>2 DEF RowsInv
  <1>11. CASE RaggedRound(token)
    <2>1. /\ setup.cuda /\ setup.projects /\ ~setup.dsa /\ shadow' = cutS
          /\ read' = {Reading(Appended(s, RoundRows(s, token)), Len(hist[s]) + 1, RoundTokens(s, token)) : s \in active}
          /\ ragged' = [s \in setup.slots |-> IF s \in active THEN Appended(s, RoundRows(s, token)) ELSE ragged[s]]
      BY <1>11 DEF RaggedRound, cutS
    <2>2. setup.extends
      BY <1>1, <2>1 DEF SoundSetups
    <2>3. ASSUME NEW s \in active
          PROVE  /\ ragged'[s] \in Rowed /\ SlotIsSound(host'[s], hist'[s], ragged'[s])
                 /\ LET r == Reading(Appended(s, RoundRows(s, token)), Len(hist[s]) + 1, RoundTokens(s, token))
                    IN  r.got = r.want
      <3> DEFINE u == host'[s]
                 w == hist'[s]
                 n == Len(hist[s]) + 1
                 copy == ragged'[s]
      <3>1. /\ w \in Seq(RowTokens) /\ n = Len(w) /\ Holding(u, w, Len(w)) /\ Len(u) <= MaxRows
        BY <1>5
      <3>2. u = RoundRows(s, token) /\ w = RoundTokens(s, token) /\ Len(hist[s]) < MaxRows
        BY <1>2, <1>3
      <3>3. copy = Appended(s, u)
        BY <1>1, <2>1, <3>2
      <3> HIDE DEF u, w, n, copy
      <3>4. CopyOf(copy, u) /\ Len(copy) = Len(w) /\ \A i \in 1..Len(copy) : copy[i] = SubSeq(w, 1, i)
        BY <3>2, <3>3, RaggedEntry
      <3>5. copy \in Rowed /\ Len(copy) \in Nat
        BY <3>4, LenProperties DEF CopyOf, Rowed
      <3>6. SlotIsSound(u, w, copy)
        BY <2>2, <3>1, <3>4, <3>5 DEF SlotIsSound
      <3>7. n <= Len(copy)
        BY <3>1, <3>4, <3>5
      <3>8. Reading(copy, n, w).got = Reading(copy, n, w).want
        BY <3>1, <3>4, <3>7, RoundReadsRight
      <3>9. copy = Appended(s, RoundRows(s, token))
        BY <3>2, <3>3
      <3> QED BY <3>2, <3>5, <3>6, <3>8, <3>9 DEF u, w, n, copy
    <2>4. \A s \in setup.slots \ active : ragged'[s] = ragged[s]
      BY <2>1
    <2>5. \A s \in setup.slots : ragged'[s] \in Rowed /\ SlotIsSound(host'[s], hist'[s], ragged'[s])
      <3> TAKE s \in setup.slots
      <3>1. CASE s \in active
        BY <2>3, <3>1
      <3>2. CASE s \notin active
        <4>1. ragged'[s] = ragged[s] /\ ragged[s] \in Rowed
          BY <1>1, <2>4, <3>2
        <4> QED BY <1>9, <4>1
      <3> QED BY <3>1, <3>2
    <2>6. ragged' \in [setup.slots -> Rowed]
      BY <2>1, <2>5
    <2>7. ReadsAreRight'
      BY <2>1, <2>3 DEF ReadsAreRight
    <2> QED BY <1>7, <1>10, <2>1, <2>5, <2>6, <2>7
  <1>12. CASE ShadowRound(token)
    <2> DEFINE n == Len(hist[bound]) + 1
               u == host'[bound]
               w == hist'[bound]
               copy == Synced(cutS, u, n)
    <2>1. /\ setup.cuda /\ setup.pipe /\ bound \in active /\ ragged' = ragged
          /\ shadow' = Synced(Upto(shadow, n - 1), RoundRows(bound, token), n)
          /\ read' = {Reading(IF s = bound THEN shadow' ELSE RoundRows(s, token),
                              Len(hist[s]) + 1, RoundTokens(s, token)) : s \in active}
      BY <1>12 DEF ShadowRound
    <2>2. u = RoundRows(bound, token) /\ w = RoundTokens(bound, token)
      BY <1>3, <2>1
    <2>3. /\ w \in Seq(RowTokens) /\ n = Len(w) /\ Holding(u, w, Len(w)) /\ u \in Rowed
          /\ n <= Len(u) /\ n - 1 = Len(hist[bound]) /\ n \in Nat
      BY <1>5, <2>1
    <2>4. shadow' = copy
      BY <2>1, <2>2, <2>3 DEF cutS
    <2> HIDE DEF u, w
    <2>5. CopyOf(cutS, u)
      BY <1>7 DEF CopiesAreSound, u
    <2> HIDE DEF n
    <2>6. CopyOf(copy, u) /\ n <= Len(copy)
      <3>1. copy = Synced(cutS, u, n)
        OBVIOUS
      <3> HIDE DEF copy
      <3> QED BY <2>3, <2>5, <3>1, RowsSynced
    <2> HIDE DEF copy
    <2>7. Reading(copy, n, w).got = Reading(copy, n, w).want
      BY <2>3, <2>6, RoundReadsRight
    <2>8. CopiesAreSound(host'[bound], shadow', cutM)
      BY <1>7, <2>1, <2>4, <2>6 DEF CopiesAreSound, u
    <2>9. ReadsAreRight'
      <3>1. ASSUME NEW s \in active
            PROVE  LET r == Reading(IF s = bound THEN shadow' ELSE RoundRows(s, token),
                                    Len(hist[s]) + 1, RoundTokens(s, token))
                   IN  r.got = r.want
        <4>1. CASE s = bound
          BY <2>2, <2>4, <2>7, <4>1 DEF n
        <4>2. CASE s # bound
          BY <1>8, <4>2
        <4> QED BY <4>1, <4>2
      <3> QED BY <2>1, <3>1 DEF ReadsAreRight
    <2>10. \A s \in setup.slots : SlotIsSound(host'[s], hist'[s], ragged'[s])
      BY <1>9, <2>1
    <2> QED BY <1>1, <1>10, <2>1, <2>8, <2>9, <2>10
  <1>13. CASE HostRound(token)
    <2>1. /\ shadow' = cutS
          /\ read' = {Reading(RoundRows(s, token), Len(hist[s]) + 1, RoundTokens(s, token)) : s \in active}
          /\ \/ ragged' = ragged
             \/ ragged' = [s \in setup.slots |-> IF s \in active /\ Len(hist[s]) + 1 < Len(ragged[s])
                                                 THEN <<>> ELSE ragged[s]]
      BY <1>13 DEF HostRound, cutS
    <2>2. \A s \in active : ~(Len(hist[s]) + 1 < Len(ragged[s]))
      <3> TAKE s \in active
      <3>1. ragged[s] \in Rowed /\ Len(ragged[s]) <= Len(hist[s]) /\ Len(hist[s]) \in Nat
        BY <1>1, OfOneSlot DEF SlotIsSound
      <3>2. Len(ragged[s]) \in Nat
        BY <3>1, LenProperties DEF Rowed
      <3> QED BY <3>1, <3>2
    <2>3. ragged' = ragged
      BY <1>1, <2>1, <2>2
    <2>4. ReadsAreRight'
      BY <1>8, <2>1 DEF ReadsAreRight
    <2>5. \A s \in setup.slots : SlotIsSound(host'[s], hist'[s], ragged'[s])
      BY <1>9, <2>3
    <2> QED BY <1>1, <1>7, <1>10, <2>1, <2>3, <2>4, <2>5
  <1> QED BY <1>2, <1>11, <1>12, <1>13

----------------------------------------------------------------------------
(* The engine's rows.                                                      *)

(* A process starts with no row anywhere. *)
LEMMA RowsStart ==
    ASSUME RowsInit
    PROVE  RowsInv
  <1>1. /\ setup \in Setups /\ bound \in setup.slots /\ active = {} /\ begun = 0 /\ read = {}
        /\ hist = [s \in setup.slots |-> <<>>] /\ host = [s \in setup.slots |-> <<>>]
        /\ ragged = [s \in setup.slots |-> <<>>] /\ shadow = <<>> /\ mirror = <<>>
    BY DEF RowsInit
  <1>2. <<>> \in Rowed /\ <<>> \in Seq(RowTokens) /\ Len(<<>>) = 0 /\ MaxRows \in Nat /\ MaxBegun \in Nat
    BY DeviceKvAssumption DEF Rowed
  <1>3. Holding(<<>>, <<>>, Len(<<>>)) /\ SlotIsSound(<<>>, <<>>, <<>>)
    BY <1>2 DEF Holding, SlotIsSound
  <1>4. CopiesAreSound(<<>>, <<>>, <<>>)
    BY <1>2 DEF CopiesAreSound, CopyOf
  <1>5. \A s \in setup.slots : host[s] = <<>> /\ hist[s] = <<>> /\ ragged[s] = <<>>
    BY <1>1
  <1>6. \A s \in setup.slots : SlotIsSound(host[s], hist[s], ragged[s])
    BY <1>3, <1>5
  <1>7. CopiesAreSound(host[bound], shadow, mirror)
    BY <1>1, <1>4, <1>5
  <1>8. /\ host \in [setup.slots -> Rowed] /\ hist \in [setup.slots -> Seq(RowTokens)]
        /\ ragged \in [setup.slots -> Rowed]
    BY <1>1, <1>2
  <1>9. begun \in 0..MaxBegun /\ ReadsAreRight /\ active \subseteq setup.slots
    BY <1>1, <1>2 DEF ReadsAreRight
  <1> QED BY <1>1, <1>6, <1>7, <1>8, <1>9 DEF RowsInv

(* Every step of the engine keeps the invariant of the rows. *)
LEMMA RowsStep ==
    ASSUME SoundSetups, RowsInv, [RowsNext]_rowsVars
    PROVE  RowsInv'
  <1>1. CASE \E s \in setup.slots, prompt \in RowPrompts : MuxSubmit(s, prompt)
    BY <1>1, MuxSubmitKeeps
  <1>2. CASE \E s \in setup.slots : MuxDone(s)
    BY <1>2, MuxDoneKeeps
  <1>3. CASE \E s \in active, batch \in Batches : \E keep \in 1..Len(batch) : VerifyDrafts(s, batch, keep)
    BY <1>3, VerifyDraftsKeeps
  <1>4. CASE \E token \in [active -> RowTokens] : DecodeRound(token)
    BY <1>4, DecodeRoundKeeps
  <1>5. CASE UNCHANGED rowsVars
    <2>1. /\ setup' = setup /\ bound' = bound /\ hist' = hist /\ host' = host /\ shadow' = shadow
          /\ mirror' = mirror /\ ragged' = ragged /\ active' = active /\ read' = read /\ begun' = begun
      BY <1>5 DEF rowsVars
    <2> QED BY <2>1 DEF RowsInv, SlotIsSound, CopiesAreSound, ReadsAreRight
  <1> QED BY <1>1, <1>2, <1>3, <1>4, <1>5 DEF RowsNext

(* The invariant bounds every copy by the rows of the host. *)
LEMMA RowsInvImplies ==
    ASSUME RowsInv
    PROVE  AttentionReadsHost
  <1>1. /\ setup \in Setups /\ bound \in setup.slots /\ active \subseteq setup.slots /\ begun \in 0..MaxBegun
        /\ host \in [setup.slots -> Rowed] /\ hist \in [setup.slots -> Seq(RowTokens)]
        /\ ragged \in [setup.slots -> Rowed] /\ ReadsAreRight
        /\ CopiesAreSound(host[bound], shadow, mirror)
    BY DEF RowsInv
  <1>2. \A s \in setup.slots : /\ Len(hist[s]) <= Len(host[s]) /\ Len(host[s]) <= MaxRows
                               /\ Len(ragged[s]) <= Len(host[s])
    <2> TAKE s \in setup.slots
    <2>1. /\ Len(hist[s]) \in Nat /\ Len(host[s]) \in Nat /\ Len(hist[s]) <= Len(host[s])
          /\ Len(host[s]) <= MaxRows
      BY OfOneSlot
    <2>2. ragged[s] \in Rowed /\ Len(ragged[s]) <= Len(hist[s])
      BY OfOneSlot DEF SlotIsSound
    <2>3. Len(ragged[s]) \in Nat
      BY <2>2, LenProperties DEF Rowed
    <2> QED BY <2>1, <2>2, <2>3
  <1>3. /\ shadow \in Rowed /\ mirror \in Rowed
        /\ Len(shadow) <= Len(host[bound]) /\ Len(mirror) <= Len(host[bound])
    BY <1>1 DEF CopiesAreSound, CopyOf
  <1>4. RowsTypeOK
    BY <1>1, <1>2, <1>3 DEF RowsTypeOK, Rowed
  <1> QED BY <1>1, <1>4 DEF AttentionReadsHost, ReadsAreRight

(* attention_rows: in a process whose copies are kept right, whichever copy *)
(* a step reads, it reads the rows of the conversation it continues.        *)
THEOREM CopiesAreTheRows ==
    ASSUME SoundSetups
    PROVE  RowsSpec => []AttentionReadsHost
  <1>1. RowsInit => RowsInv
    BY RowsStart
  <1>2. RowsInv /\ [RowsNext]_rowsVars => RowsInv'
    BY RowsStep
  <1>3. RowsInv => AttentionReadsHost
    BY RowsInvImplies
  <1> QED BY <1>1, <1>2, <1>3, PTL DEF RowsSpec
=============================================================================
