--------------------------- MODULE PilotRingProofs ---------------------------
(***************************************************************************)
(* The ring of prefetch hints, for any number of pilot threads, any ring   *)
(* and any width of its indices: hints are taken in the order they were    *)
(* published, each once, and none is torn.                                 *)
(* Below it, the io_uring batches that a thread makes of what it took, and *)
(* the main thread of its misses, for any slots, experts and sizes.        *)
(*                                                                         *)
(* The elements that were ever published are numbered from 0, so that an   *)
(* index is the number of an element, seen through the wrap.  The ring has *)
(* let go of the elements below b; the inductive invariant says that those *)
(* from b to the last one published are in it, that the producer writes    *)
(* beside them, and that a thread whose element is b has read it whole: a  *)
(* claim succeeds only for b, because the indices do not come round.       *)
(*                                                                         *)
(* The tags of a batch are those of the queue, in order, after those the   *)
(* kernel has taken; of these, some reads are in flight, some have a       *)
(* completion, and no tag is twice among them.  What a load waits for is   *)
(* exactly what is outstanding of it, and it is done when nothing is.  A   *)
(* cell that does not hold what its load asked for has a read under way or *)
(* a short completion, or the load has an error.                           *)
(***************************************************************************)
EXTENDS PilotRing, UringBatch, TLAPS, SequenceTheorems, FiniteSetTheorems

Firsts == {0, Wrap - Size}
Pos(first, k) == (first + k) % Wrap

Drainer == CHOOSE p \in Workers : TRUE

Typed ==
    /\ TypeOK
    /\ pushed \in Seq(1..MaxHints)
    /\ taken \in Seq(0..MaxHints)

\* Where the indices are.
Cursor(first, b) ==
    /\ ring.r = Pos(first, b) /\ ring.w = Pos(first, Len(pushed))
    /\ b <= Len(taken) /\ Len(taken) <= Len(pushed) /\ Len(pushed) <= b + Size
    /\ Len(pushed) < main.hint

\* What the ring holds, and what was taken from it.
Elements(b) ==
    /\ \A k \in b..(Len(pushed) - 1) :
         ring.q[k % Size].l = pushed[k + 1] /\ ring.q[k % Size].e = pushed[k + 1]
    /\ \A k \in 1..Len(taken) : taken[k] = pushed[k]

\* The element the producer is writing.
Producer(b) ==
    /\ main.at # "ready" => Len(pushed) < b + Size /\ main.hint <= MaxHints
    /\ main.at \in {"store_e", "store_w"} => ring.q[Len(pushed) % Size].l = main.hint
    /\ main.at = "store_w" => ring.q[Len(pushed) % Size].e = main.hint

\* The element a thread is about to claim is number k; it may be gone.
HasRead(first, b, self, k) ==
    /\ k <= b /\ self.r = Pos(first, k)
    /\ self.at \in {"load_l", "load_e", "cas"} => k < Len(pushed)
    /\ k = b /\ self.at \in {"load_e", "cas"} => self.l = pushed[k + 1]
    /\ k = b /\ self.at = "cas" => self.e = pushed[k + 1]

\* A thread that claims one element at a time.
Claims(first, b, self) ==
    /\ b = Len(taken)
    /\ self.at # "store_r"
    /\ self.at # "load_r" => \E k \in Nat : HasRead(first, b, self, k)

\* The only thread with io_uring: its batch goes from b to what was taken.
Drains(first, b, self) ==
    /\ self.at # "cas"
    /\ self.at \in {"load_r", "load_w"} => b = Len(taken)
    /\ self.at = "load_w" => self.n = 0
    /\ self.at # "load_r" => self.r = Pos(first, Len(taken))
    /\ self.at \in {"load_l", "load_e"} =>
         /\ self.n < BatchMax
         /\ \E k \in (Len(taken) + 1)..Len(pushed) : self.w = Pos(first, k)
    /\ self.at = "load_e" => self.l = pushed[Len(taken) + 1]

Pilots(first, b) ==
    /\ ~uring => \A p \in Workers : Claims(first, b, worker[p])
    /\ uring => Drains(first, b, worker[Drainer])

Shape(first, b) ==
    /\ Typed /\ Cursor(first, b) /\ Elements(b) /\ Producer(b)
    /\ Pilots(first, b)

Inv == \E first \in Firsts, b \in Nat : Shape(first, b)

----------------------------------------------------------------------------
(* The arithmetic of the indices.                                          *)
LEMMA Multiples ==
    ASSUME NEW s \in Nat \ {0}, NEW m \in Nat, NEW x \in Nat
    PROVE  (m * s + x) % s = x % s
  <1>1. x = (x \div s) * s + (x % s) /\ x % s \in 0..(s - 1) /\ x \div s \in Nat
    OBVIOUS
  <1>2. PICK q \in Nat, r \in 0..(s - 1) : x = q * s + r /\ r = x % s
    BY <1>1
  <1>3. m * s + x = (m + q) * s + r
    BY <1>2
  <1>4. ((m + q) * s + r) % s = r
    OBVIOUS
  <1> QED BY <1>2, <1>3, <1>4

LEMMA NearElements ==
    ASSUME NEW s \in Nat \ {0}, NEW j \in Nat, NEW k \in Nat, j < k, k < j + s
    PROVE  j % s # k % s
  <1>1. j = (j \div s) * s + (j % s) /\ k = (k \div s) * s + (k % s)
        /\ j \div s \in Nat /\ k \div s \in Nat /\ j % s \in Nat /\ k % s \in Nat
    OBVIOUS
  <1>2. PICK a \in Nat, c \in Nat, r \in Nat, t \in Nat :
          j = a * s + r /\ k = c * s + t /\ r = j % s /\ t = k % s
    BY <1>1
  <1>3. ASSUME r = t PROVE FALSE
    <2>1. (c - a) * s = k - j /\ c - a \in Int
      BY <1>2, <1>3, SMTT(20)
    <2>2. c - a >= 1
      BY <2>1
    <2>3. (c - a) * s >= s
      BY <2>2
    <2> QED BY <2>1, <2>3
  <1> QED BY <1>2, <1>3

LEMMA Constants ==
    /\ Workers # {} /\ Drainer \in Workers
    /\ Size \in Nat \ {0} /\ BatchMax \in Nat \ {0} /\ MaxHints \in Nat
    /\ Wrap \in Nat \ {0} /\ Wrap > MaxHints /\ Wrap > Size
    /\ \E m \in Nat \ {0} : Wrap = m * Size
  <1>1. /\ Workers # {} /\ Size \in Nat \ {0} /\ BatchMax \in Nat \ {0} /\ MaxHints \in Nat
        /\ Wrap \in Nat \ {0} /\ Wrap > MaxHints /\ Wrap > Size /\ Wrap % Size = 0
    BY PilotRingAssumption DEF PilotRingAssumption
  <1>2. Wrap = (Wrap \div Size) * Size /\ Wrap \div Size \in Nat \ {0}
    <2>1. Wrap = (Wrap \div Size) * Size + (Wrap % Size) /\ Wrap \div Size \in Nat
      BY <1>1
    <2> QED BY <1>1, <2>1
  <1>3. Drainer \in Workers
    BY <1>1 DEF Drainer
  <1> QED BY <1>1, <1>2, <1>3

LEMMA PosProperties ==
    ASSUME NEW first \in Firsts, NEW k \in 0..MaxHints
    PROVE  /\ Pos(first, k) \in Index
           /\ At(Pos(first, k)) = k % Size
           /\ Succ(Pos(first, k)) = Pos(first, k + 1)
           /\ Pos(first, k) = IF first + k < Wrap THEN first + k ELSE first + k - Wrap
  <1>1. /\ Size \in Nat \ {0} /\ MaxHints \in Nat /\ Wrap \in Nat \ {0}
        /\ Wrap > MaxHints /\ Wrap > Size /\ first \in 0..(Wrap - 1) /\ k \in 0..(Wrap - 1)
    BY Constants DEF Firsts
  <1>2. Pos(first, k) = IF first + k < Wrap THEN first + k ELSE first + k - Wrap
    BY <1>1 DEF Pos
  <1>3. Pos(first, k) \in Index
    BY <1>1, <1>2 DEF Index
  <1>4. Succ(Pos(first, k)) = Pos(first, k + 1)
    BY <1>1, <1>2 DEF Pos, Succ
  <1>5. At(Pos(first, k)) = k % Size
    <2>1. PICK m \in Nat \ {0} : Wrap = m * Size
      BY Constants
    <2>2. CASE first = 0
      BY <1>1, <1>2, <2>2 DEF At
    <2>3. CASE first = Wrap - Size /\ k < Size
      <3>1. PICK n \in Nat : n = m - 1
        OBVIOUS
      <3>2. Pos(first, k) = n * Size + k
        BY <1>1, <1>2, <2>1, <2>3, <3>1
      <3>3. Size \in Nat \ {0} /\ k \in Nat
        BY <1>1
      <3>4. (n * Size + k) % Size = k % Size
        BY <3>3, Multiples, Zenon
      <3> QED BY <3>2, <3>4 DEF At
    <2>4. CASE first = Wrap - Size /\ k >= Size
      <3>1. PICK x \in Nat : x = k - Size /\ Pos(first, k) = x
        BY <1>1, <1>2, <2>4
      <3>2. k = 1 * Size + x
        BY <1>1, <3>1
      <3>3. (1 * Size + x) % Size = x % Size
        BY <1>1, Multiples
      <3> QED BY <3>1, <3>2, <3>3 DEF At
    <2> QED BY <1>1, <2>2, <2>3, <2>4 DEF Firsts
  <1> QED BY <1>2, <1>3, <1>4, <1>5

LEMMA PosIsInjective ==
    ASSUME NEW first \in Firsts, NEW j \in 0..MaxHints, NEW k \in 0..MaxHints,
           Pos(first, j) = Pos(first, k)
    PROVE  j = k
  <1>1. MaxHints \in Nat /\ Wrap \in Nat \ {0} /\ Wrap > MaxHints /\ first \in 0..(Wrap - 1)
    BY Constants DEF Firsts
  <1>2. /\ Pos(first, j) = IF first + j < Wrap THEN first + j ELSE first + j - Wrap
        /\ Pos(first, k) = IF first + k < Wrap THEN first + k ELSE first + k - Wrap
    BY PosProperties
  <1>3. j \in 0..(Wrap - 1) /\ k \in 0..(Wrap - 1)
    BY <1>1
  <1>4. (IF first + j < Wrap THEN first + j ELSE first + j - Wrap)
          = (IF first + k < Wrap THEN first + k ELSE first + k - Wrap)
    BY <1>2
  <1> QED BY <1>1, <1>3, <1>4

LEMMA Distance ==
    ASSUME NEW first \in Firsts, NEW b \in 0..MaxHints, NEW w \in 0..MaxHints, b <= w
    PROVE  (Pos(first, w) + Wrap - Pos(first, b)) % Wrap = w - b
  <1>1. MaxHints \in Nat /\ Wrap \in Nat \ {0} /\ Wrap > MaxHints /\ first \in 0..(Wrap - 1)
    BY Constants DEF Firsts
  <1>2. /\ Pos(first, w) = IF first + w < Wrap THEN first + w ELSE first + w - Wrap
        /\ Pos(first, b) = IF first + b < Wrap THEN first + b ELSE first + b - Wrap
    BY PosProperties
  <1>3. \/ Pos(first, w) + Wrap - Pos(first, b) = Wrap + (w - b)
        \/ Pos(first, w) + Wrap - Pos(first, b) = w - b
    BY <1>1, <1>2
  <1> QED BY <1>1, <1>3

----------------------------------------------------------------------------
\* What the arithmetic of a step needs.
Bounds(b) ==
    /\ Size \in Nat /\ Size > 0 /\ MaxHints \in Nat /\ BatchMax \in Nat /\ BatchMax > 0
    /\ Len(pushed) \in Nat /\ Len(taken) \in Nat /\ b \in Nat /\ main.hint \in Nat
    /\ b <= Len(taken) /\ Len(taken) <= Len(pushed) /\ Len(pushed) <= b + Size
    /\ Len(pushed) < main.hint /\ main.hint <= MaxHints + 1

LEMMA Facts ==
    ASSUME NEW first \in Firsts, NEW b \in Nat, Shape(first, b)
    PROVE  Bounds(b)
  <1>1. Size \in Nat /\ Size > 0 /\ MaxHints \in Nat /\ BatchMax \in Nat /\ BatchMax > 0
    BY Constants
  <1>2. /\ Len(pushed) \in Nat /\ Len(taken) \in Nat
        /\ main.hint \in Nat /\ main.hint <= MaxHints + 1
    BY <1>1, LenProperties DEF Shape, Typed, TypeOK
  <1>3. /\ b <= Len(taken) /\ Len(taken) <= Len(pushed) /\ Len(pushed) < main.hint
        /\ Len(pushed) <= b + Size
    BY DEF Shape, Cursor
  <1> QED BY <1>1, <1>2, <1>3 DEF Bounds

\* Where the producer writes.
LEMMA WriteSlot ==
    ASSUME NEW first \in Firsts, NEW b \in Nat, Shape(first, b)
    PROVE  At(ring.w) \in 0..(Size - 1) /\ At(ring.w) = Len(pushed) % Size
  <1>1. Len(pushed) \in 0..MaxHints /\ Size \in Nat /\ Size > 0
    BY Facts DEF Bounds
  <1>2. At(ring.w) = Len(pushed) % Size
    BY <1>1, PosProperties DEF Shape, Cursor
  <1> QED BY <1>1, <1>2

LEMMA SlotOf ==
    ASSUME NEW k \in Nat
    PROVE  k % Size \in 0..(Size - 1)
  BY Constants

LEMMA InitInv == Init => Inv
  <1> SUFFICES ASSUME Init PROVE Inv
    OBVIOUS
  <1>1. PICK first \in Firsts :
          ring = [q |-> [i \in 0..(Size - 1) |-> [l |-> 0, e |-> 0]], r |-> first, w |-> first]
    BY DEF Init, Firsts
  <1>2. /\ Size \in Nat \ {0} /\ MaxHints \in Nat /\ BatchMax \in Nat \ {0}
        /\ Wrap \in Nat \ {0} /\ Wrap > Size /\ first \in Index
    BY Constants DEF Firsts, Index
  <1>3. /\ main = [at |-> "ready", hint |-> 1] /\ uring \in BOOLEAN
        /\ worker = [p \in Workers |->
                        [at |-> "load_r", r |-> 0, w |-> 0, l |-> 0, e |-> 0, n |-> 0]]
        /\ pushed = <<>> /\ taken = <<>> /\ Len(<<>>) = 0
    BY EmptySeq DEF Init
  <1>4. Typed
    <2>1. ring \in [q : [0..(Size - 1) -> [l : 0..MaxHints, e : 0..MaxHints]], r : Index, w : Index]
      BY <1>1, <1>2
    <2>2. main \in [at : {"ready", "store_l", "store_e", "store_w"}, hint : 1..(MaxHints + 1)]
      BY <1>2, <1>3
    <2>3. 0 \in Index /\ 0 \in 0..MaxHints /\ 0 \in 0..BatchMax
      BY <1>2 DEF Index
    <2>4. worker \in [Workers -> [at : {"load_r", "load_w", "load_l", "load_e", "cas", "store_r"},
                                  r : Index, w : Index,
                                  l : 0..MaxHints, e : 0..MaxHints, n : 0..BatchMax]]
      BY <1>3, <2>3
    <2> QED BY <1>3, <2>1, <2>2, <2>4, EmptySeq DEF Typed, TypeOK
  <1>5. Cursor(first, 0)
    <2>1. Pos(first, 0) = first
      BY <1>2, PosProperties DEF Index, Pos
    <2> QED BY <1>1, <1>2, <1>3, <2>1 DEF Cursor
  <1>6. Elements(0) /\ Producer(0)
    BY <1>3 DEF Elements, Producer
  <1>7. Pilots(first, 0)
    BY <1>3, Constants DEF Pilots, Claims, Drains
  <1> QED BY <1>4, <1>5, <1>6, <1>7 DEF Inv, Shape

----------------------------------------------------------------------------
(* The producer.                                                           *)
LEMMA OfferInv ==
    ASSUME NEW first \in Firsts, NEW b \in Nat, Shape(first, b), Offer
    PROVE  Shape(first, b)'
  <1>0. Bounds(b)
    BY Facts
  <1>1. /\ UNCHANGED <<ring, worker, uring, pushed, taken>>
        /\ main.at = "ready" /\ main.hint <= MaxHints
    BY DEF Offer
  <1>2. (ring.w + Wrap - ring.r) % Wrap = Len(pushed) - b
    BY <1>0, Distance DEF Shape, Cursor, Bounds
  <1>3. CASE Room
    <2>1. main' = [main EXCEPT !.at = "store_l"]
      BY <1>3 DEF Offer
    <2>2. Len(pushed) < b + Size
      BY <1>0, <1>2, <1>3 DEF Room, Bounds
    <2>3. main' \in [at : {"ready", "store_l", "store_e", "store_w"}, hint : 1..(MaxHints + 1)]
          /\ main'.at = "store_l" /\ main'.hint = main.hint
      BY <2>1 DEF Shape, Typed, TypeOK
    <2> QED BY <1>1, <2>2, <2>3
            DEF Shape, Typed, TypeOK, Cursor, Elements, Producer, Pilots, Claims, Drains, HasRead
  <1>4. CASE ~Room
    <2>1. main' = [main EXCEPT !.hint = @ + 1]
      BY <1>4 DEF Offer
    <2>2. main' \in [at : {"ready", "store_l", "store_e", "store_w"}, hint : 1..(MaxHints + 1)]
          /\ main'.at = "ready" /\ main'.hint = main.hint + 1
      <3>1. main.hint + 1 \in 1..(MaxHints + 1)
        BY <1>0, <1>1 DEF Bounds
      <3> QED BY <1>1, <2>1, <3>1 DEF Shape, Typed, TypeOK
    <2>3. Cursor(first, b)'
      BY <1>0, <1>1, <2>2 DEF Shape, Cursor, Bounds
    <2> QED BY <1>1, <2>2, <2>3
            DEF Shape, Typed, TypeOK, Elements, Producer, Pilots, Claims, Drains, HasRead
  <1> QED BY <1>3, <1>4

\* The element the producer writes is none of those the ring still holds.
LEMMA WritesBeside ==
    ASSUME NEW first \in Firsts, NEW b \in Nat, Shape(first, b), Len(pushed) < b + Size
    PROVE  \A k \in b..(Len(pushed) - 1) : k % Size # At(ring.w)
  <1>0. Bounds(b)
    BY Facts
  <1> SUFFICES ASSUME NEW k \in b..(Len(pushed) - 1)
               PROVE  k % Size # Len(pushed) % Size
    BY WriteSlot
  <1>1. /\ k \in Nat /\ Len(pushed) \in Nat /\ Size \in Nat \ {0}
        /\ k < Len(pushed) /\ Len(pushed) < k + Size
    BY <1>0 DEF Bounds
  <1> QED BY <1>1, NearElements

LEMMA StoreLayerInv ==
    ASSUME NEW first \in Firsts, NEW b \in Nat, Shape(first, b), StoreLayer
    PROVE  Shape(first, b)'
  <1>0. Bounds(b)
    BY Facts
  <1>1. /\ UNCHANGED <<worker, uring, pushed, taken>> /\ main.at = "store_l"
        /\ ring' = [ring EXCEPT !.q[At(ring.w)].l = main.hint]
        /\ main' = [main EXCEPT !.at = "store_e"]
    BY DEF StoreLayer
  <1>2. Len(pushed) < b + Size /\ main.hint \in 1..MaxHints
    BY <1>0, <1>1 DEF Shape, Producer, Bounds
  <1>3. main' \in [at : {"ready", "store_l", "store_e", "store_w"}, hint : 1..(MaxHints + 1)]
        /\ main'.at = "store_e" /\ main'.hint = main.hint
    BY <1>1 DEF Shape, Typed, TypeOK
  <1>4. At(ring.w) \in 0..(Size - 1) /\ At(ring.w) = Len(pushed) % Size
    BY WriteSlot
  <1>5. /\ ring' \in [q : [0..(Size - 1) -> [l : 0..MaxHints, e : 0..MaxHints]],
                     r : Index, w : Index]
        /\ ring'.r = ring.r /\ ring'.w = ring.w
        /\ ring'.q[At(ring.w)].l = main.hint
        /\ \A i \in 0..(Size - 1) : i # At(ring.w) => ring'.q[i] = ring.q[i]
    <2>1. PICK i \in 0..(Size - 1), hint \in 0..MaxHints : i = At(ring.w) /\ hint = main.hint
      BY <1>0, <1>2, <1>4 DEF Bounds
    <2>2. ring \in [q : [0..(Size - 1) -> [l : 0..MaxHints, e : 0..MaxHints]], r : Index, w : Index]
      BY DEF Shape, Typed, TypeOK
    <2>3. ring' = [ring EXCEPT !.q[i].l = hint]
      BY <1>1, <2>1
    <2> QED BY <1>2, <2>1, <2>2, <2>3
  <1>6. Elements(b)'
    <2>1. ASSUME NEW k \in b..(Len(pushed) - 1)
          PROVE  ring'.q[k % Size] = ring.q[k % Size]
      <3>1. k % Size \in 0..(Size - 1)
        BY <1>0, SlotOf DEF Bounds
      <3> QED BY <1>2, <1>5, <3>1, WritesBeside
    <2> QED BY <1>1, <2>1 DEF Shape, Elements
  <1>7. Producer(b)'
    BY <1>1, <1>2, <1>3, <1>4, <1>5 DEF Producer
  <1>8. Typed' /\ Cursor(first, b)'
    BY <1>1, <1>3, <1>5 DEF Shape, Typed, TypeOK, Cursor
  <1>9. Pilots(first, b)'
    BY <1>1 DEF Shape, Pilots, Claims, Drains, HasRead
  <1> QED BY <1>6, <1>7, <1>8, <1>9 DEF Shape

LEMMA StoreExpertInv ==
    ASSUME NEW first \in Firsts, NEW b \in Nat, Shape(first, b), StoreExpert
    PROVE  Shape(first, b)'
  <1>0. Bounds(b)
    BY Facts
  <1>1. /\ UNCHANGED <<worker, uring, pushed, taken>> /\ main.at = "store_e"
        /\ ring' = [ring EXCEPT !.q[At(ring.w)].e = main.hint]
        /\ main' = [main EXCEPT !.at = "store_w"]
    BY DEF StoreExpert
  <1>2. /\ Len(pushed) < b + Size /\ main.hint \in 1..MaxHints
        /\ ring.q[At(ring.w)].l = main.hint
    BY <1>0, <1>1, WriteSlot DEF Shape, Producer, Bounds
  <1>3. main' \in [at : {"ready", "store_l", "store_e", "store_w"}, hint : 1..(MaxHints + 1)]
        /\ main'.at = "store_w" /\ main'.hint = main.hint
    BY <1>1 DEF Shape, Typed, TypeOK
  <1>4. At(ring.w) \in 0..(Size - 1) /\ At(ring.w) = Len(pushed) % Size
    BY WriteSlot
  <1>5. /\ ring' \in [q : [0..(Size - 1) -> [l : 0..MaxHints, e : 0..MaxHints]],
                     r : Index, w : Index]
        /\ ring'.r = ring.r /\ ring'.w = ring.w
        /\ ring'.q[At(ring.w)].l = main.hint /\ ring'.q[At(ring.w)].e = main.hint
        /\ \A i \in 0..(Size - 1) : i # At(ring.w) => ring'.q[i] = ring.q[i]
    <2>1. PICK i \in 0..(Size - 1), hint \in 0..MaxHints : i = At(ring.w) /\ hint = main.hint
      BY <1>0, <1>2, <1>4 DEF Bounds
    <2>2. ring \in [q : [0..(Size - 1) -> [l : 0..MaxHints, e : 0..MaxHints]], r : Index, w : Index]
      BY DEF Shape, Typed, TypeOK
    <2>3. ring' = [ring EXCEPT !.q[i].e = hint]
      BY <1>1, <2>1
    <2> QED BY <1>2, <2>1, <2>2, <2>3
  <1>6. Elements(b)'
    <2>1. ASSUME NEW k \in b..(Len(pushed) - 1)
          PROVE  ring'.q[k % Size] = ring.q[k % Size]
      <3>1. k % Size \in 0..(Size - 1)
        BY <1>0, SlotOf DEF Bounds
      <3> QED BY <1>2, <1>5, <3>1, WritesBeside
    <2> QED BY <1>1, <2>1 DEF Shape, Elements
  <1>7. Producer(b)'
    BY <1>1, <1>2, <1>3, <1>4, <1>5 DEF Producer
  <1>8. Typed' /\ Cursor(first, b)'
    BY <1>1, <1>3, <1>5 DEF Shape, Typed, TypeOK, Cursor
  <1>9. Pilots(first, b)'
    BY <1>1 DEF Shape, Pilots, Claims, Drains, HasRead
  <1> QED BY <1>6, <1>7, <1>8, <1>9 DEF Shape

LEMMA StoreWInv ==
    ASSUME NEW first \in Firsts, NEW b \in Nat, Shape(first, b), StoreW
    PROVE  Shape(first, b)'
  <1>0. Bounds(b)
    BY Facts
  <1>1. /\ UNCHANGED <<worker, uring, taken>> /\ main.at = "store_w"
        /\ ring' = [ring EXCEPT !.w = Succ(@)]
        /\ main' = [at |-> "ready", hint |-> main.hint + 1]
        /\ pushed' = Append(pushed, main.hint)
    BY DEF StoreW
  <1>2. /\ Len(pushed) < b + Size /\ main.hint \in 1..MaxHints /\ Len(pushed) < main.hint
        /\ ring.q[Len(pushed) % Size].l = main.hint /\ ring.q[Len(pushed) % Size].e = main.hint
    BY <1>0, <1>1 DEF Shape, Producer, Cursor, Bounds
  <1>3. /\ pushed' \in Seq(1..MaxHints) /\ Len(pushed') = Len(pushed) + 1
        /\ pushed'[Len(pushed) + 1] = main.hint
        /\ \A k \in 1..Len(pushed) : pushed'[k] = pushed[k]
    BY <1>1, <1>2, AppendProperties DEF Shape, Typed
  <1>4. Len(pushed) + 1 \in 0..MaxHints /\ Len(pushed) \in 0..MaxHints
    BY <1>0, <1>2 DEF Bounds
  <1>5. ring'.r = ring.r /\ ring'.q = ring.q /\ ring'.w = Pos(first, Len(pushed) + 1)
        /\ ring' \in [q : [0..(Size - 1) -> [l : 0..MaxHints, e : 0..MaxHints]],
                     r : Index, w : Index]
    <2>1. Succ(ring.w) = Pos(first, Len(pushed) + 1) /\ Pos(first, Len(pushed) + 1) \in Index
      BY <1>4, PosProperties DEF Shape, Cursor
    <2> QED BY <1>1, <2>1 DEF Shape, Typed, TypeOK
  <1>6. main' \in [at : {"ready", "store_l", "store_e", "store_w"}, hint : 1..(MaxHints + 1)]
        /\ main'.at = "ready" /\ main'.hint = main.hint + 1
    BY <1>0, <1>1, <1>2 DEF Bounds
  <1>7. Typed' /\ Cursor(first, b)'
    <2>1. Typed'
      BY <1>1, <1>3, <1>5, <1>6 DEF Shape, Typed, TypeOK
    <2>2. Cursor(first, b)'
      <3>1. ring'.r = Pos(first, b) /\ ring'.w = Pos(first, Len(pushed'))
        BY <1>3, <1>5 DEF Shape, Cursor
      <3>2. /\ Len(taken) <= Len(pushed') /\ Len(pushed') <= b + Size
            /\ Len(pushed') < main'.hint /\ b <= Len(taken)
        BY <1>0, <1>2, <1>3, <1>6 DEF Bounds
      <3> QED BY <1>1, <3>1, <3>2 DEF Cursor
    <2> QED BY <2>1, <2>2
  <1>8. Elements(b)'
    <2>1. ASSUME NEW k \in b..(Len(pushed') - 1)
          PROVE  ring.q[k % Size].l = pushed'[k + 1] /\ ring.q[k % Size].e = pushed'[k + 1]
      <3>1. CASE k = Len(pushed)
        BY <1>2, <1>3, <3>1
      <3>2. CASE k # Len(pushed)
        <4>1. k \in b..(Len(pushed) - 1) /\ k + 1 \in 1..Len(pushed)
          BY <1>0, <1>3, <3>2 DEF Bounds
        <4> QED BY <1>3, <4>1 DEF Shape, Elements
      <3> QED BY <3>1, <3>2
    <2>2. ASSUME NEW k \in 1..Len(taken) PROVE taken[k] = pushed'[k]
      <3>1. k \in 1..Len(pushed)
        BY <1>0 DEF Bounds
      <3> QED BY <1>3, <3>1 DEF Shape, Elements
    <2> QED BY <1>1, <1>5, <2>1, <2>2 DEF Elements
  <1>9. Producer(b)'
    BY <1>6 DEF Producer
  <1>10. Pilots(first, b)'
    <2>1. ASSUME NEW self, Claims(first, b, self)
          PROVE  Claims(first, b, self)'
      <3>1. ASSUME NEW k \in Nat, HasRead(first, b, self, k)
            PROVE  HasRead(first, b, self, k)'
        <4>1. self.at \in {"load_l", "load_e", "cas"} => k + 1 \in 1..Len(pushed)
          BY <1>0, <3>1 DEF HasRead, Bounds
        <4>2. k < Len(pushed) => k < Len(pushed')
          BY <1>0, <1>3 DEF Bounds
        <4> QED BY <1>1, <1>3, <3>1, <4>1, <4>2 DEF HasRead
      <3> QED BY <1>1, <2>1, <3>1 DEF Claims
    <2>2. ASSUME NEW self, Drains(first, b, self)
          PROVE  Drains(first, b, self)'
      <3>1. \A k \in (Len(taken) + 1)..Len(pushed) : k \in (Len(taken) + 1)..Len(pushed')
        BY <1>0, <1>3 DEF Bounds
      <3>2. (\E k \in (Len(taken) + 1)..Len(pushed) : self.w = Pos(first, k))
              => Len(taken) + 1 \in 1..Len(pushed)
        BY <1>0 DEF Bounds
      <3> QED BY <1>1, <1>3, <2>2, <3>1, <3>2 DEF Drains
    <2>3. \A p \in Workers : worker'[p] = worker[p]
      BY <1>1
    <2>4. PICK last : last = worker[Drainer]
      OBVIOUS
    <2>5. uring => Drains(first, b, last)'
      BY <2>2, <2>4 DEF Shape, Pilots
    <2>6. ~uring => \A p \in Workers : Claims(first, b, worker[p])'
      <3>1. SUFFICES ASSUME ~uring, NEW p \in Workers PROVE Claims(first, b, worker[p])'
        OBVIOUS
      <3>2. PICK self : self = worker[p]
        OBVIOUS
      <3>3. Claims(first, b, self)'
        BY <2>1, <3>1, <3>2 DEF Shape, Pilots
      <3> QED BY <1>1, <3>2, <3>3
    <2> QED BY <1>1, <2>4, <2>5, <2>6 DEF Pilots
  <1> QED BY <1>7, <1>8, <1>9, <1>10 DEF Shape

----------------------------------------------------------------------------
(* The pilot threads.                                                      *)
Records == [at : {"load_r", "load_w", "load_l", "load_e", "cas", "store_r"},
            r : Index, w : Index, l : 0..MaxHints, e : 0..MaxHints, n : 0..BatchMax]

LEMMA StartedThreads ==
    ASSUME NEW p \in Started
    PROVE  p \in Workers /\ (uring => p = Drainer)
  BY Constants DEF Started, Drainer

\* A thread reads: what it may claim, or what it has drained, is still right.
LEMMA PilotReads ==
    ASSUME NEW first \in Firsts, NEW b \in Nat, Shape(first, b), NEW p \in Started,
           UNCHANGED <<ring, main, uring, pushed, taken>>,
           NEW self \in Records, worker' = [worker EXCEPT ![p] = self],
           ~uring => Claims(first, b, self),
           uring => Drains(first, b, self)
    PROVE  Shape(first, b)'
  <1>1. p \in Workers /\ (uring => p = Drainer)
    BY StartedThreads
  <1>2. worker \in [Workers -> Records]
    BY DEF Shape, Typed, TypeOK, Records
  <1>3. /\ worker' \in [Workers -> Records]
        /\ \A q \in Workers : worker'[q] = IF q = p THEN self ELSE worker[q]
    BY <1>1, <1>2
  <1>4. Typed' /\ Cursor(first, b)' /\ Elements(b)' /\ Producer(b)'
    BY <1>3 DEF Shape, Typed, TypeOK, Records, Cursor, Elements, Producer
  <1>5. Pilots(first, b)'
    <2>1. ASSUME ~uring, NEW q \in Workers PROVE Claims(first, b, worker[q])'
      <3>1. CASE q = p
        BY <1>3, <2>1, <3>1 DEF Claims, HasRead
      <3>2. CASE q # p
        BY <1>3, <2>1, <3>2 DEF Shape, Pilots, Claims, HasRead
      <3> QED BY <3>1, <3>2
    <2>2. ASSUME uring PROVE Drains(first, b, worker[Drainer])'
      BY <1>1, <1>3, <2>2 DEF Drains
    <2> QED BY <2>1, <2>2 DEF Pilots
  <1> QED BY <1>4, <1>5 DEF Shape

LEMMA LoadRInv ==
    ASSUME NEW first \in Firsts, NEW b \in Nat, Shape(first, b), NEW p \in Started, LoadR(p)
    PROVE  Shape(first, b)'
  <1>0. Bounds(b) /\ p \in Workers /\ (uring => p = Drainer)
    BY Facts, StartedThreads
  <1>1. worker[p] \in Records /\ ring.r \in Index /\ 0 \in 0..BatchMax
    BY <1>0 DEF Shape, Typed, TypeOK, Records, Bounds
  <1>2. PICK self \in Records :
          /\ self.at = "load_w" /\ self.r = ring.r /\ self.n = 0
          /\ worker' = [worker EXCEPT ![p] = self]
    <2>1. [[worker[p] EXCEPT !.r = ring.r, !.n = 0] EXCEPT !.at = "load_w"] \in Records
      BY <1>1 DEF Records
    <2> QED BY <1>1, <2>1 DEF LoadR, Goto, Records
  <1>3. UNCHANGED <<ring, main, uring, pushed, taken>> /\ worker[p].at = "load_r"
    BY DEF LoadR
  <1>4. ~uring => Claims(first, b, self)
    <2>1. ~uring => HasRead(first, b, self, b) /\ b = Len(taken)
      BY <1>0, <1>2, <1>3 DEF Shape, Cursor, Pilots, Claims, HasRead, Bounds
    <2> QED BY <1>2, <2>1 DEF Claims
  <1>5. uring => Drains(first, b, self)
    BY <1>0, <1>2, <1>3 DEF Shape, Cursor, Pilots, Drains
  <1> QED BY <1>2, <1>3, <1>4, <1>5, PilotReads

LEMMA LoadWInv ==
    ASSUME NEW first \in Firsts, NEW b \in Nat, Shape(first, b), NEW p \in Started, LoadW(p)
    PROVE  Shape(first, b)'
  <1>0. Bounds(b) /\ p \in Workers /\ (uring => p = Drainer)
    BY Facts, StartedThreads
  <1>1. worker[p] \in Records /\ ring.w \in Index
    BY <1>0 DEF Shape, Typed, TypeOK, Records
  <1>2. PICK self \in Records :
          /\ self.at = (IF worker[p].r = ring.w THEN "load_r" ELSE "load_l")
          /\ self.r = worker[p].r /\ self.w = ring.w /\ self.n = worker[p].n
          /\ worker' = [worker EXCEPT ![p] = self]
    <2>1. PICK at \in {"load_r", "load_l"} :
            at = IF worker[p].r = ring.w THEN "load_r" ELSE "load_l"
      OBVIOUS
    <2>2. [[worker[p] EXCEPT !.w = ring.w] EXCEPT !.at = at] \in Records
      BY <1>1 DEF Records
    <2> QED BY <1>1, <2>1, <2>2 DEF LoadW, Goto, Records
  <1>3. UNCHANGED <<ring, main, uring, pushed, taken>> /\ worker[p].at = "load_w"
    BY DEF LoadW
  <1>4. \A k \in Nat : k <= b /\ worker[p].r = Pos(first, k) /\ worker[p].r # ring.w
                         => k < Len(pushed)
    BY <1>0 DEF Shape, Cursor, Bounds
  <1>5. ~uring => Claims(first, b, self)
    <2>1. ~uring => b = Len(taken) /\ \E k \in Nat : HasRead(first, b, worker[p], k)
      BY <1>0, <1>3 DEF Shape, Pilots, Claims
    <2>2. ASSUME NEW k \in Nat, HasRead(first, b, worker[p], k), self.at # "load_r"
          PROVE  HasRead(first, b, self, k)
      BY <1>2, <1>3, <1>4, <2>2 DEF HasRead
    <2> QED BY <1>2, <2>1, <2>2 DEF Claims
  <1>6. uring => Drains(first, b, self)
    <2> SUFFICES ASSUME uring PROVE Drains(first, b, self)
      OBVIOUS
    <2>1. b = Len(taken) /\ worker[p].n = 0 /\ worker[p].r = Pos(first, Len(taken))
      BY <1>0, <1>3 DEF Shape, Pilots, Drains
    <2>2. self.at # "load_r" => Len(pushed) \in (Len(taken) + 1)..Len(pushed)
      BY <1>0, <1>2, <1>4, <2>1 DEF Bounds
    <2> QED BY <1>0, <1>2, <2>1, <2>2 DEF Drains, Shape, Cursor, Bounds
  <1> QED BY <1>2, <1>3, <1>5, <1>6, PilotReads

LEMMA LoadLInv ==
    ASSUME NEW first \in Firsts, NEW b \in Nat, Shape(first, b), NEW p \in Started, LoadL(p)
    PROVE  Shape(first, b)'
  <1>0. Bounds(b) /\ p \in Workers /\ (uring => p = Drainer)
    BY Facts, StartedThreads
  <1>1. /\ worker[p] \in Records /\ worker[p].at = "load_l"
        /\ UNCHANGED <<ring, main, uring, pushed, taken>>
    BY <1>0 DEF LoadL, Shape, Typed, TypeOK, Records
  <1>2. \A k \in b..(Len(pushed) - 1) : worker[p].r = Pos(first, k) =>
          /\ At(worker[p].r) \in 0..(Size - 1) /\ ring.q[At(worker[p].r)].l = pushed[k + 1]
    <2>1. SUFFICES ASSUME NEW k \in b..(Len(pushed) - 1), worker[p].r = Pos(first, k)
                   PROVE  /\ At(worker[p].r) \in 0..(Size - 1)
                          /\ ring.q[At(worker[p].r)].l = pushed[k + 1]
      OBVIOUS
    <2>2. At(worker[p].r) = k % Size /\ k % Size \in 0..(Size - 1)
      <3>1. k \in 0..MaxHints /\ k \in Nat
        BY <1>0 DEF Bounds
      <3>2. At(worker[p].r) = k % Size
        BY <2>1, <3>1, PosProperties
      <3> QED BY <3>1, <3>2, SlotOf
    <2> QED BY <2>2 DEF Shape, Elements
  <1>3. At(worker[p].r) \in 0..(Size - 1)
    <2>1. worker[p].r \in Nat
      BY <1>1, Constants DEF Records, Index
    <2> QED BY <2>1, SlotOf DEF At
  <1>4. PICK self \in Records :
          /\ self.at = "load_e"
          /\ self.r = worker[p].r /\ self.w = worker[p].w /\ self.n = worker[p].n
          /\ self.l = ring.q[At(worker[p].r)].l
          /\ worker' = [worker EXCEPT ![p] = self]
    <2>1. PICK l \in 0..MaxHints : l = ring.q[At(worker[p].r)].l
      BY <1>3 DEF Shape, Typed, TypeOK
    <2>2. [[worker[p] EXCEPT !.l = l] EXCEPT !.at = "load_e"] \in Records
      BY <1>1 DEF Records
    <2> QED BY <1>1, <2>1, <2>2 DEF LoadL, Goto, Records
  <1>5. ~uring => Claims(first, b, self)
    <2>1. ~uring => b = Len(taken) /\ \E k \in Nat : HasRead(first, b, worker[p], k)
      BY <1>0, <1>1 DEF Shape, Pilots, Claims
    <2>2. ASSUME NEW k \in Nat, HasRead(first, b, worker[p], k)
          PROVE  HasRead(first, b, self, k)
      <3>1. k = b => k \in b..(Len(pushed) - 1)
        BY <1>0, <1>1, <2>2 DEF HasRead, Bounds
      <3> QED BY <1>1, <1>2, <1>4, <2>2, <3>1 DEF HasRead
    <2> QED BY <1>4, <2>1, <2>2 DEF Claims
  <1>6. uring => Drains(first, b, self)
    <2> SUFFICES ASSUME uring PROVE Drains(first, b, self)
      OBVIOUS
    <2>1. Drains(first, b, worker[p])
      BY <1>0 DEF Shape, Pilots
    <2>2. Len(taken) \in b..(Len(pushed) - 1)
      BY <1>0, <1>1, <2>1 DEF Drains, Bounds
    <2> QED BY <1>1, <1>2, <1>4, <2>1, <2>2 DEF Drains
  <1> QED BY <1>1, <1>4, <1>5, <1>6, PilotReads

LEMMA LoadEInv ==
    ASSUME NEW first \in Firsts, NEW b \in Nat, Shape(first, b), NEW p \in Started, LoadE(p)
    PROVE  Shape(first, b)'
  <1>0. Bounds(b) /\ p \in Workers
    BY Facts, StartedThreads
  <1>1. /\ worker[p] \in Records /\ worker[p].at = "load_e" /\ ~uring
        /\ UNCHANGED <<ring, main, uring, pushed, taken>>
    BY <1>0 DEF LoadE, Shape, Typed, TypeOK, Records
  <1>2. At(worker[p].r) \in 0..(Size - 1)
    <2>1. worker[p].r \in Nat
      BY <1>1, Constants DEF Records, Index
    <2> QED BY <2>1, SlotOf DEF At
  <1>3. PICK self \in Records :
          /\ self.at = "cas" /\ self.r = worker[p].r /\ self.l = worker[p].l
          /\ self.e = ring.q[At(worker[p].r)].e
          /\ worker' = [worker EXCEPT ![p] = self]
    <2>1. PICK e \in 0..MaxHints : e = ring.q[At(worker[p].r)].e
      BY <1>2 DEF Shape, Typed, TypeOK
    <2>2. [[worker[p] EXCEPT !.e = e] EXCEPT !.at = "cas"] \in Records
      BY <1>1 DEF Records
    <2> QED BY <1>1, <2>1, <2>2 DEF LoadE, Goto, Records
  <1>4. Claims(first, b, self)
    <2>1. b = Len(taken) /\ \E k \in Nat : HasRead(first, b, worker[p], k)
      BY <1>0, <1>1 DEF Shape, Pilots, Claims
    <2>2. ASSUME NEW k \in Nat, HasRead(first, b, worker[p], k)
          PROVE  HasRead(first, b, self, k)
      <3>1. ASSUME k = b PROVE self.e = pushed[k + 1]
        <4>1. k \in b..(Len(pushed) - 1) /\ k \in 0..MaxHints
          BY <1>0, <1>1, <2>2, <3>1 DEF HasRead, Bounds
        <4>2. At(worker[p].r) = k % Size
          BY <2>2, <4>1, PosProperties DEF HasRead
        <4> QED BY <1>3, <4>1, <4>2 DEF Shape, Elements
      <3> QED BY <1>1, <1>3, <2>2, <3>1 DEF HasRead
    <2> QED BY <1>3, <2>1, <2>2 DEF Claims
  <1> QED BY <1>1, <1>3, <1>4, PilotReads

\* The exchange fails, whether or not another thread was first.
LEMMA ClaimFailsInv ==
    ASSUME NEW first \in Firsts, NEW b \in Nat, Shape(first, b), NEW p \in Started, ClaimFails(p)
    PROVE  Shape(first, b)'
  <1>0. p \in Workers /\ (uring => p = Drainer)
    BY StartedThreads
  <1>1. /\ worker[p] \in Records /\ worker[p].at = "cas"
        /\ UNCHANGED <<ring, main, uring, pushed, taken>>
    BY <1>0 DEF ClaimFails, Shape, Typed, TypeOK, Records
  <1>2. ~uring
    BY <1>0, <1>1 DEF Shape, Pilots, Drains, Typed, TypeOK
  <1>3. PICK self \in Records : self.at = "load_r" /\ worker' = [worker EXCEPT ![p] = self]
    BY <1>1 DEF ClaimFails, Goto, Records
  <1>4. Claims(first, b, self)
    BY <1>0, <1>2, <1>3 DEF Shape, Pilots, Claims
  <1> QED BY <1>1, <1>2, <1>3, <1>4, PilotReads

\* What a thread takes is the next hint, whole.
LEMMA NextHint ==
    ASSUME NEW first \in Firsts, NEW b \in Nat, Shape(first, b), Len(taken) < Len(pushed),
           NEW l, NEW e, l = pushed[Len(taken) + 1], e = pushed[Len(taken) + 1], Take(l, e)
    PROVE  /\ taken' \in Seq(0..MaxHints) /\ Len(taken') = Len(taken) + 1
           /\ \A k \in 1..(Len(taken) + 1) : taken'[k] = pushed[k]
  <1>0. Bounds(b)
    BY Facts
  <1>1. Len(taken) + 1 \in 1..Len(pushed)
    BY <1>0 DEF Bounds
  <1>2. pushed[Len(taken) + 1] \in 1..MaxHints
    BY <1>1, ElementOfSeq DEF Shape, Typed
  <1>3. PICK h \in 0..MaxHints : h = pushed[Len(taken) + 1] /\ taken' = Append(taken, h)
    BY <1>0, <1>2 DEF Take, Bounds
  <1>4. /\ taken' \in Seq(0..MaxHints) /\ Len(taken') = Len(taken) + 1
        /\ taken'[Len(taken) + 1] = h
        /\ \A k \in 1..Len(taken) : taken'[k] = taken[k]
    BY <1>3, AppendProperties DEF Shape, Typed
  <1>5. ASSUME NEW k \in 1..(Len(taken) + 1) PROVE taken'[k] = pushed[k]
    <2>1. CASE k = Len(taken) + 1
      BY <1>3, <1>4, <2>1
    <2>2. CASE k # Len(taken) + 1
      <3>1. k \in 1..Len(taken)
        BY <1>0, <2>2 DEF Bounds
      <3> QED BY <1>4, <3>1 DEF Shape, Elements
    <2> QED BY <2>1, <2>2
  <1> QED BY <1>4, <1>5

(* The exchange succeeds: the index is that of element b, so that what the *)
(* thread has read is that element.                                        *)
LEMMA ClaimInv ==
    ASSUME NEW first \in Firsts, NEW b \in Nat, Shape(first, b), NEW p \in Started, Claim(p)
    PROVE  Shape(first, b + 1)'
  <1>0. Bounds(b) /\ p \in Workers /\ (uring => p = Drainer) /\ b \in 0..MaxHints
    BY Facts, StartedThreads DEF Bounds
  <1>1. /\ worker[p] \in Records /\ worker[p].at = "cas" /\ ring.r = worker[p].r
        /\ ring' = [ring EXCEPT !.r = Succ(@)]
        /\ Take(worker[p].l, worker[p].e) /\ UNCHANGED <<main, uring, pushed>>
    BY <1>0 DEF Claim, Shape, Typed, TypeOK, Records
  <1>2. ~uring
    BY <1>0, <1>1 DEF Shape, Pilots, Drains, Typed, TypeOK
  <1>3. PICK k \in Nat : HasRead(first, b, worker[p], k)
    BY <1>0, <1>1, <1>2 DEF Shape, Pilots, Claims
  <1>4. b = Len(taken) /\ \A q \in Workers : Claims(first, b, worker[q])
    BY <1>0, <1>2 DEF Shape, Pilots, Claims
  <1>5. k = b
    <2>1. k \in 0..MaxHints /\ Pos(first, k) = Pos(first, b)
      BY <1>0, <1>1, <1>3 DEF Shape, Cursor, HasRead, Bounds
    <2> QED BY <1>0, <2>1, PosIsInjective
  <1>6. /\ b < Len(pushed)
        /\ worker[p].l = pushed[Len(taken) + 1] /\ worker[p].e = pushed[Len(taken) + 1]
    BY <1>1, <1>3, <1>4, <1>5 DEF HasRead
  <1>7. /\ taken' \in Seq(0..MaxHints) /\ Len(taken') = b + 1
        /\ \A i \in 1..(b + 1) : taken'[i] = pushed[i]
    BY <1>1, <1>4, <1>6, NextHint
  <1>8. /\ ring'.r = Pos(first, b + 1) /\ ring'.w = ring.w /\ ring'.q = ring.q
        /\ ring' \in [q : [0..(Size - 1) -> [l : 0..MaxHints, e : 0..MaxHints]],
                     r : Index, w : Index]
    <2>1. Succ(ring.r) = Pos(first, b + 1)
      BY <1>0, PosProperties DEF Shape, Cursor
    <2>2. Pos(first, b + 1) \in Index
      <3>1. b + 1 \in 0..MaxHints
        BY <1>0, <1>6 DEF Bounds
      <3> QED BY <3>1, PosProperties
    <2> QED BY <1>1, <2>1, <2>2 DEF Shape, Typed, TypeOK
  <1>9. /\ worker' \in [Workers -> Records] /\ worker'[p].at = "load_r"
        /\ \A q \in Workers : q # p => worker'[q] = worker[q]
    BY <1>0, <1>1 DEF Claim, Goto, Shape, Typed, TypeOK, Records
  <1>10. Typed'
    BY <1>1, <1>7, <1>8, <1>9 DEF Shape, Typed, TypeOK, Records
  <1>11. Cursor(first, b + 1)'
    <2>1. ring'.r = Pos(first, b + 1) /\ ring'.w = Pos(first, Len(pushed))
      BY <1>8 DEF Shape, Cursor
    <2>2. /\ b + 1 <= Len(taken') /\ Len(taken') <= Len(pushed)
          /\ Len(pushed) <= b + 1 + Size /\ Len(pushed) < main.hint
      BY <1>0, <1>6, <1>7 DEF Bounds
    <2> QED BY <1>1, <2>1, <2>2 DEF Cursor
  <1>12. Elements(b + 1)'
    <2>1. \A i \in (b + 1)..(Len(pushed) - 1) : i \in b..(Len(pushed) - 1)
      BY <1>0 DEF Bounds
    <2> QED BY <1>1, <1>7, <1>8, <2>1 DEF Shape, Elements
  <1>13. Producer(b + 1)'
    BY <1>0, <1>1, <1>8 DEF Shape, Producer, Bounds
  <1>14. Pilots(first, b + 1)'
    <2>1. ASSUME NEW q \in Workers PROVE Claims(first, b + 1, worker[q])'
      <3>1. CASE q = p
        BY <1>7, <1>9, <3>1 DEF Claims
      <3>2. CASE q # p
        <4>1. PICK self : self = worker[q] /\ self = worker'[q]
          BY <1>9, <3>2
        <4>2. Claims(first, b, self)
          BY <1>4, <4>1
        <4>3. ASSUME NEW i \in Nat, HasRead(first, b, self, i) PROVE HasRead(first, b + 1, self, i)'
          BY <1>0, <1>1, <4>3 DEF HasRead
        <4>4. Claims(first, b + 1, self)'
          BY <1>7, <4>2, <4>3 DEF Claims
        <4> QED BY <4>1, <4>4
      <3> QED BY <3>1, <3>2
    <2> QED BY <1>1, <1>2, <2>1 DEF Pilots
  <1> QED BY <1>10, <1>11, <1>12, <1>13, <1>14 DEF Shape

\* An element of a batch is taken while the ring still holds it.
LEMMA DrainOneInv ==
    ASSUME NEW first \in Firsts, NEW b \in Nat, Shape(first, b), NEW p \in Started, DrainOne(p)
    PROVE  Shape(first, b)'
  <1>0. Bounds(b) /\ p \in Workers /\ p = Drainer
    BY Facts, StartedThreads DEF DrainOne
  <1>1. /\ worker[p] \in Records /\ worker[p].at = "load_e" /\ uring
        /\ UNCHANGED <<ring, main, uring, pushed>>
        /\ Take(worker[p].l, ring.q[At(worker[p].r)].e)
    BY <1>0 DEF DrainOne, Shape, Typed, TypeOK, Records
  <1>2. /\ Drains(first, b, worker[p])
        /\ worker[p].r = Pos(first, Len(taken))
        /\ worker[p].n < BatchMax /\ worker[p].l = pushed[Len(taken) + 1]
    BY <1>0, <1>1 DEF Shape, Pilots, Drains
  <1>3. PICK k \in (Len(taken) + 1)..Len(pushed) : worker[p].w = Pos(first, k)
    BY <1>1, <1>2 DEF Drains
  <1>4. /\ Len(taken) \in b..(Len(pushed) - 1) /\ Len(taken) \in 0..MaxHints
        /\ Len(taken) + 1 \in 0..MaxHints /\ k \in 0..MaxHints /\ Len(taken) < Len(pushed)
    BY <1>0 DEF Bounds
  <1>5. ring.q[At(worker[p].r)].e = pushed[Len(taken) + 1]
    <2>1. At(worker[p].r) = Len(taken) % Size
      BY <1>2, <1>4, PosProperties
    <2> QED BY <1>4, <2>1 DEF Shape, Elements
  <1>6. /\ taken' \in Seq(0..MaxHints) /\ Len(taken') = Len(taken) + 1
        /\ \A i \in 1..(Len(taken) + 1) : taken'[i] = pushed[i]
    BY <1>1, <1>2, <1>4, <1>5, NextHint
  <1>7. Succ(worker[p].r) = Pos(first, Len(taken) + 1) /\ Pos(first, Len(taken) + 1) \in Index
    BY <1>2, <1>4, PosProperties
  <1>8. worker[p].n + 1 \in 0..BatchMax /\ worker[p].n \in Nat
    <2>1. PICK n \in 0..BatchMax : n = worker[p].n /\ n < BatchMax
      BY <1>1, <1>2, SMTT(60) DEF Records
    <2>2. BatchMax \in Nat
      BY Constants
    <2>3. n < BatchMax
      BY <2>1
    <2>4. n + 1 \in 0..BatchMax /\ n \in Nat
      BY <2>2, <2>3
    <2> QED BY <2>1, <2>4
  <1>9. PICK self \in Records :
          /\ self.at = (IF Succ(worker[p].r) # worker[p].w /\ self.n < BatchMax
                        THEN "load_l" ELSE "store_r")
          /\ self.r = Pos(first, Len(taken) + 1) /\ self.w = worker[p].w
          /\ worker' = [worker EXCEPT ![p] = self]
    <2>1. PICK r \in Index : r = Succ(worker[p].r) /\ r = Pos(first, Len(taken) + 1)
      BY <1>7
    <2>2. PICK n \in {worker[p].n, worker[p].n + 1} :
            Goto(p, IF r # worker[p].w /\ n < BatchMax THEN "load_l" ELSE "store_r",
                 [worker[p] EXCEPT !.r = r, !.n = n])
      BY <2>1 DEF DrainOne
    <2>3. PICK at \in {"load_l", "store_r"} : at = IF r # worker[p].w /\ n < BatchMax THEN "load_l" ELSE "store_r"
      OBVIOUS
    <2>4. n \in 0..BatchMax
      BY <1>1, <1>8, <2>2 DEF Records
    <2>5. [[worker[p] EXCEPT !.r = r, !.n = n] EXCEPT !.at = at] \in Records
      BY <1>1, <2>4 DEF Records
    <2>6. worker' = [worker EXCEPT ![p] = [[worker[p] EXCEPT !.r = r, !.n = n] EXCEPT !.at = at]]
      BY <2>2, <2>3 DEF Goto
    <2> QED BY <1>1, <2>1, <2>3, <2>5, <2>6 DEF Records
  <1>10. Typed'
    BY <1>0, <1>1, <1>6, <1>9 DEF Shape, Typed, TypeOK, Records
  <1>11. Cursor(first, b)'
    <2>1. b <= Len(taken') /\ Len(taken') <= Len(pushed)
      BY <1>0, <1>4, <1>6 DEF Bounds
    <2> QED BY <1>1, <2>1 DEF Shape, Cursor
  <1>12. Elements(b)' /\ Producer(b)'
    BY <1>1, <1>6 DEF Shape, Elements, Producer
  <1>13. Drains(first, b, self)'
    <2>1. /\ self.at \in {"load_l", "store_r"}
          /\ self.r = Pos(first, Len(taken'))
      BY <1>6, <1>9
    <2>2. ASSUME self.at = "load_l"
          PROVE  self.n < BatchMax /\ k \in (Len(taken') + 1)..Len(pushed) /\ self.w = Pos(first, k)
      <3>1. Pos(first, Len(taken) + 1) # Pos(first, k) /\ self.n < BatchMax
        BY <1>3, <1>7, <1>9, <2>2
      <3>2. k # Len(taken) + 1
        BY <3>1
      <3> QED BY <1>0, <1>3, <1>6, <1>9, <3>1, <3>2 DEF Bounds
    <2> QED BY <1>1, <2>1, <2>2 DEF Drains
  <1>14. Pilots(first, b)'
    <2>1. worker'[Drainer] = self
      BY <1>0, <1>9 DEF Shape, Typed, TypeOK
    <2> QED BY <1>1, <1>13, <2>1 DEF Pilots
  <1> QED BY <1>10, <1>11, <1>12, <1>14 DEF Shape

\* The end of a batch: the ring lets go of all of it.
LEMMA StoreRInv ==
    ASSUME NEW first \in Firsts, NEW b \in Nat, Shape(first, b), NEW p \in Started, StoreR(p)
    PROVE  Shape(first, Len(taken))'
  <1>0. Bounds(b) /\ p \in Workers /\ (uring => p = Drainer)
    BY Facts, StartedThreads
  <1>1. /\ worker[p] \in Records /\ worker[p].at = "store_r"
        /\ UNCHANGED <<main, uring, pushed, taken>>
        /\ ring' = [ring EXCEPT !.r = worker[p].r]
    BY <1>0 DEF StoreR, Shape, Typed, TypeOK, Records
  <1>2. uring
    BY <1>0, <1>1 DEF Shape, Pilots, Claims, Typed, TypeOK
  <1>3. p = Drainer /\ worker[p].r = Pos(first, Len(taken))
    BY <1>0, <1>1, <1>2 DEF Shape, Pilots, Drains
  <1>4. /\ ring'.r = Pos(first, Len(taken)) /\ ring'.w = ring.w /\ ring'.q = ring.q
        /\ ring' \in [q : [0..(Size - 1) -> [l : 0..MaxHints, e : 0..MaxHints]],
                     r : Index, w : Index]
    BY <1>1, <1>3 DEF Shape, Typed, TypeOK, Records
  <1>5. PICK self \in Records : self.at = "load_r" /\ worker' = [worker EXCEPT ![p] = self]
    BY <1>1 DEF StoreR, Goto, Records
  <1>6. Typed'
    BY <1>0, <1>1, <1>4, <1>5 DEF Shape, Typed, TypeOK, Records
  <1>7. Cursor(first, Len(taken))'
    <2>1. /\ Len(taken) <= Len(taken) /\ Len(taken) <= Len(pushed)
          /\ Len(pushed) <= Len(taken) + Size /\ Len(pushed) < main.hint
      BY <1>0 DEF Bounds
    <2> QED BY <1>1, <1>4, <2>1 DEF Shape, Cursor
  <1>8. Elements(Len(taken))'
    <2>1. \A k \in Len(taken)..(Len(pushed) - 1) : k \in b..(Len(pushed) - 1)
      BY <1>0 DEF Bounds
    <2> QED BY <1>1, <1>4, <2>1 DEF Shape, Elements
  <1>9. Producer(Len(taken))'
    <2>1. Len(pushed) < b + Size => Len(pushed) < Len(taken) + Size
      BY <1>0 DEF Bounds
    <2> QED BY <1>1, <1>4, <2>1 DEF Shape, Producer
  <1>10. Pilots(first, Len(taken))'
    <2>1. worker'[Drainer] = self
      BY <1>0, <1>3, <1>5 DEF Shape, Typed, TypeOK
    <2> QED BY <1>1, <1>2, <1>5, <2>1 DEF Pilots, Drains
  <1> QED BY <1>6, <1>7, <1>8, <1>9, <1>10 DEF Shape

----------------------------------------------------------------------------
LEMMA NextInv ==
    ASSUME Inv, [Next]_vars
    PROVE  Inv'
  <1>1. PICK first \in Firsts, b \in Nat : Shape(first, b)
    BY DEF Inv
  <1>2. Len(taken) \in Nat
    BY <1>1, Facts DEF Bounds
  <1>3. Shape(first, b)' \/ Shape(first, b + 1)' \/ Shape(first, Len(taken))'
    <2>1. CASE Offer
      BY <1>1, <2>1, OfferInv
    <2>2. CASE StoreLayer
      BY <1>1, <2>2, StoreLayerInv
    <2>3. CASE StoreExpert
      BY <1>1, <2>3, StoreExpertInv
    <2>4. CASE StoreW
      BY <1>1, <2>4, StoreWInv
    <2>5. ASSUME NEW p \in Started, Pilot(p)
          PROVE  Shape(first, b)' \/ Shape(first, b + 1)' \/ Shape(first, Len(taken))'
      <3>1. CASE LoadR(p)
        BY <1>1, <3>1, LoadRInv
      <3>2. CASE LoadW(p)
        BY <1>1, <3>2, LoadWInv
      <3>3. CASE LoadL(p)
        BY <1>1, <3>3, LoadLInv
      <3>4. CASE LoadE(p)
        BY <1>1, <3>4, LoadEInv
      <3>5. CASE Claim(p)
        BY <1>1, <3>5, ClaimInv
      <3>6. CASE ClaimFails(p)
        BY <1>1, <3>6, ClaimFailsInv
      <3>7. CASE DrainOne(p)
        BY <1>1, <3>7, DrainOneInv
      <3>8. CASE StoreR(p)
        BY <1>1, <3>8, StoreRInv
      <3> QED BY <2>5, <3>1, <3>2, <3>3, <3>4, <3>5, <3>6, <3>7, <3>8 DEF Pilot
    <2>6. CASE UNCHANGED vars
      <3>1. UNCHANGED <<ring, main, worker, uring, pushed, taken>>
        BY <2>6 DEF vars
      <3> QED BY <1>1, <3>1
              DEF Shape, Typed, TypeOK, Cursor, Elements, Producer, Pilots, Claims, Drains, HasRead
    <2> QED BY <2>1, <2>2, <2>3, <2>4, <2>5, <2>6 DEF Next, Main
  <1> QED BY <1>2, <1>3 DEF Inv

LEMMA Invariance == Spec => []Inv
  <1>1. Inv /\ [Next]_vars => Inv'
    BY NextInv
  <1> QED BY InitInv, <1>1, PTL DEF Spec

\* Indices stay unsigned, elements stay in the ring.
THEOREM TypeCorrect == Spec => []TypeOK
  <1>1. Inv => TypeOK
    BY DEF Inv, Shape, Typed
  <1> QED BY Invariance, <1>1, PTL

(* Hints are taken once each and in order, none is torn, and pilot_w stays *)
(* within the ring's length of pilot_r (pilot_ring_claim, pilot_worker).   *)
THEOREM HintsAreInOrder == Spec => []HintsAreTakenInOrder
  <1>1. ASSUME Inv PROVE RingIsNotOverrun
    <2>1. PICK first \in Firsts, b \in Nat : Shape(first, b)
      BY <1>1 DEF Inv
    <2>2. Bounds(b)
      BY <2>1, Facts
    <2>3. (ring.w + Wrap - ring.r) % Wrap = Len(pushed) - b
      <3>1. b \in 0..MaxHints /\ Len(pushed) \in 0..MaxHints /\ b <= Len(pushed)
        BY <2>2 DEF Bounds
      <3> QED BY <2>1, <3>1, Distance DEF Shape, Cursor
    <2>4. ~uring => b = Len(taken)
      BY <2>1, Constants DEF Shape, Pilots, Claims
    <2> QED BY <2>2, <2>3, <2>4 DEF Bounds, RingIsNotOverrun
  <1>2. ASSUME Inv PROVE IsPrefix(taken, pushed)
    <2>1. PICK first \in Firsts, b \in Nat : Shape(first, b)
      BY <1>2 DEF Inv
    <2>2. Bounds(b) /\ taken \in Seq(0..MaxHints) /\ pushed \in Seq(1..MaxHints)
      BY <2>1, Facts DEF Shape, Typed
    <2>3. SubSeq(taken, 1, Len(taken)) = taken
      BY <2>2, SubSeqFull
    <2>4. /\ SubSeq(pushed, 1, Len(taken)) \in Seq(0..MaxHints)
          /\ Len(SubSeq(pushed, 1, Len(taken))) = Len(taken)
          /\ \A k \in 1..Len(taken) : SubSeq(pushed, 1, Len(taken))[k] = pushed[k]
      <3>1. ASSUME NEW k \in 1..Len(taken) PROVE pushed[k] \in 0..MaxHints
        <4>1. k \in 1..Len(pushed)
          BY <2>2 DEF Bounds
        <4>2. pushed[k] \in 1..MaxHints
          BY <2>2, <4>1, ElementOfSeq
        <4> QED BY <4>2
      <3> QED BY <2>2, <3>1, SubSeqProperties, SMTT(20) DEF Bounds
    <2>5. SubSeq(pushed, 1, Len(taken)) = taken
      BY <2>1, <2>2, <2>4, SeqEqual DEF Shape, Elements
    <2> QED BY <2>2, <2>3, <2>5 DEF IsPrefix, Bounds
  <1>3. Inv => HintsAreTakenInOrder
    BY <1>1, <1>2 DEF HintsAreTakenInOrder
  <1> QED BY Invariance, <1>3, PTL

----------------------------------------------------------------------------
(* The io_uring batches.                                                   *)

LoadEntry == [s : Slabs, e : Names, pending : Nat, done : BOOLEAN, error : BOOLEAN, finalized : BOOLEAN]
Completion == [tag : 1..ReqMax, full : BOOLEAN]
Label == [is : {"hidden", "reserved", "public"}, e : Names \cup {Nothing}]
SlotType == [eid : Label, cell : [1..Reads -> Names \cup {Nothing}]]

BatchTyped ==
    /\ batch \in [at : {"idle", "add", "final"}, load : Seq(LoadEntry), req : Seq(Nat),
                  final : Nat \ {0}, n : 0..MaxBatches]
    /\ Len(batch.load) <= LoadMax /\ Len(batch.req) <= ReqMax
    /\ \A t \in 1..Len(batch.req) : batch.req[t] \in 1..Len(batch.load)

UringTyped ==
    /\ fatal \in BOOLEAN /\ broken \in BOOLEAN /\ exited \in BOOLEAN
    /\ BatchTyped
    /\ sq \in Seq(ReadOf) /\ Len(sq) <= ReqMax
    /\ flight \in SUBSET ReadOf /\ cq \in Seq(Completion)
    /\ slot \in [Slabs -> SlotType]

\* The reads of the batch that the kernel has taken; the queue has the others.
Taken == Len(batch.req) - Len(sq)
Open == ToSet(sq) \cup flight

TagsAreRight ==
    /\ Len(sq) <= Len(batch.req)
    /\ \A k \in 1..Len(sq) : sq[k].tag = Taken + k
    /\ \A x \in flight : x.tag <= Taken
    /\ \A k \in 1..Len(cq) : cq[k].tag <= Taken
    /\ \A x, y \in flight : x.tag = y.tag => x = y
    /\ \A x \in flight, k \in 1..Len(cq) : x.tag # cq[k].tag
    /\ \A k, l \in 1..Len(cq) : cq[k].tag = cq[l].tag => k = l

ReadsAreOfLoads ==
    \A x \in Open : LET l == batch.load[batch.req[x.tag]] IN l.s = x.s /\ l.e = x.e

\* The reads of a load that have not been reaped.
Outstanding(i) ==
    {t \in 1..Len(batch.req) :
        /\ batch.req[t] = i
        /\ \/ t > Taken
           \/ \E x \in flight : x.tag = t
           \/ \E k \in 1..Len(cq) : cq[k].tag = t}

CountsAreRight ==
    \A i \in 1..Len(batch.load) :
        /\ batch.load[i].pending = Cardinality(Outstanding(i))
        /\ batch.load[i].done <=> Outstanding(i) = {}

CellsAreRight ==
    \A i \in 1..Len(batch.load) : \A r \in 1..Reads :
        \/ batch.load[i].error
        \/ slot[batch.load[i].s].cell[r] = batch.load[i].e
        \/ \E x \in Open : x.s = batch.load[i].s /\ x.r = r
        \/ \E k \in 1..Len(cq) : ~cq[k].full /\ batch.req[cq[k].tag] = i

SlotsDiffer ==
    \A i, j \in 1..Len(batch.load) : batch.load[i].s = batch.load[j].s => i = j

PhasesAreRight ==
    /\ batch.at = "idle" => Len(batch.load) = 0 /\ Len(batch.req) = 0
    /\ batch.at # "final" => batch.final = 1 /\ Taken = 0
    /\ batch.at = "add" => Len(batch.req) <= Reads * Len(batch.load)
    /\ \A i \in 1..Len(batch.load) : i < batch.final => batch.load[i].done

ShownAreWhole ==
    \A s \in Slabs \ Owned : slot[s].eid.is = "public" =>
        \A r \in 1..Reads : slot[s].cell[r] = slot[s].eid.e

RingIsRight == /\ TagsAreRight /\ ReadsAreOfLoads /\ CountsAreRight /\ CellsAreRight
               /\ SlotsDiffer /\ PhasesAreRight /\ ShownAreWhole

RingInv == UringTyped /\ (~broken /\ ~exited => RingIsRight)

----------------------------------------------------------------------------
LEMMA RingTypes ==
    ASSUME UringTyped
    PROVE  /\ {Len(batch.load), Len(batch.req), Len(sq), Len(cq)} \subseteq Nat
           /\ DOMAIN batch.load = 1..Len(batch.load) /\ DOMAIN batch.req = 1..Len(batch.req)
           /\ DOMAIN sq = 1..Len(sq) /\ DOMAIN cq = 1..Len(cq)
           /\ \A i \in 1..Len(batch.load) : batch.load[i] \in LoadEntry
           /\ \A t \in 1..Len(batch.req) : batch.req[t] \in Nat /\ batch.req[t] \in 1..Len(batch.load)
           /\ \A k \in 1..Len(sq) : sq[k] \in ReadOf
           /\ \A k \in 1..Len(cq) : cq[k] \in Completion
           /\ ToSet(sq) = {sq[k] : k \in 1..Len(sq)}
           /\ Taken \in Int /\ batch.final \in Nat \ {0}
  BY LenProperties, ElementOfSeq DEF UringTyped, BatchTyped, Taken, ToSet

(* What uring_reap leaves of a load. *)
LEMMA ReapedEntries ==
    ASSUME UringTyped, NEW new, new = Reaped(batch.load, cq)
    PROVE  /\ new \in Seq(LoadEntry) /\ Len(new) = Len(batch.load)
           /\ \A i \in 1..Len(batch.load) :
                  LET l == batch.load[i]
                      mine == Ended(i, cq)
                  IN /\ IsFiniteSet(mine) /\ Cardinality(mine) \in Nat
                     /\ new[i] \in LoadEntry /\ new[i].s = l.s /\ new[i].e = l.e
                     /\ new[i].error <=> l.error \/ \E k \in mine : ~cq[k].full
                     /\ new[i].pending = IF Cardinality(mine) < l.pending THEN l.pending - Cardinality(mine) ELSE 0
                     /\ new[i].done <=> l.done \/ (mine # {} /\ new[i].pending = 0)
  <1>1. DOMAIN batch.load = 1..Len(batch.load) /\ DOMAIN cq = 1..Len(cq) /\ Len(batch.load) \in Nat /\ Len(cq) \in Nat
    BY RingTypes
  <1>2. ASSUME NEW i \in 1..Len(batch.load)
        PROVE  LET l == batch.load[i]
                   mine == Ended(i, cq)
               IN /\ IsFiniteSet(mine) /\ Cardinality(mine) \in Nat
                  /\ new[i] \in LoadEntry /\ new[i].s = l.s /\ new[i].e = l.e
                  /\ new[i].error <=> l.error \/ \E k \in mine : ~cq[k].full
                  /\ new[i].pending = IF Cardinality(mine) < l.pending THEN l.pending - Cardinality(mine) ELSE 0
                  /\ new[i].done <=> l.done \/ (mine # {} /\ new[i].pending = 0)
    <2> DEFINE l == batch.load[i]
               mine == Ended(i, cq)
               left == IF Cardinality(mine) < l.pending THEN l.pending - Cardinality(mine) ELSE 0
               bad == \E k \in mine : ~cq[k].full
    <2>1. l \in LoadEntry
      BY RingTypes
    <2>2. IsFiniteSet(mine) /\ Cardinality(mine) \in Nat
      <3>1. mine \subseteq 1..Len(cq)
        BY <1>1 DEF Ended
      <3>2. IsFiniteSet(1..Len(cq))
        BY <1>1, FS_Interval
      <3> QED BY <3>1, <3>2, FS_Subset, FS_CardinalityType
    <2>3. new[i] = [l EXCEPT !.error = @ \/ bad, !.pending = left, !.done = @ \/ (mine # {} /\ left = 0)]
      BY <1>1 DEF Reaped
    <2>4. left \in Nat /\ bad \in BOOLEAN /\ (mine # {} /\ left = 0) \in BOOLEAN
      BY <2>1, <2>2 DEF LoadEntry
    <2> HIDE DEF l, mine, left, bad
    <2>5. /\ new[i] \in LoadEntry /\ new[i].s = l.s /\ new[i].e = l.e
          /\ new[i].error <=> l.error \/ bad
          /\ new[i].pending = left
          /\ new[i].done <=> l.done \/ (mine # {} /\ left = 0)
      BY <2>1, <2>3, <2>4 DEF LoadEntry
    <2> QED BY <2>2, <2>5 DEF l, mine, left, bad
  <1>3. new \in [1..Len(batch.load) -> LoadEntry]
    <2>1. new = [i \in 1..Len(batch.load) |-> new[i]]
      BY <1>1 DEF Reaped
    <2> QED BY <2>1, <1>2
  <1>4. new \in Seq(LoadEntry) /\ Len(new) = Len(batch.load)
    BY <1>1, <1>3, IsASeq, LenProperties
  <1> QED BY <1>2, <1>4

LEMMA Joined ==
    ASSUME NEW S, NEW one \in Seq(S), NEW two \in Seq(S), NEW n \in Nat, Len(two) = n
    PROVE  /\ one \o two \in Seq(S) /\ Len(one) \in Nat
           /\ Len(one \o two) = Len(one) + n
           /\ \A t \in 1..(Len(one) + n) :
                  (one \o two)[t] = IF t <= Len(one) THEN one[t] ELSE two[t - Len(one)]
  BY ConcatProperties, LenProperties

LEMMA NewReads ==
    ASSUME UringTyped
    PROVE  /\ Fitting \in Int /\ Fitting <= Reads
           /\ Fitting <= ReqMax - Len(batch.req) /\ Fitting <= ReqMax - Len(sq) /\ 0 <= Fitting
           /\ Len(batch.req) + Reads <= ReqMax /\ Len(sq) + Reads <= ReqMax => Fitting = Reads
  <1>1. /\ Len(batch.req) \in Nat /\ Len(sq) \in Nat /\ Len(batch.req) <= ReqMax /\ Len(sq) <= ReqMax
        /\ ReqMax \in Nat /\ Reads \in Nat \ {0}
    BY RingTypes, UringBatchAssumption DEF UringTyped, BatchTyped
  <1> DEFINE inBatch == ReqMax - Len(batch.req)
             inQueue == ReqMax - Len(sq)
             free == IF inBatch < inQueue THEN inBatch ELSE inQueue
  <1>2. Fitting = IF free < Reads THEN free ELSE Reads
    BY DEF Fitting
  <1>3. inBatch \in Nat /\ inQueue \in Nat
    BY <1>1
  <1>4. free \in Nat /\ free <= inBatch /\ free <= inQueue /\ (free = inBatch \/ free = inQueue)
    BY <1>3
  <1>5. Len(batch.req) + Reads <= ReqMax /\ Len(sq) + Reads <= ReqMax => Reads <= inBatch /\ Reads <= inQueue
    BY <1>1
  <1> HIDE DEF free
  <1>6. Fitting \in Nat /\ Fitting <= Reads /\ Fitting <= free /\ (Reads <= free => Fitting = Reads)
    BY <1>1, <1>2, <1>4
  <1>7. Fitting <= ReqMax - Len(batch.req) /\ Fitting <= ReqMax - Len(sq)
    BY <1>1, <1>3, <1>4, <1>6
  <1>8. Len(batch.req) + Reads <= ReqMax /\ Len(sq) + Reads <= ReqMax => Reads <= free
    BY <1>4, <1>5
  <1> QED BY <1>6, <1>7, <1>8

LEMMA LoadMaxReads ==
    ASSUME NEW n \in Nat, n < LoadMax PROVE Reads * n + Reads <= ReqMax
  BY UringBatchAssumption, Z3

----------------------------------------------------------------------------
(* The types. *)

LEMMA RingStart == UringInit => RingInv
  <1> SUFFICES ASSUME UringInit PROVE RingInv
    OBVIOUS
  <1>1. batch.load = <<>> /\ batch.req = <<>> /\ batch.final = 1 /\ batch.at = "idle" /\ batch.n = 0
    BY DEF UringInit
  <1>2. sq = <<>> /\ flight = {} /\ cq = <<>> /\ broken = FALSE /\ exited = FALSE
    BY DEF UringInit
  <1>3. Len(batch.load) = 0 /\ Len(batch.req) = 0 /\ Len(sq) = 0 /\ Len(cq) = 0
    BY <1>1, <1>2
  <1>4. \A s \in Slabs : slot[s] \in SlotType /\ slot[s].eid.is = "hidden"
    BY DEF UringInit, SlotType, Label, Hidden
  <1>5. slot \in [Slabs -> SlotType]
    BY <1>4 DEF UringInit
  <1>6. UringTyped
    <2>1. batch \in [at : {"idle", "add", "final"}, load : Seq(LoadEntry), req : Seq(Nat),
                     final : Nat \ {0}, n : 0..MaxBatches]
      BY UringBatchAssumption DEF UringInit
    <2>2. BatchTyped
      BY <2>1, <1>3, UringBatchAssumption DEF BatchTyped
    <2>3. sq \in Seq(ReadOf) /\ flight \in SUBSET ReadOf /\ cq \in Seq(Completion) /\ Len(sq) <= ReqMax
      BY <1>2, <1>3, UringBatchAssumption
    <2>4. fatal \in BOOLEAN
      BY DEF UringInit
    <2> QED BY <1>2, <1>5, <2>2, <2>3, <2>4 DEF UringTyped
  <1>7. TagsAreRight /\ ReadsAreOfLoads /\ CountsAreRight /\ CellsAreRight /\ SlotsDiffer /\ PhasesAreRight
    BY <1>1, <1>2, <1>3 DEF TagsAreRight, ReadsAreOfLoads, CountsAreRight, CellsAreRight, SlotsDiffer, PhasesAreRight,
       Taken, Open, ToSet
  <1>8. ShownAreWhole
    BY <1>4 DEF ShownAreWhole
  <1> QED BY <1>6, <1>7, <1>8 DEF RingInv, RingIsRight

LEMMA AddTyped ==
    ASSUME UringTyped, NEW e \in Names, NEW s \in Slabs, NEW found \in BOOLEAN, Add(e, s, found)
    PROVE  UringTyped'
  <1> DEFINE prepared == IF found THEN Fitting ELSE 0
             li == Len(batch.load) + 1
             new == [r \in 1..prepared |-> [tag |-> Len(batch.req) + r, s |-> s, e |-> e, r |-> r]]
             of == [r \in 1..prepared |-> li]
             failed == prepared < Reads
             entry == [s |-> s, e |-> e, pending |-> prepared,
                       done |-> failed, error |-> failed, finalized |-> FALSE]
  <1>1. /\ prepared \in Nat /\ prepared <= Reads
        /\ prepared <= ReqMax - Len(batch.req) /\ prepared <= ReqMax - Len(sq)
    BY NewReads, RingTypes, UringBatchAssumption DEF UringTyped, BatchTyped
  <1>2. /\ Len(batch.load) \in Nat /\ Len(batch.req) \in Nat /\ Len(sq) \in Nat
        /\ batch.load \in Seq(LoadEntry) /\ batch.req \in Seq(Nat) /\ sq \in Seq(ReadOf)
        /\ Len(batch.load) < LoadMax
    BY RingTypes DEF UringTyped, BatchTyped, Add
  <1>3. /\ batch' = [batch EXCEPT !.load = Append(@, entry), !.req = @ \o of]
        /\ sq' = sq \o new /\ exited' = (fatal /\ failed)
        /\ slot' = IF fatal THEN slot ELSE [slot EXCEPT ![s].eid = Reserved(e)]
        /\ UNCHANGED <<fatal, flight, cq, broken>>
    BY DEF Add
  <1> HIDE DEF prepared
  <1>4. entry \in LoadEntry
    BY <1>1 DEF LoadEntry
  <1>5. /\ new \in Seq(ReadOf) /\ Len(new) = prepared
        /\ of \in Seq(Nat) /\ Len(of) = prepared
    <2>1. \A r \in 1..prepared : [tag |-> Len(batch.req) + r, s |-> s, e |-> e, r |-> r] \in ReadOf
      BY <1>1, <1>2, UringBatchAssumption DEF ReadOf
    <2>2. new \in [1..prepared -> ReadOf]
      BY <2>1
    <2>3. of \in [1..prepared -> Nat]
      BY <1>2
    <2> HIDE DEF new, of
    <2> QED BY <2>2, <2>3, <1>1, IsASeq, LenProperties
  <1> HIDE DEF new, of, entry
  <1>6. /\ Append(batch.load, entry) \in Seq(LoadEntry) /\ Len(Append(batch.load, entry)) = Len(batch.load) + 1
    BY <1>2, <1>4, AppendProperties
  <1>7. /\ batch.req \o of \in Seq(Nat) /\ Len(batch.req \o of) = Len(batch.req) + prepared
        /\ \A t \in 1..(Len(batch.req) + prepared) :
              (batch.req \o of)[t] = IF t <= Len(batch.req) THEN batch.req[t] ELSE of[t - Len(batch.req)]
    BY <1>1, <1>2, <1>5, Joined
  <1>8. sq \o new \in Seq(ReadOf) /\ Len(sq \o new) = Len(sq) + prepared
    BY <1>1, <1>2, <1>5, Joined
  <1>9. \A t \in 1..(Len(batch.req) + prepared) : (batch.req \o of)[t] \in 1..(Len(batch.load) + 1)
    <2> SUFFICES ASSUME NEW t \in 1..(Len(batch.req) + prepared)
                 PROVE  (batch.req \o of)[t] \in 1..(Len(batch.load) + 1)
      OBVIOUS
    <2>1. CASE t <= Len(batch.req)
      <3>0. prepared \in Nat /\ Len(batch.req) \in Nat
        BY <1>1, <1>2
      <3>1. t \in 1..Len(batch.req)
        BY <3>0, <2>1
      <3>2. batch.req[t] \in 1..Len(batch.load)
        BY <3>1, RingTypes
      <3> QED BY <1>7, <3>2, <2>1, <1>2
    <2>2. CASE ~(t <= Len(batch.req))
      <3>0. prepared \in Nat /\ Len(batch.req) \in Nat
        BY <1>1, <1>2
      <3>1. t - Len(batch.req) \in 1..prepared
        BY <3>0, <2>2
      <3>2. of[t - Len(batch.req)] = Len(batch.load) + 1
        BY <3>1 DEF of
      <3> QED BY <1>7, <3>2, <2>2, <1>2
    <2> QED BY <2>1, <2>2
  <1>10. BatchTyped'
    <2>1. /\ batch.at \in {"idle", "add", "final"} /\ batch.final \in Nat \ {0} /\ batch.n \in 0..MaxBatches
          /\ DOMAIN batch = {"at", "load", "req", "final", "n"}
          /\ batch \in [at : {"idle", "add", "final"}, load : Seq(LoadEntry), req : Seq(Nat),
                         final : Nat \ {0}, n : 0..MaxBatches]
      BY DEF UringTyped, BatchTyped
    <2>2. /\ batch'.load = Append(batch.load, entry) /\ batch'.req = batch.req \o of
          /\ batch' \in [at : {"idle", "add", "final"}, load : Seq(LoadEntry), req : Seq(Nat),
                         final : Nat \ {0}, n : 0..MaxBatches]
      <3> DEFINE load == Append(batch.load, entry)
                 req == batch.req \o of
      <3>1. batch' = [batch EXCEPT !.load = load, !.req = req]
        BY <1>3
      <3>2. load \in Seq(LoadEntry) /\ req \in Seq(Nat)
        BY <1>6, <1>7
      <3> HIDE DEF load, req
      <3>3. batch'.load = load /\ batch'.req = req
        BY <2>1, <3>1
      <3>4. batch' \in [at : {"idle", "add", "final"}, load : Seq(LoadEntry), req : Seq(Nat),
                        final : Nat \ {0}, n : 0..MaxBatches]
        BY <2>1, <3>1, <3>2
      <3> QED BY <3>3, <3>4 DEF load, req
    <2>3. Len(batch'.load) <= LoadMax /\ Len(batch'.req) <= ReqMax
      <3>1. Len(batch'.load) = Len(batch.load) + 1 /\ Len(batch'.req) = Len(batch.req) + prepared
        BY <2>2, <1>6, <1>7
      <3>2. LoadMax \in Nat /\ ReqMax \in Nat
        BY UringBatchAssumption
      <3> QED BY <3>1, <3>2, <1>1, <1>2
    <2>4. \A t \in 1..Len(batch'.req) : batch'.req[t] \in 1..Len(batch'.load)
      BY <2>2, <1>6, <1>7, <1>9
    <2> QED BY <2>2, <2>3, <2>4 DEF BatchTyped
  <1>11. slot' \in [Slabs -> SlotType]
    <2>1. Reserved(e) \in Label
      BY DEF Reserved, Label
    <2>2. slot \in [Slabs -> SlotType]
      BY DEF UringTyped
    <2>3. \A t \in Slabs : [slot[t] EXCEPT !.eid = Reserved(e)] \in SlotType
      BY <2>1, <2>2 DEF SlotType
    <2> QED BY <2>2, <2>3, <1>3
  <1>12. sq' \in Seq(ReadOf) /\ Len(sq') <= ReqMax
    BY <1>3, <1>8, <1>1, <1>2, UringBatchAssumption
  <1> QED BY <1>3, <1>10, <1>11, <1>12 DEF UringTyped

(* A slot with another cell or another label is a slot. *)
LEMMA SlotsTyped ==
    ASSUME UringTyped, NEW s \in Slabs
    PROVE  /\ \A v \in Label : [slot EXCEPT ![s].eid = v] \in [Slabs -> SlotType]
           /\ \A r \in 1..Reads, v \in Names \cup {Nothing} :
                  [slot EXCEPT ![s].cell[r] = v] \in [Slabs -> SlotType]
  <1>1. slot \in [Slabs -> SlotType]
    BY DEF UringTyped
  <1>2. \A v \in Label : [slot[s] EXCEPT !.eid = v] \in SlotType
    BY <1>1 DEF SlotType
  <1>3. \A r \in 1..Reads, v \in Names \cup {Nothing} : [slot[s] EXCEPT !.cell[r] = v] \in SlotType
    BY <1>1 DEF SlotType
  <1> QED BY <1>1, <1>2, <1>3

LEMMA TakenTyped ==
    ASSUME UringTyped, NEW n, KernelTakes(n)
    PROVE  /\ n \in Nat /\ n <= Len(sq)
           /\ flight' \in SUBSET ReadOf /\ sq' \in Seq(ReadOf) /\ Len(sq') = Len(sq) - n
           /\ \A k \in 1..(Len(sq) - n) : sq'[k] = sq[n + k]
  <1>1. n \in 0..Len(sq) /\ flight' = flight \union {sq[k] : k \in 1..n} /\ sq' = SubSeq(sq, n + 1, Len(sq))
    BY DEF KernelTakes
  <1>2. sq \in Seq(ReadOf) /\ Len(sq) \in Nat /\ flight \subseteq ReadOf
    BY RingTypes DEF UringTyped
  <1>3. \A k \in 1..n : sq[k] \in ReadOf
    BY <1>1, <1>2, RingTypes
  <1>4. \A k \in (n + 1)..Len(sq) : sq[k] \in ReadOf
    BY <1>1, <1>2, RingTypes
  <1>5. sq' \in Seq(ReadOf) /\ Len(sq') = Len(sq) - n /\ \A k \in 1..(Len(sq) - n) : sq'[k] = sq[n + k]
    <2>1. /\ SubSeq(sq, n + 1, Len(sq)) \in Seq(ReadOf)
          /\ Len(SubSeq(sq, n + 1, Len(sq))) = IF n + 1 <= Len(sq) THEN Len(sq) - (n + 1) + 1 ELSE 0
          /\ \A k \in 1..(Len(sq) - (n + 1) + 1) : SubSeq(sq, n + 1, Len(sq))[k] = sq[(n + 1) + k - 1]
      BY <1>1, <1>2, <1>4, SubSeqProperties
    <2> QED BY <1>1, <1>2, <2>1
  <1> QED BY <1>1, <1>2, <1>3, <1>5

(* Another list of loads, as long; another phase; another final. *)
LEMMA BatchChanges ==
    ASSUME UringTyped, NEW at \in {"idle", "add", "final"}, NEW load \in Seq(LoadEntry),
           Len(load) = Len(batch.load), NEW final \in Nat \ {0},
           batch' = [batch EXCEPT !.at = at, !.load = load, !.final = final]
    PROVE  /\ BatchTyped' /\ batch'.at = at /\ batch'.load = load /\ batch'.final = final
           /\ batch'.req = batch.req /\ batch'.n = batch.n
  BY DEF UringTyped, BatchTyped

LEMMA UringTypes == UringTyped /\ [UringNext]_uringVars => UringTyped'
  <1> SUFFICES ASSUME UringTyped, [UringNext]_uringVars PROVE UringTyped'
    OBVIOUS
  <1> USE DEF Reap
  <1>0. /\ batch \in [at : {"idle", "add", "final"}, load : Seq(LoadEntry), req : Seq(Nat),
                       final : Nat \ {0}, n : 0..MaxBatches]
        /\ fatal \in BOOLEAN /\ broken \in BOOLEAN /\ exited \in BOOLEAN
        /\ sq \in Seq(ReadOf) /\ Len(sq) <= ReqMax /\ Len(sq) \in Nat
        /\ flight \in SUBSET ReadOf /\ cq \in Seq(Completion) /\ slot \in [Slabs -> SlotType]
    BY RingTypes DEF UringTyped, BatchTyped
  <1>1. CASE BeginBatch
    <2>1. BatchTyped'
      <3>1. batch' = [at |-> "add", load |-> <<>>, req |-> <<>>, final |-> 1, n |-> batch.n + 1] /\ batch.n < MaxBatches
        BY <1>1 DEF BeginBatch
      <3>2. batch' \in [at : {"idle", "add", "final"}, load : Seq(LoadEntry), req : Seq(Nat),
                       final : Nat \ {0}, n : 0..MaxBatches]
        BY <1>0, <3>1, UringBatchAssumption
      <3> QED BY <3>1, <3>2, UringBatchAssumption DEF BatchTyped
    <2> QED BY <2>1, <1>0, <1>1 DEF BeginBatch, UringTyped
  <1>2. CASE \E e \in Names, s \in Slabs, found \in BOOLEAN : Add(e, s, found)
    BY <1>2, AddTyped
  <1>3. CASE \E n \in 0..Len(sq) : SubmitBatch(n)
    <2>1. PICK n \in 0..Len(sq) : SubmitBatch(n)
      BY <1>3
    <2>2. flight' \in SUBSET ReadOf /\ sq' \in Seq(ReadOf) /\ Len(sq') <= ReqMax
      BY <2>1, TakenTyped, <1>0, UringBatchAssumption DEF SubmitBatch
    <2>3. Reaped(batch.load, cq) \in Seq(LoadEntry) /\ Len(Reaped(batch.load, cq)) = Len(batch.load)
      BY ReapedEntries
    <2>4. batch' = [batch EXCEPT !.at = "final", !.load = Reaped(batch.load, cq), !.final = batch.final]
      BY <2>1, <1>0 DEF SubmitBatch
    <2>5. BatchTyped'
      BY <2>3, <2>4, <1>0, BatchChanges
    <2> QED BY <2>1, <2>2, <2>5, <1>0 DEF SubmitBatch, UringTyped
  <1>4. CASE SubmitFails
    <2> DEFINE failed == [i \in DOMAIN batch.load |-> [batch.load[i] EXCEPT !.done = TRUE, !.error = TRUE]]
    <2>1. failed \in Seq(LoadEntry) /\ Len(failed) = Len(batch.load)
      <3>1. \A i \in 1..Len(batch.load) : [batch.load[i] EXCEPT !.done = TRUE, !.error = TRUE] \in LoadEntry
        BY RingTypes DEF LoadEntry
      <3>2. failed \in [1..Len(batch.load) -> LoadEntry] /\ Len(batch.load) \in Nat
        BY <3>1, RingTypes
      <3> HIDE DEF failed
      <3> QED BY <3>2, IsASeq, LenProperties
    <2>2. batch' = [batch EXCEPT !.at = "final", !.load = failed, !.final = batch.final]
      BY <1>4, <1>0 DEF SubmitFails
    <2> HIDE DEF failed
    <2>3. BatchTyped'
      BY <2>1, <2>2, <1>0, BatchChanges
    <2> QED BY <1>4, <2>3, <1>0 DEF SubmitFails, UringTyped
  <1>5. CASE \E read \in flight, full \in BOOLEAN : Complete(read, full)
    <2>1. PICK read \in flight, full \in BOOLEAN : Complete(read, full)
      BY <1>5
    <2>2. read.s \in Slabs /\ read.r \in 1..Reads /\ read.e \in Names /\ read.tag \in 1..ReqMax
      BY <1>0 DEF ReadOf
    <2>3. slot' \in [Slabs -> SlotType]
      <3>1. slot' = [slot EXCEPT ![read.s].cell[read.r] = IF full THEN read.e ELSE Nothing]
        BY <2>1 DEF Complete
      <3> QED BY <3>1, <2>2, SlotsTyped
    <2>4. cq' \in Seq(Completion)
      <3>1. [tag |-> read.tag, full |-> full] \in Completion
        BY <2>2 DEF Completion
      <3>2. cq' = Append(cq, [tag |-> read.tag, full |-> full])
        BY <2>1 DEF Complete
      <3> QED BY <3>1, <3>2, <1>0, AppendProperties
    <2> QED BY <2>1, <2>3, <2>4, <1>0 DEF Complete, UringTyped, BatchTyped
  <1>6. CASE \E n \in 1..Len(sq) : WaitEnters(n)
    <2>1. PICK n \in 1..Len(sq) : WaitEnters(n)
      BY <1>6
    <2>2. flight' \in SUBSET ReadOf /\ sq' \in Seq(ReadOf) /\ Len(sq') <= ReqMax
      BY <2>1, TakenTyped, <1>0, UringBatchAssumption DEF WaitEnters
    <2> QED BY <2>1, <2>2, <1>0 DEF WaitEnters, UringTyped, BatchTyped
  <1>7. CASE WaitReaps
    <2>3. Reaped(batch.load, cq) \in Seq(LoadEntry) /\ Len(Reaped(batch.load, cq)) = Len(batch.load)
      BY ReapedEntries
    <2>4. batch' = [batch EXCEPT !.at = batch.at, !.load = Reaped(batch.load, cq), !.final = batch.final]
      BY <1>7, <1>0 DEF WaitReaps
    <2>5. BatchTyped'
      BY <2>3, <2>4, <1>0, BatchChanges
    <2> QED BY <1>7, <2>5, <1>0 DEF WaitReaps, UringTyped
  <1>8. CASE WaitFails
    <2> DEFINE failed == [batch.load EXCEPT ![batch.final] = [@ EXCEPT !.done = TRUE, !.error = TRUE]]
    <2>1. failed \in Seq(LoadEntry) /\ Len(failed) = Len(batch.load)
      <3>0. batch.final \in 1..Len(batch.load)
        BY <1>8, RingTypes DEF WaitFails, IsFinalizing
      <3>1. \A i \in 1..Len(batch.load) : batch.load[i] \in LoadEntry
        BY RingTypes
      <3>2. batch.load = [i \in 1..Len(batch.load) |-> batch.load[i]] /\ Len(batch.load) \in Nat
        BY RingTypes, <1>0
      <3>3. failed \in [1..Len(batch.load) -> LoadEntry]
        <4>1. \A l \in LoadEntry : [l EXCEPT !.done = TRUE, !.error = TRUE] \in LoadEntry
          BY DEF LoadEntry
        <4>2. batch.load \in [1..Len(batch.load) -> LoadEntry]
          BY <3>1, <3>2
        <4> QED BY <3>0, <4>1, <4>2
      <3> HIDE DEF failed
      <3> QED BY <3>2, <3>3, IsASeq, LenProperties
    <2>2. batch' = [batch EXCEPT !.at = batch.at, !.load = failed, !.final = batch.final]
      BY <1>8, <1>0 DEF WaitFails
    <2> HIDE DEF failed
    <2>3. BatchTyped'
      BY <2>1, <2>2, <1>0, BatchChanges
    <2> QED BY <1>8, <2>3, <1>0 DEF WaitFails, UringTyped
  <1>9. CASE Finalize
    <2> DEFINE given == [batch.load EXCEPT ![batch.final].finalized = ~Current.error]
    <2>0. batch.final \in 1..Len(batch.load) /\ Current \in LoadEntry
      BY <1>9, RingTypes DEF Finalize, IsFinalizing, Current
    <2>1. given \in Seq(LoadEntry) /\ Len(given) = Len(batch.load)
      <3>1. \A i \in 1..Len(batch.load) : batch.load[i] \in LoadEntry
        BY RingTypes
      <3>2. batch.load = [i \in 1..Len(batch.load) |-> batch.load[i]] /\ Len(batch.load) \in Nat
        BY RingTypes, <1>0
      <3>3. given \in [1..Len(batch.load) -> LoadEntry]
        BY <2>0, <3>1, <3>2 DEF LoadEntry
      <3> HIDE DEF given
      <3> QED BY <3>2, <3>3, IsASeq, LenProperties
    <2>2. batch' = [batch EXCEPT !.at = batch.at, !.load = given, !.final = batch.final + 1]
      BY <1>9, <1>0 DEF Finalize
    <2> HIDE DEF given
    <2>3. BatchTyped'
      <3>1. batch.at \in {"idle", "add", "final"} /\ batch.final + 1 \in Nat \ {0}
        BY <1>0
      <3> QED BY <2>1, <2>2, <3>1, BatchChanges
    <2>4. slot' \in [Slabs -> SlotType]
      <3>1. Current.s \in Slabs /\ Hidden \in Label /\ Public(Current.e) \in Label
        BY <2>0 DEF LoadEntry, Hidden, Public, Label
      <3> QED BY <3>1, <1>9, <1>0, SlotsTyped DEF Finalize
    <2>5. exited' \in BOOLEAN
      BY <1>9, <1>0 DEF Finalize
    <2> QED BY <1>9, <2>3, <2>4, <2>5, <1>0 DEF Finalize, UringTyped
  <1>10. CASE EndBatch
    <2>1. batch' = [batch EXCEPT !.at = "idle", !.load = <<>>, !.req = <<>>, !.final = 1]
      BY <1>10 DEF EndBatch
    <2>2. batch' \in [at : {"idle", "add", "final"}, load : Seq(LoadEntry), req : Seq(Nat),
                       final : Nat \ {0}, n : 0..MaxBatches] /\ batch'.load = <<>> /\ batch'.req = <<>>
      <3>1. <<>> \in Seq(LoadEntry) /\ <<>> \in Seq(Nat) /\ 1 \in Nat \ {0}
        OBVIOUS
      <3> QED BY <1>0, <2>1, <3>1
    <2>3. BatchTyped'
      BY <2>2, UringBatchAssumption DEF BatchTyped
    <2> QED BY <1>10, <2>3, <1>0 DEF EndBatch, UringTyped
  <1>11. CASE UNCHANGED uringVars
    BY <1>11 DEF uringVars, UringTyped, BatchTyped
  <1> QED BY <1>1, <1>2, <1>3, <1>4, <1>5, <1>6, <1>7, <1>8, <1>9, <1>10, <1>11 DEF UringNext

----------------------------------------------------------------------------
(* What is outstanding. *)

LEMMA OutstandingIsFinite ==
    ASSUME UringTyped, NEW i
    PROVE  IsFiniteSet(Outstanding(i)) /\ Cardinality(Outstanding(i)) \in Nat
  <1>1. Outstanding(i) \subseteq 1..Len(batch.req) /\ Len(batch.req) \in Nat
    BY RingTypes DEF Outstanding
  <1>2. IsFiniteSet(1..Len(batch.req))
    BY <1>1, FS_Interval
  <1> QED BY <1>1, <1>2, FS_Subset, FS_CardinalityType

(* With nothing sent, the kernel has nothing and has answered nothing. *)
LEMMA NothingSent ==
    ASSUME UringTyped, TagsAreRight, Taken = 0
    PROVE  flight = {} /\ Len(cq) = 0 /\ Len(sq) = Len(batch.req) /\ Open = {sq[k] : k \in 1..Len(sq)}
  <1>1. flight = {}
    <2> SUFFICES ASSUME NEW x \in flight PROVE FALSE
      OBVIOUS
    <2> QED BY DEF UringTyped, TagsAreRight, ReadOf
  <1>2. Len(cq) = 0
    <2> SUFFICES ASSUME Len(cq) # 0 PROVE FALSE
      OBVIOUS
    <2>1. 1 \in 1..Len(cq)
      BY RingTypes
    <2>2. cq[1].tag \in 1..ReqMax /\ cq[1].tag <= 0
      BY <2>1, RingTypes DEF Completion, TagsAreRight
    <2> QED BY <2>2, UringBatchAssumption
  <1>3. Len(sq) = Len(batch.req)
    BY RingTypes DEF Taken
  <1> QED BY <1>1, <1>2, <1>3, RingTypes DEF Open

(* A read that the kernel or the queue has is outstanding, for its load. *)
LEMMA OpenIsOutstanding ==
    ASSUME UringTyped, TagsAreRight, NEW x \in Open
    PROVE  /\ x \in ReadOf /\ x.tag \in 1..Len(batch.req) /\ batch.req[x.tag] \in 1..Len(batch.load)
           /\ x.tag \in Outstanding(batch.req[x.tag])
  <1>1. CASE x \in flight
    <2>1. x \in ReadOf /\ x.tag <= Taken
      BY <1>1 DEF UringTyped, TagsAreRight
    <2>2. x.tag \in 1..Len(batch.req)
      BY <2>1, RingTypes, UringBatchAssumption DEF ReadOf, Taken
    <2> QED BY <1>1, <2>1, <2>2, RingTypes DEF Outstanding
  <1>2. CASE x \in ToSet(sq)
    <2>1. PICK k \in 1..Len(sq) : x = sq[k]
      BY <1>2, RingTypes
    <2>2. x \in ReadOf /\ x.tag = Taken + k
      BY <2>1, RingTypes DEF TagsAreRight
    <2>3. x.tag \in 1..Len(batch.req) /\ x.tag > Taken
      <3>1. x.tag \in Nat \ {0} /\ Len(sq) \in Nat /\ Len(batch.req) \in Nat
        BY <2>2, RingTypes, UringBatchAssumption DEF ReadOf
      <3> QED BY <2>2, <3>1 DEF Taken
    <2> QED BY <2>2, <2>3, RingTypes DEF Outstanding
  <1> QED BY <1>1, <1>2 DEF Open

LEMMA AnsweredIsOutstanding ==
    ASSUME UringTyped, TagsAreRight, NEW k \in 1..Len(cq)
    PROVE  /\ cq[k].tag \in 1..Len(batch.req) /\ batch.req[cq[k].tag] \in 1..Len(batch.load)
           /\ cq[k].tag \in Outstanding(batch.req[cq[k].tag])
  <1>1. cq[k] \in Completion /\ cq[k].tag <= Taken
    BY RingTypes DEF TagsAreRight
  <1>2. cq[k].tag \in 1..Len(batch.req)
    BY <1>1, RingTypes, UringBatchAssumption DEF Completion, Taken
  <1> QED BY <1>2, RingTypes DEF Outstanding

(* The kernel takes reads: they are outstanding as before. *)
LEMMA TakenRight ==
    ASSUME UringTyped, TagsAreRight, NEW n, KernelTakes(n), batch'.req = batch.req, cq' = cq
    PROVE  /\ TagsAreRight' /\ Open' = Open /\ Taken' = Taken + n
           /\ \A i \in 1..Len(batch.load) : Outstanding(i)' = Outstanding(i)
  <1>1. /\ n \in Nat /\ n <= Len(sq) /\ Len(sq) \in Nat /\ Len(batch.req) \in Nat /\ Len(sq) <= Len(batch.req)
        /\ Len(sq') = Len(sq) - n /\ \A k \in 1..(Len(sq) - n) : sq'[k] = sq[n + k]
        /\ flight' = flight \union {sq[k] : k \in 1..n} /\ sq' \in Seq(ReadOf)
    BY TakenTyped, RingTypes DEF KernelTakes, TagsAreRight
  <1>2. Taken' = Taken + n /\ Taken \in Nat /\ Taken + Len(sq) = Len(batch.req)
    BY <1>1 DEF Taken
  <1>3. \A k \in 1..Len(sq) : sq[k].tag = Taken + k
    BY DEF TagsAreRight
  <1>4. /\ \A x \in flight : x.tag <= Taken /\ x.tag \in Nat
        /\ \A k \in 1..Len(cq) : cq[k].tag <= Taken /\ cq[k].tag \in Nat
    BY RingTypes, UringBatchAssumption DEF TagsAreRight, UringTyped, ReadOf, Completion
  <1>8. ASSUME NEW x \in flight', x \notin flight
        PROVE  \E k \in 1..n : x = sq[k] /\ x.tag = Taken + k
    <2>1. PICK k \in 1..n : x = sq[k]
      BY <1>8, <1>1
    <2>2. k \in 1..Len(sq)
      BY <1>1
    <2> QED BY <2>1, <2>2, <1>3
  <1>9. \A x \in flight' \ flight : Taken < x.tag /\ x.tag <= Taken'
    <2> SUFFICES ASSUME NEW x \in flight', x \notin flight PROVE Taken < x.tag /\ x.tag <= Taken'
      OBVIOUS
    <2>1. PICK k \in 1..n : x.tag = Taken + k
      BY <1>8
    <2> QED BY <2>1, <1>1, <1>2
  <1>5. TagsAreRight'
    <2>1. \A k \in 1..Len(sq') : sq'[k].tag = Taken' + k
      <3> SUFFICES ASSUME NEW k \in 1..Len(sq') PROVE sq'[k].tag = Taken' + k
        OBVIOUS
      <3>1. n + k \in 1..Len(sq) /\ sq'[k] = sq[n + k]
        BY <1>1
      <3>2. sq[n + k].tag = Taken + (n + k)
        BY <3>1, <1>3
      <3> QED BY <3>1, <3>2, <1>1, <1>2
    <2>2. \A x \in flight' : x.tag <= Taken'
      <3>1. \A x \in flight : x.tag <= Taken'
        BY <1>1, <1>2, <1>4
      <3> QED BY <3>1, <1>9
    <2>3. \A x, y \in flight' : x.tag = y.tag => x = y
      <3> SUFFICES ASSUME NEW x \in flight', NEW y \in flight', x.tag = y.tag PROVE x = y
        OBVIOUS
      <3>1. CASE x \in flight /\ y \in flight
        BY <3>1 DEF TagsAreRight
      <3>2. CASE x \in flight /\ y \notin flight
        <4>1. x.tag <= Taken /\ Taken < y.tag /\ x.tag \in Nat
          BY <3>2, <1>4, <1>9
        <4> QED BY <4>1, <1>2
      <3>3. CASE x \notin flight /\ y \in flight
        <4>1. y.tag <= Taken /\ Taken < x.tag /\ y.tag \in Nat
          BY <3>3, <1>4, <1>9
        <4> QED BY <4>1, <1>2
      <3>4. CASE x \notin flight /\ y \notin flight
        <4>1. PICK k \in 1..n : x = sq[k]
          BY <3>4, <1>1
        <4>2. PICK l \in 1..n : y = sq[l]
          BY <3>4, <1>1
        <4>3. x.tag = Taken + k /\ y.tag = Taken + l
          BY <4>1, <4>2, <1>1, <1>3
        <4>4. Taken + k = Taken + l /\ Taken \in Nat /\ n \in Nat
          BY <4>3, <1>1, <1>2
        <4>5. k = l
          BY <4>4
        <4> QED BY <4>1, <4>2, <4>5
      <3> QED BY <3>1, <3>2, <3>3, <3>4
    <2>4. \A x \in flight', k \in 1..Len(cq) : x.tag # cq[k].tag
      <3> SUFFICES ASSUME NEW x \in flight', NEW k \in 1..Len(cq) PROVE x.tag # cq[k].tag
        OBVIOUS
      <3>1. CASE x \in flight
        BY <3>1 DEF TagsAreRight
      <3>2. CASE x \notin flight
        <4>1. cq[k].tag <= Taken /\ Taken < x.tag /\ cq[k].tag \in Nat
          BY <3>2, <1>4, <1>9
        <4> QED BY <4>1, <1>2
      <3> QED BY <3>1, <3>2
    <2>5. Len(sq') <= Len(batch'.req) /\ \A k \in 1..Len(cq) : cq[k].tag <= Taken'
      BY <1>1, <1>2, <1>4
    <2> QED BY <2>1, <2>2, <2>3, <2>4, <2>5 DEF TagsAreRight
  <1>6. Open' = Open
    <2>1. ToSet(sq) = {sq[k] : k \in 1..Len(sq)}
      BY RingTypes
    <2>2. ToSet(sq') = {sq'[k] : k \in 1..Len(sq')}
      BY <1>1, LenProperties DEF ToSet
    <2>3. ToSet(sq) = ToSet(sq') \cup {sq[k] : k \in 1..n}
      <3>1. ASSUME NEW x \in ToSet(sq) PROVE x \in ToSet(sq') \cup {sq[k] : k \in 1..n}
        <4>1. PICK k \in 1..Len(sq) : x = sq[k]
          BY <2>1
        <4>2. CASE k <= n
          BY <4>1, <4>2, <1>1
        <4>3. CASE ~(k <= n)
          <5>1. k - n \in 1..Len(sq') /\ sq'[k - n] = sq[k]
            BY <4>3, <1>1
          <5> QED BY <5>1, <4>1, <2>2
        <4> QED BY <4>2, <4>3
      <3>2. ToSet(sq') \cup {sq[k] : k \in 1..n} \subseteq ToSet(sq)
        BY <2>1, <2>2, <1>1
      <3> QED BY <3>1, <3>2
    <2> QED BY <2>3, <1>1 DEF Open
  <1>7. ASSUME NEW i \in 1..Len(batch.load) PROVE Outstanding(i)' = Outstanding(i)
    <2>1. ASSUME NEW t \in 1..Len(batch.req)
          PROVE  (t > Taken \/ \E x \in flight : x.tag = t) <=> (t > Taken' \/ \E x \in flight' : x.tag = t)
      <3>1. CASE t > Taken + n
        BY <3>1, <1>2, <1>1
      <3>2. CASE t > Taken /\ ~(t > Taken + n)
        <4>1. t - Taken \in 1..n /\ sq[t - Taken].tag = t
          BY <3>2, <1>1, <1>2, <1>3
        <4> QED BY <3>2, <4>1, <1>1
      <3>3. CASE ~(t > Taken)
        <4>1. ~(t > Taken')
          BY <3>3, <1>1, <1>2
        <4>2. \A x \in flight' \ flight : x.tag # t
          <5> SUFFICES ASSUME NEW x \in flight', x \notin flight, x.tag = t PROVE FALSE
            OBVIOUS
          <5>1. Taken < t
            BY <1>9
          <5> QED BY <5>1, <3>3
        <4>3. flight \subseteq flight'
          BY <1>1
        <4> QED BY <3>3, <4>1, <4>2, <4>3
      <3> QED BY <3>1, <3>2, <3>3, <1>1, <1>2
    <2> QED BY <2>1 DEF Outstanding
  <1> QED BY <1>2, <1>5, <1>6, <1>7

----------------------------------------------------------------------------
(* The steps. *)

LEMMA Nobody ==
    ASSUME UringTyped, Len(batch.load) = 0 PROVE Owned = {}
  BY RingTypes DEF Owned

(* An empty batch, with nothing on its way. *)
LEMMA EmptyBatch ==
    ASSUME UringTyped', (Len(batch.load) = 0)', (Len(batch.req) = 0)', (batch.final = 1)',
           (Len(sq) = 0)', (flight = {})', (Len(cq) = 0)',
           UNCHANGED slot, Owned = {}, ShownAreWhole
    PROVE  RingIsRight'
  <1>1. (Open = {})' /\ (Taken = 0)'
    BY RingTypes DEF Open, Taken, UringTyped, ToSet
  <1>2. TagsAreRight' /\ ReadsAreOfLoads' /\ CountsAreRight' /\ CellsAreRight' /\ SlotsDiffer'
    BY <1>1 DEF TagsAreRight, ReadsAreOfLoads, CountsAreRight, CellsAreRight, SlotsDiffer
  <1>3. PhasesAreRight'
    <2>1. Reads * 0 = 0
      BY UringBatchAssumption
    <2> QED BY <1>1, <2>1 DEF PhasesAreRight
  <1>4. (Owned = {})'
    BY Nobody DEF Owned, UringTyped
  <1>5. ShownAreWhole'
    BY <1>4 DEF ShownAreWhole
  <1> QED BY <1>2, <1>3, <1>5 DEF RingIsRight

LEMMA BeginsRight ==
    ASSUME UringTyped, UringTyped', RingIsRight, BeginBatch
    PROVE  RingIsRight'
  <1>1. /\ batch.at = "idle" /\ batch' = [at |-> "add", load |-> <<>>, req |-> <<>>, final |-> 1, n |-> batch.n + 1]
        /\ UNCHANGED <<sq, flight, cq, slot>>
    BY DEF BeginBatch
  <1>2. Len(batch.load) = 0 /\ Len(batch.req) = 0 /\ Taken = 0
    BY <1>1 DEF RingIsRight, PhasesAreRight
  <1>3. flight = {} /\ Len(cq) = 0 /\ Len(sq) = 0 /\ Owned = {}
    BY <1>2, NothingSent, Nobody DEF RingIsRight
  <1> QED BY <1>1, <1>3, EmptyBatch DEF RingIsRight

LEMMA EndsRight ==
    ASSUME UringTyped, UringTyped', RingIsRight, EndBatch
    PROVE  RingIsRight'
  <1>1. /\ batch.at = "final" /\ batch.final > Len(batch.load) /\ UNCHANGED <<sq, flight, cq, slot>>
        /\ batch' = [batch EXCEPT !.at = "idle", !.load = <<>>, !.req = <<>>, !.final = 1]
    BY DEF EndBatch
  <1>2. \A i \in 1..Len(batch.load) : Outstanding(i) = {}
    BY <1>1, RingTypes DEF RingIsRight, PhasesAreRight, CountsAreRight
  <1>3. Open = {}
    BY <1>2, OpenIsOutstanding DEF RingIsRight
  <1>4. Len(cq) = 0
    <2> SUFFICES ASSUME Len(cq) # 0 PROVE FALSE
      OBVIOUS
    <2>1. 1 \in 1..Len(cq)
      BY RingTypes
    <2> QED BY <2>1, <1>2, AnsweredIsOutstanding DEF RingIsRight
  <1>5. flight = {} /\ Len(sq) = 0
    <2>1. flight = {} /\ {sq[k] : k \in 1..Len(sq)} = {} /\ Len(sq) \in Nat
      BY <1>3, RingTypes DEF Open
    <2>2. 1 \notin 1..Len(sq)
      BY <2>1
    <2> QED BY <2>1, <2>2
  <1>6. Owned = {}
    BY <1>1, RingTypes DEF Owned
  <1>7. batch'.load = <<>> /\ batch'.req = <<>> /\ batch'.final = 1
    BY <1>1 DEF UringTyped, BatchTyped
  <1> QED BY <1>1, <1>4, <1>5, <1>6, <1>7, EmptyBatch DEF RingIsRight

(* A step after which the loads are the same but for finalized, and the     *)
(* reads that are outstanding, and those that fell short, are the same.     *)
LEMMA SameReads ==
    ASSUME UringTyped, UringTyped', RingIsRight, TagsAreRight',
           Len(batch'.load) = Len(batch.load), batch'.req = batch.req, Open' = Open, UNCHANGED cq,
           \A i \in 1..Len(batch.load) :
               /\ Outstanding(i)' = Outstanding(i)
               /\ batch'.load[i].s = batch.load[i].s /\ batch'.load[i].e = batch.load[i].e
               /\ batch'.load[i].pending = batch.load[i].pending
               /\ batch'.load[i].done = batch.load[i].done /\ batch'.load[i].error = batch.load[i].error,
           \A s \in Slabs : slot'[s].cell = slot[s].cell
    PROVE  ReadsAreOfLoads' /\ CountsAreRight' /\ CellsAreRight' /\ SlotsDiffer'
  <1>1. ReadsAreOfLoads'
    <2> SUFFICES ASSUME NEW x \in Open
                 PROVE  LET l == batch'.load[batch'.req[x.tag]] IN l.s = x.s /\ l.e = x.e
      BY DEF ReadsAreOfLoads
    <2>1. batch.req[x.tag] \in 1..Len(batch.load)
      BY OpenIsOutstanding DEF RingIsRight
    <2> QED BY <2>1 DEF RingIsRight, ReadsAreOfLoads
  <1>2. CountsAreRight'
    BY DEF CountsAreRight, RingIsRight
  <1>3. CellsAreRight'
    <2> SUFFICES ASSUME NEW i \in 1..Len(batch.load), NEW r \in 1..Reads
                 PROVE  \/ batch'.load[i].error
                        \/ slot'[batch'.load[i].s].cell[r] = batch'.load[i].e
                        \/ \E x \in Open : x.s = batch'.load[i].s /\ x.r = r
                        \/ \E k \in 1..Len(cq) : ~cq[k].full /\ batch.req[cq[k].tag] = i
      BY SMTT(60) DEF CellsAreRight
    <2>1. batch.load[i].s \in Slabs
      BY RingTypes DEF LoadEntry
    <2>2. \/ batch.load[i].error
          \/ slot[batch.load[i].s].cell[r] = batch.load[i].e
          \/ \E x \in Open : x.s = batch.load[i].s /\ x.r = r
          \/ \E k \in 1..Len(cq) : ~cq[k].full /\ batch.req[cq[k].tag] = i
      BY DEF RingIsRight, CellsAreRight
    <2>3. /\ batch'.load[i].s = batch.load[i].s /\ batch'.load[i].e = batch.load[i].e
          /\ batch'.load[i].error = batch.load[i].error
          /\ slot'[batch.load[i].s].cell = slot[batch.load[i].s].cell
      BY <2>1
    <2> QED BY <2>2, <2>3
  <1>4. SlotsDiffer'
    BY DEF SlotsDiffer, RingIsRight
  <1> QED BY <1>1, <1>2, <1>3, <1>4

LEMMA SubmitsRight ==
    ASSUME UringTyped, UringTyped', RingIsRight, NEW n, SubmitBatch(n)
    PROVE  RingIsRight'
  <1>1. /\ batch.at = "add" /\ KernelTakes(n) /\ cq' = <<>> /\ UNCHANGED slot
        /\ batch' = [batch EXCEPT !.load = Reaped(batch.load, cq), !.at = "final"]
    BY DEF SubmitBatch, Reap
  <1>2. Taken = 0 /\ batch.final = 1
    BY <1>1 DEF RingIsRight, PhasesAreRight
  <1>3. Len(cq) = 0
    BY <1>2, NothingSent DEF RingIsRight
  <1>4. UNCHANGED cq
    BY <1>1, <1>3, EmptySeq DEF UringTyped
  <1>5. /\ batch'.load = Reaped(batch.load, cq) /\ batch'.at = "final" /\ batch'.req = batch.req
        /\ batch'.final = 1
    BY <1>1, <1>2 DEF UringTyped, BatchTyped
  <1>6. \A i \in 1..Len(batch.load) :
            /\ batch'.load[i].s = batch.load[i].s /\ batch'.load[i].e = batch.load[i].e
            /\ batch'.load[i].pending = batch.load[i].pending
            /\ batch'.load[i].done = batch.load[i].done /\ batch'.load[i].error = batch.load[i].error
    <2> SUFFICES ASSUME NEW i \in 1..Len(batch.load)
                 PROVE  /\ batch'.load[i].s = batch.load[i].s /\ batch'.load[i].e = batch.load[i].e
                        /\ batch'.load[i].pending = batch.load[i].pending
                        /\ batch'.load[i].done = batch.load[i].done /\ batch'.load[i].error = batch.load[i].error
      OBVIOUS
    <2>1. Ended(i, cq) = {}
      BY <1>3, RingTypes DEF Ended
    <2>2. Cardinality(Ended(i, cq)) = 0
      BY <2>1, FS_EmptySet
    <2>3. batch.load[i] \in LoadEntry /\ batch'.load[i] \in LoadEntry
      BY <1>5, RingTypes, ReapedEntries
    <2>4. /\ batch'.load[i].s = batch.load[i].s /\ batch'.load[i].e = batch.load[i].e
          /\ batch'.load[i].error <=> batch.load[i].error
          /\ batch'.load[i].pending = IF 0 < batch.load[i].pending THEN batch.load[i].pending - 0 ELSE 0
          /\ batch'.load[i].done <=> batch.load[i].done
      <3>1. /\ batch'.load[i].s = batch.load[i].s /\ batch'.load[i].e = batch.load[i].e
            /\ batch'.load[i].error <=> batch.load[i].error \/ \E k \in Ended(i, cq) : ~cq[k].full
            /\ batch'.load[i].pending = IF Cardinality(Ended(i, cq)) < batch.load[i].pending
                                        THEN batch.load[i].pending - Cardinality(Ended(i, cq)) ELSE 0
            /\ batch'.load[i].done <=>
                   batch.load[i].done \/ (Ended(i, cq) # {} /\ batch'.load[i].pending = 0)
        BY <1>5, ReapedEntries
      <3>2. batch'.load[i].error <=> batch.load[i].error
        BY <3>1, <2>1, Zenon
      <3>3. batch'.load[i].done <=> batch.load[i].done
        BY <3>1, <2>1, Zenon
      <3> QED BY <3>1, <3>2, <3>3, <2>2
    <2>5. /\ batch.load[i].pending \in Nat
          /\ {batch.load[i].done, batch.load[i].error, batch'.load[i].done, batch'.load[i].error} \subseteq BOOLEAN
      BY <2>3 DEF LoadEntry
    <2>6. batch'.load[i].pending = batch.load[i].pending
      BY <2>4, <2>5
    <2> QED BY <2>4, <2>5, <2>6, Zenon
  <1>7. Len(batch'.load) = Len(batch.load)
    BY <1>5, ReapedEntries
  <1>8. TagsAreRight' /\ Open' = Open /\ \A i \in 1..Len(batch.load) : Outstanding(i)' = Outstanding(i)
    BY <1>1, <1>4, <1>5, TakenRight DEF RingIsRight
  <1>9. ReadsAreOfLoads' /\ CountsAreRight' /\ CellsAreRight' /\ SlotsDiffer'
    BY <1>1, <1>4, <1>5, <1>6, <1>7, <1>8, SameReads
  <1>10. PhasesAreRight'
    BY <1>5, RingTypes DEF PhasesAreRight
  <1>11. Owned' = Owned
    <2>1. DOMAIN batch.load = 1..Len(batch.load) /\ DOMAIN batch'.load = 1..Len(batch.load)
      BY RingTypes, <1>7, LenProperties DEF UringTyped, BatchTyped
    <2>2. Owned = {batch.load[i].s : i \in 1..Len(batch.load)}
      BY <2>1, <1>1 DEF Owned
    <2>3. Owned' = {batch'.load[i].s : i \in 1..Len(batch.load)}
      BY <2>1, <1>5 DEF Owned
    <2> QED BY <2>2, <2>3, <1>6
  <1>12. ShownAreWhole'
    BY <1>1, <1>11 DEF ShownAreWhole, RingIsRight
  <1> QED BY <1>8, <1>9, <1>10, <1>12 DEF RingIsRight

LEMMA EntersRight ==
    ASSUME UringTyped, UringTyped', RingIsRight, NEW n, WaitEnters(n)
    PROVE  RingIsRight'
  <1>1. batch.at = "final" /\ KernelTakes(n) /\ UNCHANGED <<batch, cq, slot>>
    BY DEF WaitEnters, IsFinalizing
  <1>2. TagsAreRight' /\ Open' = Open /\ \A i \in 1..Len(batch.load) : Outstanding(i)' = Outstanding(i)
    BY <1>1, TakenRight DEF RingIsRight
  <1>3. ReadsAreOfLoads' /\ CountsAreRight' /\ CellsAreRight' /\ SlotsDiffer'
    BY <1>1, <1>2, SameReads
  <1>4. PhasesAreRight' /\ ShownAreWhole'
    BY <1>1 DEF PhasesAreRight, ShownAreWhole, Owned, RingIsRight
  <1> QED BY <1>2, <1>3, <1>4 DEF RingIsRight

LEMMA FinalizesRight ==
    ASSUME UringTyped, UringTyped', RingIsRight, Finalize, ~exited'
    PROVE  RingIsRight'
  <1>1. /\ batch.at = "final" /\ batch.final \in 1..Len(batch.load) /\ Current.done
        /\ Current = batch.load[batch.final] /\ Current \in LoadEntry /\ Current.s \in Slabs
    BY RingTypes DEF Finalize, IsFinalizing, Current, LoadEntry
  <1>2. /\ batch' = [batch EXCEPT !.load[batch.final].finalized = ~Current.error, !.final = @ + 1]
        /\ UNCHANGED <<fatal, sq, flight, cq>> /\ ~(Current.error /\ fatal)
        /\ slot' = [slot EXCEPT ![Current.s].eid = IF Current.error THEN Hidden ELSE Public(Current.e)]
    BY DEF Finalize
  <1>3. /\ batch'.req = batch.req /\ batch'.final = batch.final + 1 /\ batch'.at = "final"
        /\ batch'.load = [batch.load EXCEPT ![batch.final].finalized = ~Current.error]
    BY <1>1, <1>2 DEF UringTyped, BatchTyped
  <1>4. /\ DOMAIN batch'.load = 1..Len(batch.load) /\ Len(batch'.load) = Len(batch.load)
        /\ Len(batch.load) \in Nat /\ DOMAIN batch.load = 1..Len(batch.load)
    <2>1. DOMAIN batch.load = 1..Len(batch.load) /\ Len(batch.load) \in Nat
      BY RingTypes
    <2>2. DOMAIN batch'.load = 1..Len(batch.load)
      BY <1>3, <2>1
    <2>3. DOMAIN batch'.load = 1..Len(batch'.load) /\ Len(batch'.load) \in Nat
      BY LenProperties DEF UringTyped, BatchTyped
    <2>4. Len(batch'.load) = Len(batch.load)
      BY <2>1, <2>2, <2>3
    <2> QED BY <2>1, <2>2, <2>4
  <1>5. \A i \in 1..Len(batch.load) :
            /\ batch'.load[i].s = batch.load[i].s /\ batch'.load[i].e = batch.load[i].e
            /\ batch'.load[i].pending = batch.load[i].pending
            /\ batch'.load[i].done = batch.load[i].done /\ batch'.load[i].error = batch.load[i].error
    <2> SUFFICES ASSUME NEW i \in 1..Len(batch.load)
                 PROVE  /\ batch'.load[i].s = batch.load[i].s /\ batch'.load[i].e = batch.load[i].e
                        /\ batch'.load[i].pending = batch.load[i].pending
                        /\ batch'.load[i].done = batch.load[i].done /\ batch'.load[i].error = batch.load[i].error
      OBVIOUS
    <2>1. batch.load[i] \in LoadEntry
      BY RingTypes
    <2>2. batch'.load[i] = IF i = batch.final THEN [batch.load[i] EXCEPT !.finalized = ~Current.error] ELSE batch.load[i]
      BY <1>3, <1>4
    <2> QED BY <2>1, <2>2 DEF LoadEntry
  <1>6. Taken' = Taken /\ Open' = Open /\ TagsAreRight'
    BY <1>2, <1>3 DEF Taken, Open, TagsAreRight, RingIsRight
  <1>7. \A i \in 1..Len(batch.load) : Outstanding(i)' = Outstanding(i)
    BY <1>2, <1>3, <1>6 DEF Outstanding
  <1>8. /\ slot \in [Slabs -> SlotType]
        /\ \A s \in Slabs : slot'[s].cell = slot[s].cell /\ (s # Current.s => slot'[s] = slot[s])
        /\ slot'[Current.s].eid = IF Current.error THEN Hidden ELSE Public(Current.e)
    BY <1>1, <1>2 DEF UringTyped, SlotType
  <1>9. ReadsAreOfLoads' /\ CountsAreRight' /\ CellsAreRight' /\ SlotsDiffer'
    BY <1>2, <1>3, <1>4, <1>5, <1>6, <1>7, <1>8, SameReads
  <1>10. PhasesAreRight'
    <2>1. \A i \in 1..Len(batch.load) : i < batch.final + 1 => batch.load[i].done
      <3> SUFFICES ASSUME NEW i \in 1..Len(batch.load), i < batch.final + 1 PROVE batch.load[i].done
        OBVIOUS
      <3>1. i < batch.final \/ i = batch.final
        BY RingTypes
      <3> QED BY <3>1, <1>1 DEF RingIsRight, PhasesAreRight
    <2> QED BY <2>1, <1>3, <1>4, <1>5 DEF PhasesAreRight
  <1>11. Owned \subseteq Owned' \cup {Current.s}
    <2> SUFFICES ASSUME NEW s \in Owned PROVE s \in Owned' \cup {Current.s}
      OBVIOUS
    <2>1. PICK i \in 1..Len(batch.load) : i >= batch.final /\ s = batch.load[i].s
      BY <1>1, <1>4 DEF Owned
    <2>2. CASE i = batch.final
      BY <2>1, <2>2, <1>1
    <2>3. CASE i # batch.final
      <3>1. i >= batch.final + 1
        BY <2>1, <2>3, RingTypes
      <3> QED BY <2>1, <3>1, <1>3, <1>4, <1>5 DEF Owned
    <2> QED BY <2>2, <2>3
  <1>12. ~Current.error => \A r \in 1..Reads : slot[Current.s].cell[r] = Current.e
    <2> SUFFICES ASSUME ~Current.error, NEW r \in 1..Reads PROVE slot[Current.s].cell[r] = Current.e
      OBVIOUS
    <2>1. Outstanding(batch.final) = {}
      BY <1>1 DEF RingIsRight, CountsAreRight
    <2>2. ~\E x \in Open : x.s = Current.s /\ x.r = r
      <3> SUFFICES ASSUME NEW x \in Open, x.s = Current.s PROVE FALSE
        OBVIOUS
      <3>1. batch.req[x.tag] \in 1..Len(batch.load) /\ x.tag \in Outstanding(batch.req[x.tag])
        BY OpenIsOutstanding DEF RingIsRight
      <3>2. batch.load[batch.req[x.tag]].s = Current.s
        BY DEF RingIsRight, ReadsAreOfLoads
      <3>3. batch.req[x.tag] = batch.final
        BY <3>1, <3>2, <1>1 DEF RingIsRight, SlotsDiffer
      <3> QED BY <3>1, <3>3, <2>1
    <2>3. ~\E k \in 1..Len(cq) : ~cq[k].full /\ batch.req[cq[k].tag] = batch.final
      BY <2>1, AnsweredIsOutstanding DEF RingIsRight
    <2> QED BY <2>2, <2>3, <1>1 DEF RingIsRight, CellsAreRight
  <1>13. ShownAreWhole'
    <2> SUFFICES ASSUME NEW s \in Slabs, s \notin Owned', slot'[s].eid.is = "public", NEW r \in 1..Reads
                 PROVE  slot'[s].cell[r] = slot'[s].eid.e
      BY DEF ShownAreWhole
    <2>1. CASE s = Current.s
      <3>1. ~Current.error /\ slot'[s].eid.e = Current.e
        BY <2>1, <1>8 DEF Hidden, Public
      <3> QED BY <3>1, <2>1, <1>8, <1>12
    <2>2. CASE s # Current.s
      <3>1. s \notin Owned /\ slot'[s] = slot[s]
        BY <2>2, <1>8, <1>11
      <3> QED BY <3>1 DEF RingIsRight, ShownAreWhole
    <2> QED BY <2>1, <2>2
  <1> QED BY <1>6, <1>9, <1>10, <1>13 DEF RingIsRight

LEMMA CompletesRight ==
    ASSUME UringTyped, UringTyped', RingIsRight, NEW read \in flight, NEW full \in BOOLEAN, Complete(read, full)
    PROVE  RingIsRight'
  <1> DEFINE entry == [tag |-> read.tag, full |-> full]
             v == IF full THEN read.e ELSE Nothing
             o == batch.req[read.tag]
  <1>1. /\ flight' = flight \ {read} /\ cq' = Append(cq, entry) /\ UNCHANGED <<batch, sq>>
        /\ slot' = [slot EXCEPT ![read.s].cell[read.r] = v]
    BY DEF Complete
  <1>2. read \in Open /\ read \in ReadOf /\ o \in 1..Len(batch.load) /\ read.tag \in Outstanding(o)
    BY OpenIsOutstanding DEF Open, RingIsRight
  <1>3. batch.load[o].s = read.s /\ batch.load[o].e = read.e
    BY <1>2 DEF RingIsRight, ReadsAreOfLoads
  <1>4. /\ Len(cq) \in Nat /\ Len(cq') = Len(cq) + 1 /\ cq'[Len(cq) + 1] = entry
        /\ \A k \in 1..Len(cq) : cq'[k] = cq[k]
    BY <1>1, AppendProperties, LenProperties DEF UringTyped
  <1>5. Taken' = Taken /\ Open = Open' \cup {read} /\ Open' \subseteq Open
    BY <1>1 DEF Taken, Open
  <1>6. /\ slot \in [Slabs -> SlotType]
        /\ \A s \in Slabs : /\ slot'[s].eid = slot[s].eid
                            /\ s # read.s => slot'[s] = slot[s]
        /\ \A r \in 1..Reads : slot'[read.s].cell[r] = IF r = read.r THEN v ELSE slot[read.s].cell[r]
    BY <1>1, <1>2 DEF UringTyped, SlotType, ReadOf
  <1>7. TagsAreRight'
    <2>1. /\ Len(sq) <= Len(batch.req)
          /\ \A k \in 1..Len(sq) : sq[k].tag = Taken + k
          /\ \A x \in flight : x.tag <= Taken
          /\ \A k \in 1..Len(cq) : cq[k].tag <= Taken
          /\ \A x, y \in flight : x.tag = y.tag => x = y
          /\ \A x \in flight, k \in 1..Len(cq) : x.tag # cq[k].tag
          /\ \A k, l \in 1..Len(cq) : cq[k].tag = cq[l].tag => k = l
      BY DEF RingIsRight, TagsAreRight
    <2>2. \A k \in 1..Len(cq') : k \in 1..Len(cq) \/ k = Len(cq) + 1
      BY <1>4
    <2>3. \A k \in 1..Len(cq') : cq'[k].tag <= Taken
      BY <2>1, <2>2, <1>4
    <2>4. \A x \in flight', k \in 1..Len(cq') : x.tag # cq'[k].tag
      BY <2>1, <2>2, <1>1, <1>4
    <2>5. \A k, l \in 1..Len(cq') : cq'[k].tag = cq'[l].tag => k = l
      BY <2>1, <2>2, <1>4
    <2>6. \A x, y \in flight' : x.tag = y.tag => x = y
      BY <2>1, <1>1
    <2>7. \A x \in flight' : x.tag <= Taken
      BY <2>1, <1>1
    <2> HIDE DEF entry
    <2> QED BY <2>1, <2>3, <2>4, <2>5, <2>6, <2>7, <1>1, <1>5 DEF TagsAreRight
  <1>8. \A i \in 1..Len(batch.load) : Outstanding(i)' = Outstanding(i)
    <2>1. ASSUME NEW t
          PROVE  ((\E x \in flight : x.tag = t) \/ \E k \in 1..Len(cq) : cq[k].tag = t)
                 <=> ((\E x \in flight' : x.tag = t) \/ \E k \in 1..Len(cq') : cq'[k].tag = t)
      <3>1. CASE t = read.tag
        <4>1. Len(cq) + 1 \in 1..Len(cq') /\ cq'[Len(cq) + 1].tag = t
          BY <1>4, <3>1
        <4> QED BY <4>1, <3>1
      <3>2. CASE t # read.tag
        <4>1. \A k \in 1..Len(cq') : k \in 1..Len(cq) \/ k = Len(cq) + 1
          BY <1>4
        <4>2. \A k \in 1..Len(cq) : k \in 1..Len(cq')
          BY <1>4
        <4> QED BY <4>1, <4>2, <3>2, <1>1, <1>4
      <3> QED BY <3>1, <3>2
    <2> HIDE DEF entry
    <2> QED BY <2>1, <1>1, <1>5 DEF Outstanding
  <1>9. ReadsAreOfLoads' /\ CountsAreRight' /\ SlotsDiffer' /\ PhasesAreRight'
    BY <1>1, <1>5, <1>8 DEF ReadsAreOfLoads, CountsAreRight, SlotsDiffer, PhasesAreRight, RingIsRight
  <1>10. CellsAreRight'
    <2> SUFFICES ASSUME NEW i \in 1..Len(batch.load), NEW r \in 1..Reads
                 PROVE  \/ batch.load[i].error
                        \/ slot'[batch.load[i].s].cell[r] = batch.load[i].e
                        \/ \E x \in Open' : x.s = batch.load[i].s /\ x.r = r
                        \/ \E k \in 1..Len(cq') : ~cq'[k].full /\ batch.req[cq'[k].tag] = i
      BY <1>1 DEF CellsAreRight
    <2>1. \/ batch.load[i].error
          \/ slot[batch.load[i].s].cell[r] = batch.load[i].e
          \/ \E x \in Open : x.s = batch.load[i].s /\ x.r = r
          \/ \E k \in 1..Len(cq) : ~cq[k].full /\ batch.req[cq[k].tag] = i
      BY DEF RingIsRight, CellsAreRight
    <2>2. batch.load[i].s \in Slabs
      BY RingTypes DEF LoadEntry
    <2>3. CASE batch.load[i].s = read.s /\ r = read.r
      <3>1. i = o
        BY <2>3, <1>2, <1>3 DEF RingIsRight, SlotsDiffer
      <3>2. CASE full
        BY <3>1, <3>2, <2>3, <1>3, <1>6
      <3>3. CASE ~full
        <4>1. Len(cq) + 1 \in 1..Len(cq') /\ ~cq'[Len(cq) + 1].full /\ batch.req[cq'[Len(cq) + 1].tag] = i
          BY <3>1, <3>3, <1>4
        <4> QED BY <4>1
      <3> QED BY <3>2, <3>3
    <2>4. CASE ~(batch.load[i].s = read.s /\ r = read.r)
      <3>1. slot'[batch.load[i].s].cell[r] = slot[batch.load[i].s].cell[r]
        BY <2>2, <2>4, <1>6
      <3>2. \A k \in 1..Len(cq) : k \in 1..Len(cq') /\ cq'[k] = cq[k]
        BY <1>4
      <3> QED BY <2>1, <2>4, <3>1, <3>2, <1>5
    <2> QED BY <2>3, <2>4
  <1>11. ShownAreWhole'
    <2>1. Owned' = Owned
      BY <1>1 DEF Owned
    <2>2. read.s \in Owned
      <3>1. ~batch.load[o].done
        BY <1>2 DEF RingIsRight, CountsAreRight
      <3>2. o >= batch.final
        BY <3>1, <1>2, RingTypes DEF RingIsRight, PhasesAreRight
      <3>3. o \in DOMAIN batch.load
        BY <1>2, RingTypes
      <3> QED BY <3>2, <3>3, <1>3 DEF Owned
    <2>3. \A s \in Slabs \ Owned : slot'[s] = slot[s]
      BY <2>2, <1>6
    <2> QED BY <2>1, <2>3 DEF ShownAreWhole, RingIsRight
  <1> QED BY <1>7, <1>9, <1>10, <1>11 DEF RingIsRight

(* A reaped completion ends its read: what is outstanding for a load goes   *)
(* down by the number of its completions.                                   *)
LEMMA ReapedCounts ==
    ASSUME UringTyped, TagsAreRight, NEW i \in 1..Len(batch.load),
           NEW left, left = {t \in Outstanding(i) : ~\E k \in 1..Len(cq) : cq[k].tag = t}
    PROVE  /\ IsFiniteSet(left) /\ Cardinality(left) \in Nat
           /\ Cardinality(Outstanding(i)) = Cardinality(left) + Cardinality(Ended(i, cq))
  <1> DEFINE mine == Ended(i, cq)
             tags == {cq[k].tag : k \in mine}
  <1>1. mine = {k \in 1..Len(cq) : batch.req[cq[k].tag] = i}
    BY RingTypes, AnsweredIsOutstanding DEF Ended
  <1>2. IsFiniteSet(mine)
    <2>1. IsFiniteSet(1..Len(cq))
      BY RingTypes, FS_Interval
    <2> QED BY <1>1, <2>1, FS_Subset
  <1>3. IsFiniteSet(tags) /\ Cardinality(tags) = Cardinality(mine)
    <2> DEFINE f == [k \in mine |-> cq[k].tag]
    <2>1. f \in Bijection(mine, tags)
      <3>1. f \in [mine -> tags] /\ \A t \in tags : \E k \in mine : f[k] = t
        OBVIOUS
      <3>2. \A k, l \in mine : f[k] = f[l] => k = l
        BY <1>1 DEF TagsAreRight
      <3> HIDE DEF f, mine, tags
      <3> QED BY <3>1, <3>2 DEF Bijection, Injection, Surjection, IsInjective
    <2> HIDE DEF f, tags, mine
    <2>2. ExistsBijection(mine, tags)
      BY <2>1 DEF ExistsBijection
    <2> QED BY <1>2, <2>2, FS_Bijection
  <1>4. tags \subseteq Outstanding(i)
    BY <1>1, AnsweredIsOutstanding
  <1>5. left = Outstanding(i) \ tags
    <2>1. \A k \in 1..Len(cq) : cq[k].tag \in Outstanding(i) => k \in mine
      BY <1>1 DEF Outstanding
    <2> QED BY <2>1, <1>1
  <1> HIDE DEF tags, mine
  <1>6. IsFiniteSet(Outstanding(i))
    BY OutstandingIsFinite
  <1>7. IsFiniteSet(left) /\ Cardinality(left) \in Nat
    BY <1>5, <1>6, FS_Subset, FS_CardinalityType
  <1>8. Cardinality(left \cup tags) = Cardinality(left) + Cardinality(tags) - Cardinality(left \cap tags)
    BY <1>7, <1>3, FS_Union
  <1>9. left \cup tags = Outstanding(i) /\ left \cap tags = {}
    BY <1>4, <1>5
  <1>10. Cardinality(tags) \in Nat /\ Cardinality(left \cap tags) = 0
    BY <1>3, <1>9, FS_CardinalityType, FS_EmptySet
  <1>11. Cardinality(left \cup tags) = Cardinality(Outstanding(i))
    BY <1>9, Zenon
  <1>12. Cardinality(Outstanding(i)) = Cardinality(left) + Cardinality(mine)
    BY <1>3, <1>7, <1>8, <1>10, <1>11
  <1> QED BY <1>7, <1>12 DEF mine

LEMMA ReapsRight ==
    ASSUME UringTyped, UringTyped', RingIsRight, WaitReaps
    PROVE  RingIsRight'
  <1>1. /\ batch' = [batch EXCEPT !.load = Reaped(batch.load, cq)] /\ cq' = <<>> /\ UNCHANGED <<sq, flight, slot>>
        /\ batch.at = "final"
    BY DEF WaitReaps, Reap, IsFinalizing
  <1>2. /\ batch'.load = Reaped(batch.load, cq) /\ batch'.at = "final" /\ batch'.req = batch.req
        /\ batch'.final = batch.final /\ Len(cq') = 0
    BY <1>1 DEF UringTyped, BatchTyped
  <1>3. Len(batch'.load) = Len(batch.load) /\ Len(batch.load) \in Nat
    BY <1>2, ReapedEntries, RingTypes
  <1>4. \A i \in 1..Len(batch.load) :
            LET l == batch.load[i]
                mine == Ended(i, cq)
            IN /\ l \in LoadEntry /\ IsFiniteSet(mine) /\ Cardinality(mine) \in Nat
               /\ batch'.load[i] \in LoadEntry /\ batch'.load[i].s = l.s /\ batch'.load[i].e = l.e
               /\ batch'.load[i].error <=> l.error \/ \E k \in mine : ~cq[k].full
               /\ batch'.load[i].pending = IF Cardinality(mine) < l.pending THEN l.pending - Cardinality(mine) ELSE 0
               /\ batch'.load[i].done <=> l.done \/ (mine # {} /\ batch'.load[i].pending = 0)
    BY <1>2, ReapedEntries, RingTypes
  <1>5. Taken' = Taken /\ Open' = Open
    BY <1>1, <1>2 DEF Taken, Open
  <1>6. TagsAreRight'
    BY <1>1, <1>2, <1>5 DEF TagsAreRight, RingIsRight
  <1>7. ReadsAreOfLoads'
    <2> SUFFICES ASSUME NEW x \in Open
                 PROVE  LET l == batch'.load[batch.req[x.tag]] IN l.s = x.s /\ l.e = x.e
      BY <1>2, <1>5 DEF ReadsAreOfLoads
    <2>1. batch.req[x.tag] \in 1..Len(batch.load)
      BY OpenIsOutstanding DEF RingIsRight
    <2> QED BY <2>1, <1>4 DEF RingIsRight, ReadsAreOfLoads
  <1>8. \A i \in 1..Len(batch.load) :
            Outstanding(i)' = {t \in Outstanding(i) : ~\E k \in 1..Len(cq) : cq[k].tag = t}
    <2> SUFFICES ASSUME NEW i \in 1..Len(batch.load)
                 PROVE  Outstanding(i)' = {t \in Outstanding(i) : ~\E k \in 1..Len(cq) : cq[k].tag = t}
      OBVIOUS
    <2>1. Outstanding(i)' = {t \in 1..Len(batch.req) : batch.req[t] = i /\ (t > Taken \/ \E x \in flight : x.tag = t)}
      BY <1>1, <1>2, <1>5 DEF Outstanding
    <2>2. \A k \in 1..Len(cq) : cq[k].tag <= Taken /\ cq[k].tag \in Int /\ Taken \in Int
      BY RingTypes, AnsweredIsOutstanding DEF RingIsRight, TagsAreRight
    <2>3. \A t \in 1..Len(batch.req) : t > Taken => ~\E k \in 1..Len(cq) : cq[k].tag = t
      BY <2>2, RingTypes
    <2>4. \A x \in flight : ~\E k \in 1..Len(cq) : cq[k].tag = x.tag
      BY DEF RingIsRight, TagsAreRight
    <2> QED BY <2>1, <2>3, <2>4 DEF Outstanding
  <1>9. CountsAreRight'
    <2> SUFFICES ASSUME NEW i \in 1..Len(batch.load)
                 PROVE  /\ batch'.load[i].pending = Cardinality(Outstanding(i)')
                        /\ batch'.load[i].done <=> Outstanding(i)' = {}
      BY <1>3 DEF CountsAreRight
    <2> DEFINE l == batch.load[i]
               mine == Ended(i, cq)
               left == Outstanding(i)'
    <2>1. /\ IsFiniteSet(left) /\ Cardinality(left) \in Nat
          /\ Cardinality(Outstanding(i)) = Cardinality(left) + Cardinality(mine)
      <3> DEFINE rest == {t \in Outstanding(i) : ~\E k \in 1..Len(cq) : cq[k].tag = t}
      <3>1. /\ IsFiniteSet(rest) /\ Cardinality(rest) \in Nat
            /\ Cardinality(Outstanding(i)) = Cardinality(rest) + Cardinality(mine)
        BY ReapedCounts DEF RingIsRight
      <3>2. left = rest
        BY <1>8
      <3> QED BY <3>1, <3>2
    <2>2. l.pending = Cardinality(Outstanding(i)) /\ (l.done <=> Outstanding(i) = {})
      BY DEF RingIsRight, CountsAreRight
    <2>3. /\ IsFiniteSet(mine) /\ Cardinality(mine) \in Nat
          /\ batch'.load[i].pending = IF Cardinality(mine) < l.pending THEN l.pending - Cardinality(mine) ELSE 0
          /\ batch'.load[i].done <=> l.done \/ (mine # {} /\ batch'.load[i].pending = 0)
      BY <1>4
    <2>4. left \subseteq Outstanding(i)
      BY <1>8
    <2>5. Cardinality(left) = 0 <=> left = {}
      BY <2>1, FS_EmptySet
    <2>6. Cardinality(mine) = 0 <=> mine = {}
      BY <2>3, FS_EmptySet
    <2> HIDE DEF l, mine, left
    <2>7. batch'.load[i].pending = Cardinality(left)
      BY <2>1, <2>2, <2>3
    <2>8. batch'.load[i].done <=> left = {}
      <3>1. CASE l.done
        BY <3>1, <2>2, <2>3, <2>4
      <3>2. CASE ~l.done /\ mine = {}
        <4>1. Cardinality(Outstanding(i)) = Cardinality(left) /\ Cardinality(Outstanding(i)) # 0
          <5>1. IsFiniteSet(Outstanding(i)) /\ Outstanding(i) # {}
            BY <3>2, <2>2, OutstandingIsFinite
          <5>2. Cardinality(Outstanding(i)) # 0
            BY <5>1, FS_EmptySet
          <5> QED BY <5>2, <3>2, <2>1, <2>6
        <4> QED BY <4>1, <3>2, <2>3, <2>5
      <3>3. CASE ~l.done /\ mine # {}
        BY <3>3, <2>3, <2>5, <2>7
      <3> QED BY <3>1, <3>2, <3>3
    <2> QED BY <2>7, <2>8 DEF left
  <1>10. CellsAreRight'
    <2> SUFFICES ASSUME NEW i \in 1..Len(batch.load), NEW r \in 1..Reads
                 PROVE  \/ batch'.load[i].error
                        \/ slot[batch.load[i].s].cell[r] = batch.load[i].e
                        \/ \E x \in Open : x.s = batch.load[i].s /\ x.r = r
      BY <1>1, <1>3, <1>4, <1>5 DEF CellsAreRight
    <2>1. \A k \in 1..Len(cq) : batch.req[cq[k].tag] = i => k \in Ended(i, cq)
      BY RingTypes, AnsweredIsOutstanding DEF Ended, RingIsRight
    <2> QED BY <2>1, <1>4 DEF RingIsRight, CellsAreRight
  <1>11. SlotsDiffer'
    BY <1>3, <1>4 DEF SlotsDiffer, RingIsRight
  <1>12. PhasesAreRight'
    BY <1>1, <1>2, <1>3, <1>4 DEF PhasesAreRight, RingIsRight
  <1>13. Owned' = Owned
    <2>1. DOMAIN batch.load = 1..Len(batch.load) /\ DOMAIN batch'.load = 1..Len(batch.load)
      BY RingTypes, <1>3, LenProperties DEF UringTyped, BatchTyped
    <2>2. Owned = {batch.load[i].s : i \in {j \in 1..Len(batch.load) : j >= batch.final}}
      BY <2>1, <1>1 DEF Owned
    <2>3. Owned' = {batch'.load[i].s : i \in {j \in 1..Len(batch.load) : j >= batch.final}}
      BY <2>1, <1>2 DEF Owned
    <2> QED BY <2>2, <2>3, <1>4
  <1>14. ShownAreWhole'
    BY <1>1, <1>13 DEF ShownAreWhole, RingIsRight
  <1> QED BY <1>6, <1>7, <1>9, <1>10, <1>11, <1>12, <1>14 DEF RingIsRight

LEMMA AddsRight ==
    ASSUME UringTyped, UringTyped', RingIsRight, NEW e \in Names, NEW s \in Slabs, NEW found \in BOOLEAN,
           Add(e, s, found)
    PROVE  RingIsRight'
  <1> DEFINE n == IF found THEN Reads ELSE 0
             li == Len(batch.load) + 1
             new == [r \in 1..n |-> [tag |-> Len(batch.req) + r, s |-> s, e |-> e, r |-> r]]
             of == [r \in 1..n |-> li]
             entry == [s |-> s, e |-> e, pending |-> n, done |-> ~found, error |-> ~found, finalized |-> FALSE]
  <1>1. /\ batch.at = "add" /\ Len(batch.load) < LoadMax /\ batch.final = 1 /\ Taken = 0
        /\ Len(batch.load) \in Nat /\ Len(batch.req) \in Nat /\ n \in Nat
        /\ Len(batch.req) <= Reads * Len(batch.load)
        /\ DOMAIN batch.load = 1..Len(batch.load)
    BY RingTypes, UringBatchAssumption DEF Add, RingIsRight, PhasesAreRight
  <1>2. flight = {} /\ Len(cq) = 0 /\ Len(sq) = Len(batch.req) /\ Open = {sq[k] : k \in 1..Len(sq)}
    BY <1>1, NothingSent DEF RingIsRight
  <1>3. Reads \in Nat \ {0} /\ Fitting = Reads /\ Len(batch.req) + n <= Reads * (Len(batch.load) + 1)
    <2>1. Reads \in Nat \ {0} /\ Reads * Len(batch.load) \in Nat /\ ReqMax \in Nat
          /\ Reads * (Len(batch.load) + 1) = Reads * Len(batch.load) + Reads
      BY <1>1, UringBatchAssumption
    <2>2. Reads * Len(batch.load) + Reads <= ReqMax
      BY <1>1, LoadMaxReads
    <2>3. Len(batch.req) + Reads <= ReqMax
      BY <2>1, <2>2, <1>1
    <2>4. Fitting = Reads
      BY <2>3, <1>2, NewReads
    <2>5. n <= Reads
      BY <2>1
    <2>6. Len(batch.req) + n <= Reads * (Len(batch.load) + 1)
      <3> HIDE DEF n
      <3> QED BY <2>1, <2>5, <1>1
    <2> QED BY <2>1, <2>4, <2>6
  <1>4. /\ batch' = [batch EXCEPT !.load = Append(@, entry), !.req = @ \o of]
        /\ sq' = sq \o new /\ UNCHANGED <<flight, cq>>
        /\ slot' = IF fatal THEN slot ELSE [slot EXCEPT ![s].eid = Reserved(e)]
        /\ LoadsOf(s) = {}
    <2> DEFINE prepared == IF found THEN Fitting ELSE 0
    <2>1. prepared = n /\ (prepared < Reads) = ~found
      BY <1>3
    <2>2. /\ batch' = [batch EXCEPT
                 !.load = Append(@, [s |-> s, e |-> e, pending |-> prepared, done |-> prepared < Reads,
                                     error |-> prepared < Reads, finalized |-> FALSE]),
                 !.req = @ \o [r \in 1..prepared |-> li]]
          /\ sq' = sq \o [r \in 1..prepared |-> [tag |-> Len(batch.req) + r, s |-> s, e |-> e, r |-> r]]
          /\ UNCHANGED <<flight, cq>>
          /\ slot' = IF fatal THEN slot ELSE [slot EXCEPT ![s].eid = Reserved(e)]
          /\ LoadsOf(s) = {}
      BY DEF Add
    <2> HIDE DEF prepared, n, li
    <2> QED BY <2>1, <2>2
  <1> HIDE DEF n
  <1>5. /\ new \in Seq(ReadOf) /\ Len(new) = n
        /\ of \in Seq(Nat) /\ Len(of) = n
        /\ \A r \in 1..n : /\ new[r] = [tag |-> Len(batch.req) + r, s |-> s, e |-> e, r |-> r] /\ of[r] = li
                           /\ new[r] \in ReadOf
    <2>0. n <= Reads /\ Len(batch.req) + n <= ReqMax
      <3>1. Len(batch.req) + n = Len(batch'.req)
        <4>1. of \in Seq(Nat) /\ Len(of) = n
          <5>1. of \in [1..n -> Nat]
            BY <1>1
          <5> HIDE DEF of
          <5> QED BY <5>1, <1>1, IsASeq, LenProperties
        <4> HIDE DEF of
        <4>2. batch.req \in Seq(Nat) /\ batch'.req = batch.req \o of
          BY <1>4 DEF UringTyped, BatchTyped
        <4> QED BY <4>1, <4>2, <1>1, Joined
      <3>2. Len(batch'.req) <= ReqMax
        BY DEF UringTyped, BatchTyped
      <3>3. n <= Reads
        BY <1>3 DEF n
      <3> QED BY <3>1, <3>2, <3>3
    <2>1. \A r \in 1..n : [tag |-> Len(batch.req) + r, s |-> s, e |-> e, r |-> r] \in ReadOf
      BY <1>1, <1>3, <2>0, UringBatchAssumption DEF ReadOf
    <2>2. new \in [1..n -> ReadOf]
      BY <2>1
    <2>3. of \in [1..n -> Nat]
      BY <1>1
    <2>4. \A r \in 1..n : new[r] = [tag |-> Len(batch.req) + r, s |-> s, e |-> e, r |-> r] /\ of[r] = li
      OBVIOUS
    <2> HIDE DEF new, of
    <2> QED BY <2>1, <2>2, <2>3, <2>4, <1>1, IsASeq, LenProperties
  <1> HIDE DEF new, of
  <1>6. /\ batch'.load = Append(batch.load, entry) /\ batch'.req = batch.req \o of
        /\ batch'.at = "add" /\ batch'.final = 1
    BY <1>1, <1>4 DEF UringTyped, BatchTyped
  <1>7. /\ Len(batch'.load) = li /\ batch'.load[li] = entry
        /\ \A i \in 1..Len(batch.load) : batch'.load[i] = batch.load[i]
        /\ DOMAIN batch'.load = 1..li
    <2>1. entry \in LoadEntry
      BY <1>1 DEF LoadEntry
    <2>2. batch.load \in Seq(LoadEntry)
      BY DEF UringTyped, BatchTyped
    <2> HIDE DEF entry
    <2>3. /\ Append(batch.load, entry) \in Seq(LoadEntry)
          /\ Len(Append(batch.load, entry)) = Len(batch.load) + 1
          /\ \A i \in 1..Len(batch.load) : Append(batch.load, entry)[i] = batch.load[i]
          /\ Append(batch.load, entry)[Len(batch.load) + 1] = entry
      BY <2>1, <2>2, AppendProperties
    <2>4. DOMAIN batch'.load = 1..Len(batch'.load)
      BY <2>3, <1>6, LenProperties
    <2>5. batch'.load = Append(batch.load, entry) /\ li = Len(batch.load) + 1
      BY <1>6
    <2> HIDE DEF li
    <2> QED BY <2>3, <2>4, <2>5
  <1>8. /\ Len(batch'.req) = Len(batch.req) + n
        /\ \A t \in 1..Len(batch.req) : batch'.req[t] = batch.req[t]
        /\ \A t \in (Len(batch.req) + 1)..(Len(batch.req) + n) : batch'.req[t] = li
    <2>1. batch.req \in Seq(Nat)
      BY DEF UringTyped, BatchTyped
    <2>2. /\ Len(batch.req \o of) = Len(batch.req) + n
          /\ \A t \in 1..(Len(batch.req) + n) :
                 (batch.req \o of)[t] = IF t <= Len(batch.req) THEN batch.req[t] ELSE of[t - Len(batch.req)]
      <3>1. n \in Nat /\ of \in Seq(Nat) /\ Len(of) = n
        BY <1>1, <1>5
      <3> QED BY <2>1, <3>1, Joined, SMTT(60)
    <2>3. \A t \in (Len(batch.req) + 1)..(Len(batch.req) + n) : batch'.req[t] = li
      <3> SUFFICES ASSUME NEW t \in (Len(batch.req) + 1)..(Len(batch.req) + n) PROVE batch'.req[t] = li
        OBVIOUS
      <3>1. t - Len(batch.req) \in 1..n /\ t \in 1..(Len(batch.req) + n) /\ ~(t <= Len(batch.req))
        BY <1>1
      <3> QED BY <3>1, <2>2, <1>5, <1>6
    <2>4. \A t \in 1..Len(batch.req) : batch'.req[t] = batch.req[t]
      <3> SUFFICES ASSUME NEW t \in 1..Len(batch.req) PROVE batch'.req[t] = batch.req[t]
        OBVIOUS
      <3>1. t \in 1..(Len(batch.req) + n) /\ t <= Len(batch.req)
        BY <1>1
      <3> QED BY <3>1, <2>2, <1>6
    <2> QED BY <2>2, <2>3, <2>4, <1>6
  <1>9. /\ Len(sq') = Len(sq) + n
        /\ \A k \in 1..Len(sq) : sq'[k] = sq[k]
        /\ \A k \in (Len(sq) + 1)..(Len(sq) + n) :
               sq'[k].tag = k /\ sq'[k].s = s /\ sq'[k].e = e /\ sq'[k].r = k - Len(sq)
    <2>1. sq \in Seq(ReadOf) /\ Len(sq) \in Nat
      BY RingTypes DEF UringTyped
    <2>2. /\ Len(sq \o new) = Len(sq) + n
          /\ \A k \in 1..(Len(sq) + n) : (sq \o new)[k] = IF k <= Len(sq) THEN sq[k] ELSE new[k - Len(sq)]
      <3>1. n \in Nat /\ new \in Seq(ReadOf) /\ Len(new) = n
        BY <1>1, <1>5
      <3> QED BY <2>1, <3>1, Joined, SMTT(60)
    <2>3. ASSUME NEW k \in (Len(sq) + 1)..(Len(sq) + n)
          PROVE  sq'[k].tag = k /\ sq'[k].s = s /\ sq'[k].e = e /\ sq'[k].r = k - Len(sq)
      <3>1. k - Len(sq) \in 1..n /\ k \in 1..(Len(sq) + n) /\ ~(k <= Len(sq)) /\ Len(batch.req) + (k - Len(sq)) = k
        BY <1>1, <1>2
      <3>2. sq'[k] = new[k - Len(sq)]
        BY <3>1, <2>2, <1>4
      <3>3. new[k - Len(sq)] = [tag |-> k, s |-> s, e |-> e, r |-> k - Len(sq)]
        BY <3>1, <1>5
      <3> QED BY <3>2, <3>3
    <2>4. ASSUME NEW k \in 1..Len(sq) PROVE sq'[k] = sq[k]
      <3>1. k \in 1..(Len(sq) + n) /\ k <= Len(sq)
        BY <2>1, <1>1
      <3> QED BY <3>1, <2>2, <1>4
    <2> QED BY <2>2, <2>3, <2>4, <1>4
  <1>24. /\ li \in Int /\ li = Len(batch.load) + 1 /\ li \notin 1..Len(batch.load)
         /\ batch'.load[li].s = s /\ batch'.load[li].e = e /\ batch'.load[li].pending = n
         /\ (batch'.load[li].done <=> ~found) /\ (batch'.load[li].error <=> ~found)
    <2>1. li \in Int /\ li = Len(batch.load) + 1 /\ li \notin 1..Len(batch.load)
      BY <1>1
    <2>2. batch'.load[li] = entry
      BY <1>7
    <2>3. entry.s = s /\ entry.e = e /\ entry.pending = n /\ entry.done = ~found /\ entry.error = ~found
      OBVIOUS
    <2> HIDE DEF li, entry
    <2> QED BY <2>1, <2>2, <2>3
  <1> HIDE DEF li, entry
  <1>10. Taken' = 0 /\ Len(cq') = 0 /\ flight' = {}
    BY <1>1, <1>2, <1>4, <1>8, <1>9 DEF Taken
  <1>11. \A k \in 1..Len(sq') : sq'[k].tag = k
    <2> SUFFICES ASSUME NEW k \in 1..Len(sq') PROVE sq'[k].tag = k
      OBVIOUS
    <2>1. CASE k \in 1..Len(sq)
      <3>1. sq[k].tag = Taken + k /\ k \in Int
        BY <2>1 DEF RingIsRight, TagsAreRight
      <3> QED BY <3>1, <2>1, <1>1, <1>9
    <2>2. CASE k \notin 1..Len(sq)
      <3>1. k \in (Len(sq) + 1)..(Len(sq) + n)
        BY <2>2, <1>1, <1>2, <1>9
      <3> QED BY <3>1, <1>9, Zenon
    <2> QED BY <2>1, <2>2
  <1>12. TagsAreRight'
    <2>1. \A k \in 1..Len(sq') : k \in Int /\ sq'[k].tag = Taken' + k
      BY <1>10, <1>11
    <2> QED BY <2>1, <1>1, <1>2, <1>8, <1>9, <1>10 DEF TagsAreRight
  <1>13. Open' = Open \cup {sq'[k] : k \in (Len(sq) + 1)..(Len(sq) + n)}
    <2>1. Open' = {sq'[k] : k \in 1..Len(sq')}
      <3>1. ToSet(sq') = {sq'[k] : k \in 1..Len(sq')}
        BY LenProperties DEF UringTyped, ToSet
      <3> QED BY <3>1, <1>10 DEF Open
    <2>2. 1..Len(sq') = 1..Len(sq) \cup (Len(sq) + 1)..(Len(sq) + n)
      BY <1>1, <1>2, <1>9
    <2>3. \A k \in 1..Len(sq) : sq'[k] = sq[k]
      BY <1>9
    <2>4. Open = {sq'[k] : k \in 1..Len(sq)}
      BY <2>3, <1>2
    <2> QED BY <2>1, <2>2, <2>4
  <1>14. \A i \in 1..Len(batch.load) : batch.load[i].s # s
    BY <1>1, <1>4 DEF LoadsOf
  <1>15. ReadsAreOfLoads'
    <2> SUFFICES ASSUME NEW x \in Open'
                 PROVE  LET l == batch'.load[batch'.req[x.tag]] IN l.s = x.s /\ l.e = x.e
      BY DEF ReadsAreOfLoads
    <2>1. CASE x \in Open
      <3>1. x.tag \in 1..Len(batch.req) /\ batch.req[x.tag] \in 1..Len(batch.load)
        BY <2>1, OpenIsOutstanding DEF RingIsRight
      <3>2. batch'.load[batch'.req[x.tag]] = batch.load[batch.req[x.tag]]
        BY <3>1, <1>7, <1>8
      <3> QED BY <2>1, <3>2 DEF RingIsRight, ReadsAreOfLoads
    <2>2. CASE x \notin Open
      <3>1. PICK k \in (Len(sq) + 1)..(Len(sq) + n) : x = sq'[k]
        BY <2>2, <1>13
      <3>2. x.tag = k /\ x.s = s /\ x.e = e /\ batch'.req[k] = li
        <4>1. x.tag = k /\ x.s = s /\ x.e = e
          BY <3>1, <1>9, Zenon
        <4>2. k \in (Len(batch.req) + 1)..(Len(batch.req) + n)
          BY <1>2
        <4> QED BY <4>1, <4>2, <1>8
      <3> QED BY <3>2, <1>24
    <2> QED BY <2>1, <2>2
  <1>16. /\ \A i \in 1..Len(batch.load) : Outstanding(i)' = Outstanding(i)
         /\ \A i : i = li => Outstanding(i)' = (Len(batch.req) + 1)..(Len(batch.req) + n)
    <2>1. \A i : Outstanding(i)' = {t \in 1..(Len(batch.req) + n) : batch'.req[t] = i}
      <3>1. \A t \in 1..(Len(batch.req) + n) : t > Taken'
        BY <1>10
      <3> QED BY <3>1, <1>8 DEF Outstanding
    <2>2. \A i : Outstanding(i) = {t \in 1..Len(batch.req) : batch.req[t] = i}
      <3>1. \A t \in 1..Len(batch.req) : t > Taken
        BY <1>1
      <3> QED BY <3>1 DEF Outstanding
    <2>3. 1..(Len(batch.req) + n) = 1..Len(batch.req) \cup (Len(batch.req) + 1)..(Len(batch.req) + n)
      BY <1>1
    <2>4. \A t \in 1..Len(batch.req) : batch.req[t] # li
      BY <1>24, RingTypes
    <2>5. \A i \in 1..Len(batch.load) : i # li
      BY <1>24
    <2>6. ASSUME NEW i \in 1..Len(batch.load) PROVE Outstanding(i)' = Outstanding(i)
      <3>1. \A t \in (Len(batch.req) + 1)..(Len(batch.req) + n) : batch'.req[t] # i
        BY <1>8, <2>5
      <3> QED BY <3>1, <2>1, <2>2, <2>3, <1>8
    <2>7. ASSUME NEW i, i = li PROVE Outstanding(i)' = (Len(batch.req) + 1)..(Len(batch.req) + n)
      <3>1. \A t \in 1..Len(batch.req) : batch'.req[t] # li
        BY <1>8, <2>4
      <3>2. Outstanding(i)' = {t \in 1..(Len(batch.req) + n) : batch'.req[t] = li}
        BY <2>1, <2>7
      <3>3. \A t \in (Len(batch.req) + 1)..(Len(batch.req) + n) : batch'.req[t] = li
        BY <1>8
      <3>4. \A t \in 1..(Len(batch.req) + n) :
                batch'.req[t] = li <=> t \in (Len(batch.req) + 1)..(Len(batch.req) + n)
        BY <3>1, <3>3, <2>3
      <3> QED BY <3>2, <3>4, <2>3
    <2> QED BY <2>6, <2>7
  <1>17. \A i \in 1..li : i \in 1..Len(batch.load) \/ i = li
    BY <1>1, <1>24
  <1>18. CountsAreRight'
    <2>1. Cardinality((Len(batch.req) + 1)..(Len(batch.req) + n)) = n
      <3>1. Len(batch.req) + 1 \in Int /\ Len(batch.req) + n \in Int
        BY <1>1
      <3>2. Cardinality((Len(batch.req) + 1)..(Len(batch.req) + n))
              = IF Len(batch.req) + 1 > Len(batch.req) + n THEN 0
                ELSE (Len(batch.req) + n) - (Len(batch.req) + 1) + 1
        BY <3>1, FS_Interval
      <3> QED BY <3>2, <1>1
    <2>2. ~found <=> (Len(batch.req) + 1)..(Len(batch.req) + n) = {}
      <3>1. CASE found
        <4>1. Len(batch.req) + 1 \in (Len(batch.req) + 1)..(Len(batch.req) + n)
          BY <3>1, <1>1, <1>3 DEF n
        <4> QED BY <3>1, <4>1
      <3>2. CASE ~found
        BY <3>2, <1>1 DEF n
      <3> QED BY <3>1, <3>2
    <2> SUFFICES ASSUME NEW i \in 1..li
                 PROVE  /\ batch'.load[i].pending = Cardinality(Outstanding(i)')
                        /\ batch'.load[i].done <=> Outstanding(i)' = {}
      BY <1>7 DEF CountsAreRight
    <2>3. CASE i = li
      <3>1. Outstanding(i)' = (Len(batch.req) + 1)..(Len(batch.req) + n)
        BY <2>3, <1>16, Zenon
      <3>2. Cardinality(Outstanding(i)') = n
        BY <3>1, <2>1, Zenon
      <3>3. ~found <=> Outstanding(i)' = {}
        BY <3>1, <2>2, Zenon
      <3> QED BY <2>3, <3>2, <3>3, <1>24
    <2>4. CASE i \in 1..Len(batch.load)
      <3>1. batch'.load[i] = batch.load[i] /\ Outstanding(i)' = Outstanding(i)
        BY <2>4, <1>7, <1>16
      <3> QED BY <2>4, <3>1, Zenon DEF RingIsRight, CountsAreRight
    <2> QED BY <2>3, <2>4, <1>17
  <1>19. /\ slot \in [Slabs -> SlotType]
         /\ \A t \in Slabs : slot'[t].cell = slot[t].cell /\ (t # s => slot'[t] = slot[t])
    BY <1>4 DEF UringTyped, SlotType
  <1>20. CellsAreRight'
    <2> SUFFICES ASSUME NEW i \in 1..li, NEW r \in 1..Reads
                 PROVE  \/ batch'.load[i].error
                        \/ slot'[batch'.load[i].s].cell[r] = batch'.load[i].e
                        \/ \E x \in Open' : x.s = batch'.load[i].s /\ x.r = r
      BY <1>7 DEF CellsAreRight
    <2>1. CASE i \in 1..Len(batch.load)
      <3>1. batch.load[i].s \in Slabs
        BY <2>1, RingTypes DEF LoadEntry
      <3>2. \/ batch.load[i].error
            \/ slot[batch.load[i].s].cell[r] = batch.load[i].e
            \/ \E x \in Open : x.s = batch.load[i].s /\ x.r = r
        BY <2>1, <1>2 DEF RingIsRight, CellsAreRight
      <3> QED BY <2>1, <3>1, <3>2, <1>7, <1>13, <1>19
    <2>2. CASE i = li /\ found
      <3>1. Len(sq) + r \in (Len(sq) + 1)..(Len(sq) + n)
        BY <2>2, <1>1, <1>2, <1>3 DEF n
      <3>2. sq'[Len(sq) + r].s = s /\ sq'[Len(sq) + r].r = r
        <4>1. sq'[Len(sq) + r].s = s /\ sq'[Len(sq) + r].r = (Len(sq) + r) - Len(sq)
          BY <3>1, <1>9, Zenon
        <4>2. (Len(sq) + r) - Len(sq) = r
          BY <1>1, <1>2
        <4> QED BY <4>1, <4>2
      <3>3. sq'[Len(sq) + r] \in Open'
        BY <3>1, <1>13
      <3> QED BY <3>2, <3>3, <2>2, <1>24
    <2>3. CASE i = li /\ ~found
      BY <2>3, <1>24
    <2> QED BY <2>1, <2>2, <2>3, <1>17
  <1>21. SlotsDiffer'
    <2> SUFFICES ASSUME NEW i \in 1..li, NEW j \in 1..li, batch'.load[i].s = batch'.load[j].s PROVE i = j
      BY <1>7 DEF SlotsDiffer
    <2>1. CASE i \in 1..Len(batch.load) /\ j \in 1..Len(batch.load)
      BY <2>1, <1>7 DEF RingIsRight, SlotsDiffer
    <2>2. CASE i \in 1..Len(batch.load) /\ j = li
      BY <2>2, <1>7, <1>14, <1>24
    <2>3. CASE i = li /\ j \in 1..Len(batch.load)
      BY <2>3, <1>7, <1>14, <1>24
    <2> QED BY <2>1, <2>2, <2>3, <1>17
  <1>22. PhasesAreRight'
    BY <1>1, <1>3, <1>24, <1>6, <1>7, <1>8, <1>10 DEF PhasesAreRight
  <1>23. ShownAreWhole'
    <2>1. Owned \subseteq Owned'
      BY <1>1, <1>6, <1>7 DEF Owned
    <2>2. s \in Owned'
      <3>1. li \in DOMAIN batch'.load /\ batch'.load[li].s = s
        BY <1>1, <1>7, <1>24
      <3> QED BY <3>1, <1>6 DEF Owned
    <2>3. \A t \in Slabs \ Owned' : slot'[t] = slot[t] /\ t \notin Owned
      BY <2>1, <2>2, <1>19
    <2> QED BY <2>3 DEF ShownAreWhole, RingIsRight
  <1> QED BY <1>12, <1>15, <1>18, <1>20, <1>21, <1>22, <1>23 DEF RingIsRight

LEMMA RingStep == RingInv /\ [UringNext]_uringVars => RingInv'
  <1> SUFFICES ASSUME RingInv, [UringNext]_uringVars PROVE RingInv'
    OBVIOUS
  <1>1. UringTyped /\ UringTyped'
    BY UringTypes DEF RingInv
  <1> SUFFICES ASSUME ~broken', ~exited' PROVE RingIsRight'
    BY <1>1 DEF RingInv
  <1>2. CASE UNCHANGED uringVars
    <2>1. RingIsRight
      BY <1>2 DEF RingInv, uringVars
    <2>2. UNCHANGED <<batch, sq, flight, cq, slot>>
      BY <1>2 DEF uringVars
    <2>3. Taken' = Taken /\ Open' = Open /\ Owned' = Owned /\ \A i : Outstanding(i)' = Outstanding(i)
      BY <2>2 DEF Taken, Open, Owned, Outstanding
    <2>4. TagsAreRight' /\ ReadsAreOfLoads' /\ SlotsDiffer' /\ PhasesAreRight' /\ ShownAreWhole'
      BY <2>1, <2>2, <2>3 DEF RingIsRight, TagsAreRight, ReadsAreOfLoads, SlotsDiffer, PhasesAreRight, ShownAreWhole
    <2>5. CountsAreRight' /\ CellsAreRight'
      BY <2>1, <2>2, <2>3 DEF RingIsRight, CountsAreRight, CellsAreRight
    <2> QED BY <2>4, <2>5 DEF RingIsRight
  <1>3. CASE UringNext
    <2>1. ~broken
      BY <1>3 DEF UringNext, BeginBatch, Add, SubmitBatch, SubmitFails, Complete, WaitEnters, WaitReaps,
         WaitFails, Finalize, EndBatch
    <2>2. ~exited
      BY <1>3 DEF UringNext, BeginBatch, Add, SubmitBatch, SubmitFails, Complete, WaitEnters, WaitReaps,
         WaitFails, Finalize, EndBatch, IsFinalizing
    <2>3. RingIsRight
      BY <2>1, <2>2 DEF RingInv
    <2>4. CASE BeginBatch
      BY <2>3, <2>4, <1>1, BeginsRight
    <2>5. CASE \E e \in Names, s \in Slabs, found \in BOOLEAN : Add(e, s, found)
      BY <2>3, <2>5, <1>1, AddsRight
    <2>6. CASE \E n \in 0..Len(sq) : SubmitBatch(n)
      BY <2>3, <2>6, <1>1, SubmitsRight
    <2>7. CASE \E read \in flight, full \in BOOLEAN : Complete(read, full)
      BY <2>3, <2>7, <1>1, CompletesRight
    <2>8. CASE \E n \in 1..Len(sq) : WaitEnters(n)
      BY <2>3, <2>8, <1>1, EntersRight
    <2>9. CASE WaitReaps
      BY <2>3, <2>9, <1>1, ReapsRight
    <2>10. CASE SubmitFails \/ WaitFails
      BY <2>10 DEF SubmitFails, WaitFails
    <2>11. CASE Finalize
      BY <2>3, <2>11, <1>1, FinalizesRight
    <2>12. CASE EndBatch
      BY <2>3, <2>12, <1>1, EndsRight
    <2> QED BY <1>3, <2>4, <2>5, <2>6, <2>7, <2>8, <2>9, <2>10, <2>11, <2>12 DEF UringNext
  <1> QED BY <1>2, <1>3

LEMMA RingInvIsEnough == RingInv => BatchOwnsItsReads
  <1> SUFFICES ASSUME RingInv PROVE BatchOwnsItsReads
    OBVIOUS
  <1>1. UringTyped
    BY DEF RingInv
  <1>2. UringTypeOK
    <2>1. /\ batch.at \in {"idle", "add", "final"} /\ batch.n \in 0..MaxBatches
          /\ Len(batch.load) <= LoadMax /\ Len(batch.req) <= ReqMax
      BY <1>1 DEF UringTyped, BatchTyped
    <2>2. \A i \in DOMAIN batch.req : batch.req[i] \in DOMAIN batch.load
      BY <1>1, RingTypes
    <2>3. ToSet(sq) \subseteq ReadOf
      BY <1>1, RingTypes
    <2>4. \A s \in Slabs : slot[s].eid.is \in {"hidden", "reserved", "public"}
      BY <1>1 DEF UringTyped, SlotType, Label
    <2> QED BY <1>1, <2>1, <2>2, <2>3, <2>4 DEF UringTypeOK, UringTyped
  <1>3. ASSUME ~broken, ~exited, NEW read \in flight \union ToSet(sq) PROVE read.s \in Owned
    <2>0. RingIsRight
      BY <1>3 DEF RingInv
    <2> DEFINE o == batch.req[read.tag]
    <2>1. read \in Open /\ o \in 1..Len(batch.load) /\ read.tag \in Outstanding(o)
      BY <1>1, <2>0, OpenIsOutstanding DEF Open, RingIsRight
    <2>2. batch.load[o].s = read.s /\ ~batch.load[o].done
      BY <2>0, <2>1 DEF RingIsRight, ReadsAreOfLoads, CountsAreRight
    <2>3. o >= batch.final /\ o \in DOMAIN batch.load
      BY <2>0, <2>1, <2>2, <1>1, RingTypes DEF RingIsRight, PhasesAreRight
    <2> QED BY <2>2, <2>3 DEF Owned
  <1>4. ~broken /\ ~exited => \A s \in Slabs \ Owned : slot[s].eid.is = "public" =>
            \A r \in 1..Reads : slot[s].cell[r] = slot[s].eid.e
    BY DEF RingInv, RingIsRight, ShownAreWhole
  <1> QED BY <1>2, <1>3, <1>4 DEF BatchOwnsItsReads

(* pilot_uring_batch, and a block of misses: whatever order the kernel ends  *)
(* the reads of a batch in, and however many of them it takes at a time, a   *)
(* slot that shows an expert holds all its reads, and none is still to come. *)
THEOREM ReadsAreOwned == UringSpec => []BatchOwnsItsReads
  <1>1. UringInit => RingInv
    BY RingStart
  <1>2. RingInv /\ [UringNext]_uringVars => RingInv'
    BY RingStep
  <1>3. RingInv => BatchOwnsItsReads
    BY RingInvIsEnough
  <1> QED BY <1>1, <1>2, <1>3, PTL DEF UringSpec
=============================================================================
