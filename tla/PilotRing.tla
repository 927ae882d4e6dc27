------------------------------ MODULE PilotRing ------------------------------
(***************************************************************************)
(* The ring of prefetch hints of c/colibri.c (pilot_q, pilot_r, pilot_w).  *)
(* The main thread pushes without a lock.  Without io_uring, the pilot     *)
(* threads read an element first and claim it afterwards, by an exchange   *)
(* on pilot_r; with io_uring one thread drains a batch and then stores     *)
(* pilot_r.  Every load, store and exchange of a shared word is a step.    *)
(*                                                                         *)
(* Indices are unsigned and wrap.  Wrap stands for 2^32; a thread never    *)
(* sleeps for Wrap claims, which MaxHints < Wrap makes a bound.            *)
(***************************************************************************)
EXTENDS Naturals, Sequences, SequencesExt

CONSTANTS Workers,   \* the pilot threads
          Size,      \* elements of pilot_q (4096)
          Wrap,      \* values of an unsigned
          BatchMax,  \* URING_LOAD_MAX
          MaxHints   \* hints the main thread has; the bound of the model

ASSUME PilotRingAssumption ==
    /\ Workers # {}
    /\ Size \in Nat \ {0} /\ BatchMax \in Nat \ {0}
    /\ MaxHints \in Nat
    /\ Wrap \in Nat /\ Wrap > MaxHints /\ Wrap > Size /\ Wrap % Size = 0

VARIABLES
    ring,    \* q: the elements (layer and expert, apart), r and w
    main,    \* the producer: its step, and the number of the hint it has
    worker,  \* each pilot thread: its step and its local variables
    uring,   \* g_uring: one thread, which drains batches
    pushed, taken  \* histories: hints published, hints a thread goes on to load

vars == <<ring, main, worker, uring, pushed, taken>>

Index == 0..(Wrap - 1)
Succ(i) == (i + 1) % Wrap
At(i) == i % Size
Started == IF uring THEN {CHOOSE p \in Workers : TRUE} ELSE Workers

\* The hint number n is about layer n and expert n, so that a torn one shows.
Init ==
    \E first \in {0, Wrap - Size} :
        /\ ring = [q |-> [i \in 0..(Size - 1) |-> [l |-> 0, e |-> 0]], r |-> first, w |-> first]
        /\ main = [at |-> "ready", hint |-> 1]
        /\ worker = [p \in Workers |-> [at |-> "load_r", r |-> 0, w |-> 0, l |-> 0, e |-> 0, n |-> 0]]
        /\ uring \in BOOLEAN
        /\ pushed = <<>> /\ taken = <<>>

----------------------------------------------------------------------------
(* pilot_prefetch and couple_prefetch, on the main thread.                 *)

\* Mutant: one element too many.
RoomPlusOne == (ring.w + Wrap - ring.r) % Wrap <= Size

Room == (ring.w + Wrap - ring.r) % Wrap < Size

\* A full ring drops the hint.
Offer ==
    /\ main.at = "ready" /\ main.hint <= MaxHints
    /\ main' = IF Room THEN [main EXCEPT !.at = "store_l"] ELSE [main EXCEPT !.hint = @ + 1]
    /\ UNCHANGED <<ring, worker, uring, pushed, taken>>

StoreLayer ==
    /\ main.at = "store_l"
    /\ ring' = [ring EXCEPT !.q[At(ring.w)].l = main.hint]
    /\ main' = [main EXCEPT !.at = "store_e"]
    /\ UNCHANGED <<worker, uring, pushed, taken>>

StoreExpert ==
    /\ main.at = "store_e"
    /\ ring' = [ring EXCEPT !.q[At(ring.w)].e = main.hint]
    /\ main' = [main EXCEPT !.at = "store_w"]
    /\ UNCHANGED <<worker, uring, pushed, taken>>

StoreW ==
    /\ main.at = "store_w"
    /\ ring' = [ring EXCEPT !.w = Succ(@)]
    /\ main' = [at |-> "ready", hint |-> main.hint + 1]
    /\ pushed' = Append(pushed, main.hint)
    /\ UNCHANGED <<worker, uring, taken>>

----------------------------------------------------------------------------
(* A pilot thread: pilot_worker with pilot_ring_claim, or with the loop of *)
(* pilot_uring_batch over the ring.                                        *)
Goto(p, at, self) == worker' = [worker EXCEPT ![p] = [self EXCEPT !.at = at]]

LoadR(p) ==
    /\ worker[p].at = "load_r"
    /\ Goto(p, "load_w", [worker[p] EXCEPT !.r = ring.r, !.n = 0])
    /\ UNCHANGED <<ring, main, uring, pushed, taken>>

LoadW(p) ==
    /\ worker[p].at = "load_w"
    /\ Goto(p, IF worker[p].r = ring.w THEN "load_r" ELSE "load_l", [worker[p] EXCEPT !.w = ring.w])
    /\ UNCHANGED <<ring, main, uring, pushed, taken>>

LoadL(p) ==
    /\ worker[p].at = "load_l"
    /\ Goto(p, "load_e", [worker[p] EXCEPT !.l = ring.q[At(worker[p].r)].l])
    /\ UNCHANGED <<ring, main, uring, pushed, taken>>

LoadE(p) ==
    /\ worker[p].at = "load_e" /\ ~uring
    /\ Goto(p, "cas", [worker[p] EXCEPT !.e = ring.q[At(worker[p].r)].e])
    /\ UNCHANGED <<ring, main, uring, pushed, taken>>

Take(l, e) == taken' = Append(taken, IF l = e THEN l ELSE 0)

\* Mutant: the claim is a plain store.
ClaimByStore(p) ==
    /\ worker[p].at = "cas"
    /\ ring' = [ring EXCEPT !.r = Succ(worker[p].r)]
    /\ Take(worker[p].l, worker[p].e)
    /\ Goto(p, "load_r", worker[p])
    /\ UNCHANGED <<main, uring, pushed>>

Claim(p) ==
    /\ worker[p].at = "cas"
    /\ ring.r = worker[p].r
    /\ ring' = [ring EXCEPT !.r = Succ(@)]
    /\ Take(worker[p].l, worker[p].e)
    /\ Goto(p, "load_r", worker[p])
    /\ UNCHANGED <<main, uring, pushed>>

\* The exchange is weak: it may fail on an equal value too.
ClaimFails(p) ==
    /\ worker[p].at = "cas"
    /\ Goto(p, "load_r", worker[p])
    /\ UNCHANGED <<ring, main, uring, pushed, taken>>

\* An element of a batch is acted on at once, before pilot_r moves; it counts
\* when it adds a load to the batch.
DrainOne(p) ==
    /\ worker[p].at = "load_e" /\ uring
    /\ Take(worker[p].l, ring.q[At(worker[p].r)].e)
    /\ LET r == Succ(worker[p].r)
       IN \E n \in {worker[p].n, worker[p].n + 1} :
              Goto(p, IF r # worker[p].w /\ n < BatchMax THEN "load_l" ELSE "store_r",
                   [worker[p] EXCEPT !.r = r, !.n = n])
    /\ UNCHANGED <<ring, main, uring, pushed>>

StoreR(p) ==
    /\ worker[p].at = "store_r"
    /\ ring' = [ring EXCEPT !.r = worker[p].r]
    /\ Goto(p, "load_r", worker[p])
    /\ UNCHANGED <<main, uring, pushed, taken>>

----------------------------------------------------------------------------
Main == Offer \/ StoreLayer \/ StoreExpert \/ StoreW

Pilot(p) ==
    \/ LoadR(p) \/ LoadW(p) \/ LoadL(p) \/ LoadE(p)
    \/ Claim(p) \/ ClaimFails(p)
    \/ DrainOne(p) \/ StoreR(p)

Next == Main \/ \E p \in Started : Pilot(p)

Spec == Init /\ [][Next]_vars

----------------------------------------------------------------------------
TypeOK ==
    /\ ring \in [q : [0..(Size - 1) -> [l : 0..MaxHints, e : 0..MaxHints]], r : Index, w : Index]
    /\ main \in [at : {"ready", "store_l", "store_e", "store_w"}, hint : 1..(MaxHints + 1)]
    /\ worker \in [Workers -> [at : {"load_r", "load_w", "load_l", "load_e", "cas", "store_r"},
                               r : Index, w : Index,
                               l : 0..MaxHints, e : 0..MaxHints, n : 0..BatchMax]]
    /\ uring \in BOOLEAN

\* pilot_w stays within Size of pilot_r, across the wrap of the indices.
RingIsNotOverrun ==
    LET waiting == (ring.w + Wrap - ring.r) % Wrap IN
    /\ waiting <= Size
    /\ ~uring => waiting = Len(pushed) - Len(taken)

(* Every hint that was published is loaded once at most, in order, and     *)
(* none is made of two (the comment in pilot_ring_claim): an element read  *)
(* before the claim is the one that is claimed.                            *)
HintsAreTakenInOrder == RingIsNotOverrun /\ IsPrefix(taken, pushed)
=============================================================================
