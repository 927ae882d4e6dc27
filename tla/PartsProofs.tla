----------------------------- MODULE PartsProofs -----------------------------
(***************************************************************************)
(* The cluster balancer, for any number of requests and of backends, any   *)
(* time to live of a cached answer and any timeout of a probe; and the hot *)
(* store, for any layers, experts and devices, whatever each has room for. *)
(*                                                                         *)
(* Balancer: the inductive invariant follows the age of every answer a     *)
(* thread holds: the last one was stored for less than the time to live,   *)
(* or is new, and every later backend adds one timeout to it at most,      *)
(* because time passes for a thread only while it probes.  A cached entry  *)
(* has the time its question was asked, never after its answer, so that it *)
(* expires in time whichever thread stores last.  That a choice is the     *)
(* head of the sort, and that there is one when some backend answered, is  *)
(* the least element of three keys in turn.                                *)
(*                                                                         *)
(* HotStore: while pin_load works, every pin is at a place of the ranking, *)
(* and those at places it has passed can be used; what a device holds and  *)
(* what pin_load believes it has left never exceed what it had, and a pass *)
(* maps the copies of a device one to one to those it had.  An expert that *)
(* was evicted and not used since is no hotter than any pin of its layer:  *)
(* halving keeps that, and admission asks for more.                        *)
(***************************************************************************)
EXTENDS Balancer, HotStore, TLAPS, FiniteSetTheorems, SequenceTheorems, WellFoundedInduction

----------------------------------------------------------------------------
(* The balancer.                                                           *)


N == Len(Backends)

(* An answer that is the j-th of k is that old at most. *)
Young(scored, time) ==
    \A j \in 1..Len(scored) : time - scored[j].at < HealthTtl + ProbeTimeout * (Len(scored) - j)

Best(scored, k) == scored[k].up /\ ~\E j \in 1..N : scored[j].up /\ IsBetter(scored[j], scored[k])

\* What a thread knows at the time it is: the answers so far are young, were
\* when it sent the probe it waits for, and are kept until the choice is used.
Informed(t, time) ==
    /\ t.pc \in {"ask", "probe"} => t.asked = Len(t.scored) + 1
    /\ t.pc \in {"ask", "pick"} => Young(t.scored, time)
    /\ t.pc = "probe" => /\ t.since <= time /\ time <= t.since + ProbeTimeout
                         /\ Young(t.scored, t.since)
    /\ t.pc \in {"pick", "forward", "unavailable"} => Len(t.scored) = N
    /\ t.pc = "forward" => \E k \in 1..N : t.backend = Backends[k] /\ Best(t.scored, k)
    /\ t.pc = "unavailable" => \A k \in 1..N : ~t.scored[k].up
    /\ t.pc = "stream" => t.heads = 1

\* An entry has the time of its question, which is not after its answer.
CacheIsHonest == \A b \in Nodes : cache[b].time <= cache[b].health.at

\* A backend that is up serves, or keeps in its queue, what it was sent.
Streams(b) == {r \in Requests : thread[r].pc = "stream" /\ thread[r].backend = b}
NodesCount ==
    \A b \in Nodes : IF node[b].up THEN Cardinality(Streams(b)) = node[b].active + node[b].queued
                     ELSE node[b].active = 0 /\ node[b].queued = 0
----------------------------------------------------------------------------
(* Multiples of the timeout of a probe. *)
LEMMA Timeouts ==
    \A k \in Nat : /\ ProbeTimeout * k \in Nat
                   /\ ProbeTimeout * (k + 1) = ProbeTimeout * k + ProbeTimeout
                   /\ \A j \in Nat : j <= k => ProbeTimeout * j <= ProbeTimeout * k
  BY BalancerAssumption

(* There is a backend, and every one is a node. *)
LEMMA NodesAreBackends ==
    /\ N \in Nat \ {0}
    /\ \A k \in 1..N : Backends[k] \in Nodes
  BY BalancerAssumption DEF Nodes, Range, N

(* BackendPool.health: one more answer makes the others one timeout older at *)
(* most. *)
LEMMA Appending ==
    ASSUME NEW scored \in Seq(Health), NEW h \in Health, NEW time \in Nat, NEW later \in Nat,
           Young(scored, time), time <= later, later <= time + ProbeTimeout,
           later - h.at < HealthTtl
    PROVE  /\ Append(scored, h) \in Seq(Health) /\ Len(Append(scored, h)) = Len(scored) + 1
           /\ Young(Append(scored, h), later)
  <1> DEFINE new == Append(scored, h)
  <1> USE BalancerAssumption
  <1>1. /\ new \in Seq(Health) /\ Len(new) = Len(scored) + 1 /\ Len(scored) \in Nat
        /\ new[Len(scored) + 1] = h
        /\ \A j \in 1..Len(scored) : new[j] = scored[j] /\ scored[j] \in Health
    OBVIOUS
  <1>3. \A g \in Health : g.at \in Nat
    BY DEF Health
  <1>2. ASSUME NEW j \in 1..Len(new)
        PROVE  later - new[j].at < HealthTtl + ProbeTimeout * (Len(new) - j)
    <2>1. CASE j = Len(scored) + 1
      <3>1. Len(new) - j = 0 /\ new[j] = h
        BY <2>1, <1>1
      <3> DEFINE none == ProbeTimeout * 0
      <3>2. none \in Nat /\ h.at \in Nat
        BY <1>3, Timeouts
      <3>3. later - h.at < HealthTtl + none
        <4> HIDE DEF none
        <4> QED BY <3>2
      <3>4. ProbeTimeout * (Len(new) - j) = none
        BY <3>1
      <3> HIDE DEF none
      <3> QED BY <3>1, <3>3, <3>4
    <2>2. CASE j \in 1..Len(scored)
      <3>1. time - scored[j].at < HealthTtl + ProbeTimeout * (Len(scored) - j)
        BY <2>2 DEF Young
      <3>2. /\ Len(scored) - j \in Nat
            /\ ProbeTimeout * (Len(new) - j) = ProbeTimeout * (Len(scored) - j) + ProbeTimeout
            /\ ProbeTimeout * (Len(scored) - j) \in Nat
        <4>1. Len(scored) - j \in Nat /\ Len(new) - j = (Len(scored) - j) + 1
          BY <2>2, <1>1
        <4> QED BY <4>1, Timeouts
      <3> QED BY <3>1, <3>2, <2>2, <1>1, <1>3
    <2> QED BY <2>1, <2>2, <1>1
  <1> QED BY <1>1, <1>2 DEF Young

(* With the health of the next backend a thread asks the one after it, or   *)
(* chooses, and what it knows is as young as it should be.                  *)
LEMMA HealthKnown ==
    ASSUME NEW t, NEW h \in Health, NEW time \in Nat, NEW later \in Nat,
           t \in [pc : Phases, asked : 0..N, since : Nat, scored : Seq(Health), heads : 0..2, backend : Nodes],
           t.asked = Len(t.scored) + 1,
           Young(t.scored, time), time <= later, later <= time + ProbeTimeout,
           later - h.at < HealthTtl
    PROVE  /\ WithHealth(t, h) \in [pc : Phases, asked : 0..N, since : Nat, scored : Seq(Health), heads : 0..2,
                                    backend : Nodes]
           /\ Len(WithHealth(t, h).scored) <= N
           /\ WithHealth(t, h).pc \in {"ask", "pick"}
           /\ Informed(WithHealth(t, h), later)
  <1> DEFINE new == WithHealth(t, h)
  <1>1. /\ t.scored \in Seq(Health) /\ t.asked \in 0..N /\ Len(t.scored) \in Nat /\ N \in Nat
        /\ t.heads \in 0..2 /\ t.backend \in Nodes
    BY BalancerAssumption DEF N
  <1>2. /\ Append(t.scored, h) \in Seq(Health) /\ Len(Append(t.scored, h)) = Len(t.scored) + 1
        /\ Young(Append(t.scored, h), later)
    BY <1>1, Appending
  <1>3. new = [t EXCEPT !.pc = IF t.asked = N THEN "pick" ELSE "ask",
                        !.asked = IF @ = N THEN 0 ELSE @ + 1, !.since = 0, !.scored = Append(t.scored, h)]
    BY DEF WithHealth, N
  <1>4. /\ new.pc = (IF t.asked = N THEN "pick" ELSE "ask")
        /\ new.asked = (IF t.asked = N THEN 0 ELSE t.asked + 1)
        /\ new.since = 0 /\ new.scored = Append(t.scored, h)
        /\ new.heads = t.heads /\ new.backend = t.backend
    BY <1>3
  <1>5. new \in [pc : Phases, asked : 0..N, since : Nat, scored : Seq(Health), heads : 0..2, backend : Nodes]
    <2>1. (IF t.asked = N THEN "pick" ELSE "ask") \in Phases
      BY DEF Phases
    <2>2. (IF t.asked = N THEN 0 ELSE t.asked + 1) \in 0..N
      BY <1>1
    <2>3. new = [pc |-> IF t.asked = N THEN "pick" ELSE "ask", asked |-> IF t.asked = N THEN 0 ELSE t.asked + 1,
                 since |-> 0, scored |-> Append(t.scored, h), heads |-> t.heads, backend |-> t.backend]
      BY <1>3
    <2> QED BY <1>1, <1>2, <2>1, <2>2, <2>3
  <1> QED BY <1>1, <1>2, <1>4, <1>5 DEF Informed
----------------------------------------------------------------------------
(* Who is best.                                                            *)

(* Every set of numbers that is not empty has a least one. *)
LEMMA LeastNumber ==
    ASSUME NEW S \in SUBSET Nat, S # {}
    PROVE  \E n \in S : \A m \in S : n <= m
  <1>1. PICK n \in S : \A m \in S : ~(<<m, n>> \in OpToRel(<, Nat))
    BY NatLessThanWellFounded, WFMin
  <1>2. \A m \in S : ~(m < n)
    BY <1>1 DEF OpToRel
  <1>3. \A m \in S : n <= m
    BY <1>2
  <1> QED BY <1>3

(* Among the answers of backends that are up, one is the head of the sort. *)
LEMMA SomeoneIsBest ==
    ASSUME NEW scored \in Seq(Health), NEW up \in 1..Len(scored), scored[up].up
    PROVE  Candidates(scored) # {}
  <1> DEFINE Up == {k \in 1..Len(scored) : scored[k].up}
             f(k) == Capacity - Free(scored[k])
             q(k) == scored[k].queued
             a(k) == scored[k].active
  <1>1. \A h \in Health : h.active \in Nat /\ h.queued \in Nat /\ Free(h) \in Nat /\ Capacity - Free(h) \in Nat
    BY BalancerAssumption DEF Health, Free
  <1>2. Up # {} /\ \A k \in Up : f(k) \in Nat /\ q(k) \in Nat /\ a(k) \in Nat /\ Free(scored[k]) \in Nat
    BY <1>1
  <1> HIDE DEF f, q, a
  <1>3. PICK k1 \in Up : \A k \in Up : f(k1) <= f(k)
    <2>1. PICK n \in {f(k) : k \in Up} : \A m \in {f(k) : k \in Up} : n <= m
      BY <1>2, LeastNumber
    <2> QED BY <2>1
  <1> DEFINE Up2 == {k \in Up : f(k) = f(k1)}
  <1>4. PICK k2 \in Up2 : \A k \in Up2 : q(k2) <= q(k)
    <2>1. {q(k) : k \in Up2} \in SUBSET Nat /\ {q(k) : k \in Up2} # {}
      BY <1>2
    <2>2. PICK n \in {q(k) : k \in Up2} : \A m \in {q(k) : k \in Up2} : n <= m
      BY <2>1, LeastNumber
    <2> QED BY <2>2
  <1> DEFINE Up3 == {k \in Up2 : q(k) = q(k2)}
  <1>5. PICK k3 \in Up3 : \A k \in Up3 : a(k3) <= a(k)
    <2>1. {a(k) : k \in Up3} \in SUBSET Nat /\ {a(k) : k \in Up3} # {}
      BY <1>2
    <2>2. PICK n \in {a(k) : k \in Up3} : \A m \in {a(k) : k \in Up3} : n <= m
      BY <2>1, LeastNumber
    <2> QED BY <2>2
  <1>6. ASSUME NEW j \in Up PROVE ~IsBetter(scored[j], scored[k3])
    <2>1. /\ f(k3) <= f(j)
          /\ f(j) = f(k3) => q(k3) <= q(j)
          /\ f(j) = f(k3) /\ q(j) = q(k3) => a(k3) <= a(j)
      BY <1>2, <1>3, <1>4, <1>5
    <2>2. /\ f(k3) = Capacity - Free(scored[k3]) /\ f(j) = Capacity - Free(scored[j])
          /\ q(k3) = scored[k3].queued /\ q(j) = scored[j].queued
          /\ a(k3) = scored[k3].active /\ a(j) = scored[j].active
      BY DEF f, q, a
    <2>3. Capacity \in Nat /\ Free(scored[k3]) \in Nat /\ Free(scored[j]) \in Nat
      BY <1>2, BalancerAssumption
    <2>4. /\ scored[k3].queued \in Nat /\ scored[k3].active \in Nat
          /\ scored[j].queued \in Nat /\ scored[j].active \in Nat
      BY <1>2, <2>2
    <2>5. Free(scored[j]) <= Free(scored[k3])
      BY <2>1, <2>2, <2>3
    <2>6. Free(scored[j]) = Free(scored[k3]) => scored[k3].queued <= scored[j].queued
      BY <2>1, <2>2, <2>3
    <2>7. Free(scored[j]) = Free(scored[k3]) /\ scored[j].queued = scored[k3].queued
            => scored[k3].active <= scored[j].active
      BY <2>1, <2>2, <2>3
    <2>8. ~(Free(scored[j]) > Free(scored[k3]))
      BY <2>3, <2>5
    <2>9. ~(Free(scored[j]) = Free(scored[k3]) /\ scored[j].queued < scored[k3].queued)
      BY <2>4, <2>6
    <2>10. ~(/\ Free(scored[j]) = Free(scored[k3]) /\ scored[j].queued = scored[k3].queued
             /\ scored[j].active < scored[k3].active)
      BY <2>4, <2>7
    <2> QED BY <2>8, <2>9, <2>10 DEF IsBetter
  <1>7. k3 \in Candidates(scored)
    <2>1. DOMAIN scored = 1..Len(scored)
      OBVIOUS
    <2> QED BY <1>6, <2>1 DEF Candidates
  <1> QED BY <1>7
----------------------------------------------------------------------------
(* The steps of a thread.                                                  *)

Threads == [pc : Phases, asked : 0..N, since : Nat, scored : Seq(Health), heads : 0..2, backend : Nodes]
ThreadsInv ==
    /\ now \in Nat
    /\ thread \in [Requests -> Threads]
    /\ \A r \in Requests : Len(thread[r].scored) <= N /\ Informed(thread[r], now)

(* A step of one thread that takes no time keeps what the others know. *)
LEMMA OneThreadMoves ==
    ASSUME ThreadsInv, NEW r \in Requests, NEW new \in Threads, Len(new.scored) <= N, Informed(new, now),
           thread' = [thread EXCEPT ![r] = new], now' = now
    PROVE  ThreadsInv'
  <1>1. thread' \in [Requests -> Threads]
    BY DEF ThreadsInv
  <1>2. ASSUME NEW s \in Requests
        PROVE  Len(thread'[s].scored) <= N /\ Informed(thread'[s], now)
    BY <1>2 DEF ThreadsInv
  <1> QED BY <1>1, <1>2 DEF ThreadsInv

(* Who is served where changes only with a thread that begins or ends to be. *)
LEMMA StreamsStay ==
    ASSUME ThreadsInv, NEW r \in Requests, NEW new \in Threads,
           thread' = [thread EXCEPT ![r] = new], thread[r].pc # "stream", new.pc # "stream"
    PROVE  \A b \in Nodes : Streams(b)' = Streams(b)
  BY DEF ThreadsInv, Streams

(* A handler that has not begun. *)
LEMMA IdleIsTyped == Idle \in Threads
  <1>1. Backends[1] \in Nodes /\ N \in Nat \ {0}
    BY NodesAreBackends
  <1>2. <<>> \in Seq(Health) /\ "idle" \in Phases
    BY DEF Phases
  <1> QED BY <1>1, <1>2 DEF Idle, Threads

(* A new request keeps what every thread knows. *)
LEMMA Arrives ==
    ASSUME BalancerTypeOK, ThreadsInv, NEW r \in Requests, Arrive(r)
    PROVE  ThreadsInv' /\ \A b \in Nodes : Streams(b)' = Streams(b)
  <1> DEFINE new == [Idle EXCEPT !.pc = "ask", !.asked = 1]
  <1>1. new \in Threads /\ new.pc = "ask" /\ new.asked = 1 /\ new.scored = <<>>
    <2>1. "ask" \in Phases /\ 1 \in 0..N
      BY NodesAreBackends DEF Phases
    <2>2. new \in Threads
      BY IdleIsTyped, <2>1 DEF Threads
    <2>3. new.pc = "ask" /\ new.asked = 1 /\ new.scored = <<>>
      BY IdleIsTyped DEF Idle
    <2> QED BY <2>2, <2>3
  <1>2. Informed(new, now) /\ Len(new.scored) <= N
    BY <1>1, NodesAreBackends DEF Informed, Young
  <1>3. thread' = [thread EXCEPT ![r] = new] /\ now' = now /\ thread[r].pc # "stream"
    BY DEF Arrive
  <1> HIDE DEF new
  <1> QED BY <1>1, <1>2, <1>3, OneThreadMoves, StreamsStay

(* BackendPool.health: so does a fresh entry of the cache. *)
LEMMA Asks ==
    ASSUME BalancerTypeOK, ThreadsInv, CacheIsHonest, NEW r \in Requests, FromCache(r)
    PROVE  ThreadsInv' /\ \A b \in Nodes : Streams(b)' = Streams(b)
  <1> DEFINE t == thread[r]
             h == cache[Asked(r)].health
             new == WithHealth(t, h)
  <1>1. /\ t \in Threads /\ t.pc = "ask" /\ Informed(t, now) /\ now \in Nat /\ Len(t.scored) <= N
    BY DEF FromCache, ThreadsInv
  <1>2. /\ t.asked = Len(t.scored) + 1 /\ Young(t.scored, now) /\ t.asked \in 1..N
    <2>1. t.asked = Len(t.scored) + 1 /\ Young(t.scored, now) /\ t.asked \in 0..N /\ t.scored \in Seq(Health)
      BY <1>1 DEF Informed, Threads
    <2> QED BY <2>1, NodesAreBackends
  <1>3. Asked(r) \in Nodes
    BY <1>2, NodesAreBackends DEF Asked
  <1>4. h \in Health /\ now - h.at < HealthTtl
    <2>1. /\ cache[Asked(r)].time \in Nat \cup {-1} /\ h \in Health
          /\ cache[Asked(r)].time <= h.at /\ now - cache[Asked(r)].time < HealthTtl
      BY <1>3 DEF BalancerTypeOK, CacheIsHonest, FromCache, IsFresh
    <2>2. h.at \in Nat /\ cache[Asked(r)].time \in Int /\ HealthTtl \in Nat
      BY <2>1, BalancerAssumption DEF Health
    <2>3. now - h.at <= now - cache[Asked(r)].time
      BY <2>1, <2>2, <1>1
    <2> QED BY <2>1, <2>2, <2>3, <1>1
  <1>5. /\ new \in Threads /\ Len(new.scored) <= N /\ new.pc # "stream" /\ Informed(new, now)
    <2>1. t \in [pc : Phases, asked : 0..N, since : Nat, scored : Seq(Health), heads : 0..2, backend : Nodes]
      BY <1>1 DEF Threads
    <2>2. now <= now /\ now <= now + ProbeTimeout
      BY <1>1, BalancerAssumption
    <2> HIDE DEF t, h
    <2>3. /\ WithHealth(t, h) \in Threads /\ Len(WithHealth(t, h).scored) <= N
          /\ WithHealth(t, h).pc \in {"ask", "pick"} /\ Informed(WithHealth(t, h), now)
      BY <1>1, <1>2, <1>4, <2>1, <2>2, HealthKnown DEF Threads
    <2> QED BY <2>3
  <1>6. thread' = [thread EXCEPT ![r] = new] /\ now' = now /\ thread[r].pc # "stream"
    BY DEF FromCache
  <1> HIDE DEF new
  <1> QED BY <1>5, <1>6, OneThreadMoves, StreamsStay

(* So does the sending of a probe. *)
LEMMA Probes ==
    ASSUME BalancerTypeOK, ThreadsInv, NEW r \in Requests, Probe(r)
    PROVE  ThreadsInv' /\ \A b \in Nodes : Streams(b)' = Streams(b)
  <1> DEFINE t == thread[r]
             new == [t EXCEPT !.pc = "probe", !.since = now]
  <1>1. /\ t \in Threads /\ t.pc = "ask" /\ Informed(t, now) /\ now \in Nat /\ Len(t.scored) <= N
    BY DEF Probe, ThreadsInv
  <1>2. /\ new \in Threads /\ new.pc = "probe" /\ new.since = now /\ new.scored = t.scored
        /\ new.asked = t.asked
    BY <1>1 DEF Threads, Phases
  <1>3. Informed(new, now)
    BY <1>1, <1>2, BalancerAssumption DEF Informed
  <1>4. thread' = [thread EXCEPT ![r] = new] /\ now' = now /\ thread[r].pc # "stream"
    BY DEF Probe, ThreadsInv
  <1> HIDE DEF new
  <1> QED BY <1>1, <1>2, <1>3, <1>4, OneThreadMoves, StreamsStay

(* So do the answer of a probe and the entry stored for it. *)
LEMMA Answers ==
    ASSUME BalancerTypeOK, ThreadsInv, CacheIsHonest, NEW r \in Requests, Answer(r)
    PROVE  /\ ThreadsInv' /\ \A b \in Nodes : Streams(b)' = Streams(b)
           /\ CacheIsHonest' /\ cache' \in [Nodes -> [time : Nat \cup {-1}, health : Health]]
  <1> DEFINE t == thread[r]
             n == node[Asked(r)]
             h == IF n.up THEN [up |-> TRUE, active |-> n.active, queued |-> n.queued, at |-> now]
                  ELSE [Down EXCEPT !.at = now]
             new == WithHealth(t, h)
  <1>1. /\ t \in Threads /\ t.pc = "probe" /\ Informed(t, now) /\ now \in Nat /\ Len(t.scored) <= N
    BY DEF Answer, ThreadsInv
  <1>2. /\ t.asked = Len(t.scored) + 1 /\ Young(t.scored, t.since) /\ t.asked \in 1..N
        /\ t.since \in Nat /\ t.since <= now /\ now <= t.since + ProbeTimeout
    <2>1. /\ t.asked = Len(t.scored) + 1 /\ Young(t.scored, t.since) /\ t.asked \in 0..N
          /\ t.scored \in Seq(Health)
      BY <1>1 DEF Informed, Threads
    <2> QED BY <2>1, <1>1, NodesAreBackends DEF Informed, Threads
  <1>3. Asked(r) \in Nodes
    BY <1>2, NodesAreBackends DEF Asked
  <1>4. h \in Health /\ h.at = now /\ now - h.at < HealthTtl
    <2>1. n \in [up : BOOLEAN, active : 0..Capacity, queued : Nat]
      BY <1>3 DEF BalancerTypeOK
    <2>2. h \in Health /\ h.at = now
      <3>1. CASE n.up
        BY <3>1, <2>1, <1>1, BalancerAssumption DEF Health
      <3>2. CASE ~n.up
        <4>1. Down \in Health
          BY DEF Down, Health
        <4>2. [Down EXCEPT !.at = now] \in Health
          BY <4>1, <1>1 DEF Health
        <4>3. [Down EXCEPT !.at = now].at = now
          BY <4>1 DEF Health
        <4> QED BY <3>2, <4>2, <4>3
      <3> QED BY <3>1, <3>2
    <2> QED BY <2>2, <1>1, BalancerAssumption
  <1>5. /\ new \in Threads /\ Len(new.scored) <= N /\ new.pc # "stream" /\ Informed(new, now)
    <2>1. t \in [pc : Phases, asked : 0..N, since : Nat, scored : Seq(Health), heads : 0..2, backend : Nodes]
      BY <1>1 DEF Threads
    <2> HIDE DEF t, h
    <2>2. /\ WithHealth(t, h) \in Threads /\ Len(WithHealth(t, h).scored) <= N
          /\ WithHealth(t, h).pc \in {"ask", "pick"} /\ Informed(WithHealth(t, h), now)
      BY <1>1, <1>2, <1>4, <2>1, HealthKnown DEF Threads
    <2> QED BY <2>2
  <1>6. /\ thread' = [thread EXCEPT ![r] = new] /\ now' = now /\ thread[r].pc # "stream"
        /\ cache' = [cache EXCEPT ![Asked(r)] = [time |-> t.since, health |-> h]]
    BY DEF Answer
  <1>7. CacheIsHonest' /\ cache' \in [Nodes -> [time : Nat \cup {-1}, health : Health]]
    <2> HIDE DEF h, t
    <2>1. [time |-> t.since, health |-> h] \in [time : Nat \cup {-1}, health : Health]
      BY <1>2, <1>4
    <2>2. cache' \in [Nodes -> [time : Nat \cup {-1}, health : Health]]
      BY <2>1, <1>3, <1>6 DEF BalancerTypeOK
    <2>3. \A b \in Nodes : cache'[b].time <= cache'[b].health.at
      BY <1>2, <1>3, <1>4, <1>6 DEF BalancerTypeOK, CacheIsHonest
    <2> QED BY <2>2, <2>3 DEF CacheIsHonest
  <1> HIDE DEF new
  <1> QED BY <1>5, <1>6, <1>7, OneThreadMoves, StreamsStay

(* BackendPool.pick: so does the choice, which is one of the best. *)
LEMMA Chooses ==
    ASSUME BalancerTypeOK, ThreadsInv, NEW r \in Requests, Pick(r)
    PROVE  ThreadsInv' /\ \A b \in Nodes : Streams(b)' = Streams(b)
  <1>1. PICK k \in Candidates(thread[r].scored) :
            thread' = [thread EXCEPT ![r].pc = "forward", ![r].backend = Backends[k]]
    BY DEF Pick
  <1> DEFINE t == thread[r]
             new == [t EXCEPT !.pc = "forward", !.backend = Backends[k]]
  <1>2. /\ t \in Threads /\ t.pc = "pick" /\ Informed(t, now) /\ Len(t.scored) <= N /\ Len(t.scored) = N
    BY DEF Pick, ThreadsInv, Informed
  <1>3. DOMAIN t.scored = 1..N
    BY <1>2 DEF Threads
  <1>4. k \in 1..N /\ Best(t.scored, k) /\ Backends[k] \in Nodes
    BY <1>3, NodesAreBackends DEF Candidates, Best
  <1>5. /\ new \in Threads /\ new.pc = "forward" /\ new.backend = Backends[k] /\ new.scored = t.scored
    BY <1>2, <1>4 DEF Threads, Phases
  <1>6. Informed(new, now)
    BY <1>2, <1>4, <1>5 DEF Informed
  <1>7. thread' = [thread EXCEPT ![r] = new] /\ now' = now /\ thread[r].pc # "stream"
    BY <1>1 DEF Pick, ThreadsInv
  <1> HIDE DEF new
  <1> QED BY <1>2, <1>5, <1>6, <1>7, OneThreadMoves, StreamsStay

(* 503: so does a refusal, which no answer contradicts. *)
LEMMA Refuses ==
    ASSUME BalancerTypeOK, ThreadsInv, NEW r \in Requests, Unavailable(r)
    PROVE  ThreadsInv' /\ \A b \in Nodes : Streams(b)' = Streams(b)
  <1> DEFINE t == thread[r]
             new == [t EXCEPT !.pc = "unavailable", !.heads = 1]
  <1>2. /\ t \in Threads /\ t.pc = "pick" /\ Informed(t, now) /\ Len(t.scored) <= N /\ Len(t.scored) = N
    BY DEF Unavailable, ThreadsInv, Informed
  <1>3. \A k \in 1..N : ~t.scored[k].up
    BY <1>2, SomeoneIsBest DEF Unavailable, Threads
  <1>5. /\ new \in Threads /\ new.pc = "unavailable" /\ new.scored = t.scored
    <2>1. "unavailable" \in Phases /\ 1 \in 0..2
      BY DEF Phases
    <2>2. new \in Threads
      BY <1>2, <2>1 DEF Threads
    <2>3. new.pc = "unavailable" /\ new.scored = t.scored
      BY <1>2 DEF Threads
    <2> QED BY <2>2, <2>3
  <1>6. Informed(new, now)
    BY <1>2, <1>3, <1>5 DEF Informed
  <1>7. thread' = [thread EXCEPT ![r] = new] /\ now' = now /\ thread[r].pc # "stream"
    BY DEF Unavailable, ThreadsInv
  <1> HIDE DEF new
  <1> QED BY <1>2, <1>5, <1>6, <1>7, OneThreadMoves, StreamsStay
----------------------------------------------------------------------------
(* The backends, and what they count.                                      *)

NodeType == [up : BOOLEAN, active : 0..Capacity, queued : Nat]

(* The requests a node serves can be counted. *)
LEMMA StreamsAreFinite ==
    \A b \in Nodes : IsFiniteSet(Streams(b)) /\ Cardinality(Streams(b)) \in Nat
  BY BalancerAssumption, FS_Subset, FS_CardinalityType DEF Streams

(* What a node serves and what is counted, when both change at one node. *)
LEMMA OneNodeCounts ==
    ASSUME NodesCount, NEW b \in Nodes, NEW n \in NodeType, n.up, node \in [Nodes -> NodeType],
           node' = [node EXCEPT ![b] = n], Cardinality(Streams(b)') = n.active + n.queued,
           \A c \in Nodes \ {b} : Streams(c)' = Streams(c)
    PROVE  NodesCount' /\ node' \in [Nodes -> NodeType]
  <1>1. node' \in [Nodes -> NodeType] /\ node'[b] = n /\ \A c \in Nodes \ {b} : node'[c] = node[c]
    OBVIOUS
  <1>2. ASSUME NEW c \in Nodes
        PROVE  IF node'[c].up THEN Cardinality(Streams(c)') = node'[c].active + node'[c].queued
               ELSE node'[c].active = 0 /\ node'[c].queued = 0
    <2>1. CASE c = b
      BY <1>1, <2>1
    <2>2. CASE c # b
      BY <1>1, <2>2 DEF NodesCount
    <2> QED BY <2>1, <2>2
  <1> QED BY <1>1, <1>2 DEF NodesCount

(* Handler._proxy: the backend takes the request, and counts it. *)
LEMMA Connects ==
    ASSUME BalancerTypeOK, ThreadsInv, NodesCount, NEW r \in Requests, Connect(r),
           NEW b \in Nodes, b = thread[r].backend
    PROVE  ThreadsInv' /\ NodesCount' /\ node' \in [Nodes -> NodeType]
  <1> DEFINE t == thread[r]
             new == [t EXCEPT !.pc = "stream", !.heads = 1, !.scored = <<>>]
             n == [node[b] EXCEPT !.active = IF @ < Capacity THEN @ + 1 ELSE @,
                                  !.queued = IF node[b].active < Capacity THEN @ ELSE @ + 1]
  <1>1. t \in Threads /\ t.pc = "forward" /\ b \in Nodes /\ node[b].up
    BY DEF Connect, ThreadsInv, Threads
  <1>2. new \in Threads /\ new.pc = "stream" /\ new.heads = 1 /\ new.scored = <<>> /\ new.backend = b
    <2>1. "stream" \in Phases /\ 1 \in 0..2 /\ <<>> \in Seq(Health)
      BY DEF Phases
    <2>2. new \in Threads
      BY <1>1, <2>1 DEF Threads
    <2> QED BY <1>1, <2>2 DEF Threads
  <1>3. Informed(new, now) /\ Len(new.scored) <= N
    BY <1>2, NodesAreBackends DEF Informed
  <1>4. /\ thread' = [thread EXCEPT ![r] = new] /\ now' = now
        /\ node' = [node EXCEPT ![b] = n]
    BY DEF Connect, ThreadsInv, BalancerTypeOK
  <1>5. ThreadsInv'
    <2> HIDE DEF new
    <2> QED BY <1>2, <1>3, <1>4, OneThreadMoves
  <1>6. /\ node \in [Nodes -> NodeType] /\ node[b] \in NodeType
        /\ n \in NodeType /\ n.up /\ n.active + n.queued = node[b].active + node[b].queued + 1
    <2>1. node \in [Nodes -> NodeType] /\ node[b] \in NodeType
      BY <1>1 DEF BalancerTypeOK, NodeType
    <2>2. node[b].active \in 0..Capacity /\ node[b].queued \in Nat /\ Capacity \in Nat
      BY <2>1, BalancerAssumption DEF NodeType
    <2>3. CASE node[b].active < Capacity
      <3>1. n = [node[b] EXCEPT !.active = node[b].active + 1, !.queued = node[b].queued]
        BY <2>3
      <3>2. node[b].active + 1 \in 0..Capacity /\ node[b].queued \in Nat
        BY <2>2, <2>3
      <3> HIDE DEF n
      <3>3. n \in NodeType /\ n.up = node[b].up /\ n.active = node[b].active + 1 /\ n.queued = node[b].queued
        BY <2>1, <3>1, <3>2 DEF NodeType
      <3> QED BY <1>1, <2>1, <2>2, <3>3
    <2>4. CASE ~(node[b].active < Capacity)
      <3>1. n = [node[b] EXCEPT !.active = node[b].active, !.queued = node[b].queued + 1]
        BY <2>4
      <3>2. node[b].active \in 0..Capacity /\ node[b].queued + 1 \in Nat
        BY <2>2, <2>4
      <3> HIDE DEF n
      <3>3. n \in NodeType /\ n.up = node[b].up /\ n.active = node[b].active /\ n.queued = node[b].queued + 1
        BY <2>1, <3>1, <3>2 DEF NodeType
      <3> QED BY <1>1, <2>1, <2>2, <3>3
    <2> QED BY <2>1, <2>3, <2>4
  <1>8. Streams(b)' = Streams(b) \cup {r} /\ r \notin Streams(b)
    <2> HIDE DEF new
    <2> QED BY <1>1, <1>2, <1>4 DEF ThreadsInv, Streams
  <1>9. \A c \in Nodes \ {b} : Streams(c)' = Streams(c)
    <2> HIDE DEF new
    <2> QED BY <1>1, <1>2, <1>4 DEF ThreadsInv, Streams
  <1>10. Cardinality(Streams(b)') = Cardinality(Streams(b)) + 1
    BY <1>1, <1>8, StreamsAreFinite, FS_AddElement
  <1>11. Cardinality(Streams(b)') = n.active + n.queued
    BY <1>1, <1>6, <1>10 DEF NodesCount
  <1>12. NodesCount' /\ node' \in [Nodes -> NodeType]
    <2> HIDE DEF n
    <2> QED BY <1>4, <1>6, <1>9, <1>11, OneNodeCounts
  <1> QED BY <1>5, <1>12

(* The backend is done with the request, and counts one less. *)
LEMMA Finishes ==
    ASSUME BalancerTypeOK, ThreadsInv, NodesCount, NEW r \in Requests, Finish(r),
           NEW b \in Nodes, b = thread[r].backend
    PROVE  ThreadsInv' /\ NodesCount' /\ node' \in [Nodes -> NodeType]
  <1> DEFINE t == thread[r]
             new == [t EXCEPT !.pc = "done", !.backend = Backends[1]]
             n == [node[b] EXCEPT !.active = IF node[b].queued > 0 THEN @ ELSE @ - 1,
                                  !.queued = IF @ > 0 THEN @ - 1 ELSE 0]
  <1>1. t \in Threads /\ t.pc = "stream" /\ b \in Nodes /\ node[b].up /\ Len(t.scored) <= N
    BY DEF Finish, ThreadsInv, Threads
  <1>2. new \in Threads /\ new.pc = "done" /\ new.scored = t.scored
    <2>1. "done" \in Phases /\ Backends[1] \in Nodes
      BY NodesAreBackends DEF Phases
    <2>2. new \in Threads
      BY <1>1, <2>1 DEF Threads
    <2> QED BY <1>1, <2>2 DEF Threads
  <1>3. Informed(new, now)
    BY <1>2 DEF Informed
  <1>4. /\ thread' = [thread EXCEPT ![r] = new] /\ now' = now
        /\ node' = [node EXCEPT ![b] = n]
    BY DEF Finish, ThreadsInv, BalancerTypeOK
  <1>5. ThreadsInv'
    <2> HIDE DEF new
    <2> QED BY <1>1, <1>2, <1>3, <1>4, OneThreadMoves
  <1>8. Streams(b)' = Streams(b) \ {r} /\ r \in Streams(b)
    <2> HIDE DEF new
    <2> QED BY <1>1, <1>2, <1>4 DEF ThreadsInv, Streams
  <1>9. \A c \in Nodes \ {b} : Streams(c)' = Streams(c)
    <2> HIDE DEF new
    <2> QED BY <1>1, <1>2, <1>4 DEF ThreadsInv, Streams
  <1>10. Cardinality(Streams(b)') = Cardinality(Streams(b)) - 1 /\ Cardinality(Streams(b)) \in Nat
    BY <1>1, <1>8, StreamsAreFinite, FS_RemoveElement
  <1>11. Cardinality(Streams(b)) > 0
    BY <1>1, <1>8, StreamsAreFinite, FS_EmptySet
  <1>6. /\ node \in [Nodes -> NodeType] /\ node[b] \in NodeType
        /\ n \in NodeType /\ n.up /\ n.active + n.queued = node[b].active + node[b].queued - 1
    <2>1. node \in [Nodes -> NodeType] /\ node[b] \in NodeType
      BY <1>1 DEF BalancerTypeOK, NodeType
    <2>2. /\ node[b].active \in 0..Capacity /\ node[b].queued \in Nat /\ Capacity \in Nat
          /\ node[b].active + node[b].queued > 0
      BY <1>1, <1>11, <2>1, BalancerAssumption DEF NodesCount, NodeType
    <2>3. CASE node[b].queued > 0
      <3>1. n = [node[b] EXCEPT !.active = node[b].active, !.queued = node[b].queued - 1]
        BY <2>3
      <3>2. node[b].active \in 0..Capacity /\ node[b].queued - 1 \in Nat
        BY <2>2, <2>3
      <3> HIDE DEF n
      <3>3. n \in NodeType /\ n.up = node[b].up /\ n.active = node[b].active /\ n.queued = node[b].queued - 1
        BY <2>1, <3>1, <3>2 DEF NodeType
      <3> QED BY <1>1, <2>1, <2>2, <3>3
    <2>4. CASE ~(node[b].queued > 0)
      <3>1. n = [node[b] EXCEPT !.active = node[b].active - 1, !.queued = 0]
        BY <2>4
      <3>4. node[b].queued = 0
        BY <2>2, <2>4
      <3>2. node[b].active - 1 \in 0..Capacity /\ 0 \in Nat
        BY <2>2, <2>4
      <3> HIDE DEF n
      <3>3. n \in NodeType /\ n.up = node[b].up /\ n.active = node[b].active - 1 /\ n.queued = 0
        BY <2>1, <3>1, <3>2 DEF NodeType
      <3> QED BY <1>1, <2>1, <2>2, <3>3, <3>4
    <2> QED BY <2>1, <2>3, <2>4
  <1>7. Cardinality(Streams(b)') = n.active + n.queued
    <2> HIDE DEF n
    <2>1. Cardinality(Streams(b)) = node[b].active + node[b].queued
      BY <1>1 DEF NodesCount
    <2>2. node[b].active \in Nat /\ node[b].queued \in Nat
      BY <1>6, BalancerAssumption DEF NodeType
    <2>3. Cardinality(Streams(b)) - 1 = n.active + n.queued
      BY <2>1, <2>2, <1>6
    <2> QED BY <2>3, <1>10
  <1>12. NodesCount' /\ node' \in [Nodes -> NodeType]
    <2> HIDE DEF n
    <2> QED BY <1>4, <1>6, <1>7, <1>9, OneNodeCounts
  <1> QED BY <1>5, <1>12

(* A backend that was down when the request came. *)
LEMMA Fails ==
    ASSUME BalancerTypeOK, ThreadsInv, NEW r \in Requests, Refused(r)
    PROVE  ThreadsInv' /\ \A b \in Nodes : Streams(b)' = Streams(b)
  <1> DEFINE t == thread[r]
             new == [t EXCEPT !.pc = "failed", !.heads = 1, !.scored = <<>>]
  <1>1. t \in Threads /\ t.pc = "forward"
    BY DEF Refused, ThreadsInv
  <1>2. new \in Threads /\ new.pc = "failed" /\ new.scored = <<>>
    <2>1. "failed" \in Phases /\ 1 \in 0..2 /\ <<>> \in Seq(Health)
      BY DEF Phases
    <2>2. new \in Threads
      BY <1>1, <2>1 DEF Threads
    <2> QED BY <1>1, <2>2 DEF Threads
  <1>3. Informed(new, now) /\ Len(new.scored) <= N
    BY <1>2, NodesAreBackends DEF Informed
  <1>4. thread' = [thread EXCEPT ![r] = new] /\ now' = now /\ thread[r].pc # "stream"
    BY <1>1 DEF Refused, ThreadsInv
  <1> HIDE DEF new
  <1> QED BY <1>2, <1>3, <1>4, OneThreadMoves, StreamsStay

(* A backend that answers with an error status. *)
LEMMA PassesOn ==
    ASSUME BalancerTypeOK, ThreadsInv, NEW r \in Requests, Rejected(r)
    PROVE  ThreadsInv' /\ \A b \in Nodes : Streams(b)' = Streams(b)
  <1> DEFINE t == thread[r]
             new == [t EXCEPT !.pc = "done", !.heads = 1, !.scored = <<>>, !.backend = Backends[1]]
  <1>1. t \in Threads /\ t.pc = "forward"
    BY DEF Rejected, ThreadsInv
  <1>2. new \in Threads /\ new.pc = "done" /\ new.scored = <<>>
    <2>1. "done" \in Phases /\ 1 \in 0..2 /\ <<>> \in Seq(Health) /\ Backends[1] \in Nodes
      BY NodesAreBackends, BalancerAssumption DEF Phases, N
    <2>2. new \in Threads
      BY <1>1, <2>1 DEF Threads
    <2> QED BY <1>1, <2>2 DEF Threads
  <1>3. Informed(new, now) /\ Len(new.scored) <= N
    BY <1>2, NodesAreBackends DEF Informed
  <1>4. thread' = [thread EXCEPT ![r] = new] /\ now' = now /\ thread[r].pc # "stream"
    BY <1>1 DEF Rejected, ThreadsInv
  <1> HIDE DEF new
  <1> QED BY <1>2, <1>3, <1>4, OneThreadMoves, StreamsStay

(* A stream that breaks; its backend is down and counts nothing. *)
LEMMA Breaks ==
    ASSUME BalancerTypeOK, ThreadsInv, NodesCount, NEW r \in Requests, Break(r)
    PROVE  ThreadsInv' /\ NodesCount'
  <1> DEFINE t == thread[r]
             new == [t EXCEPT !.pc = "failed", !.heads = @ + 1]
  <1>1. /\ t \in Threads /\ t.pc = "stream" /\ t.heads = 1 /\ Len(t.scored) <= N
        /\ t.backend \in Nodes /\ ~node[t.backend].up
    BY DEF Break, ThreadsInv, Informed, Threads
  <1>2. new \in Threads /\ new.pc = "failed" /\ new.scored = t.scored
    <2>1. "failed" \in Phases /\ t.heads + 1 \in 0..2
      BY <1>1 DEF Phases
    <2>2. new \in Threads
      BY <1>1, <2>1 DEF Threads
    <2> QED BY <1>1, <2>2 DEF Threads
  <1>3. Informed(new, now)
    BY <1>2 DEF Informed
  <1>4. thread' = [thread EXCEPT ![r] = new] /\ now' = now /\ node' = node
    BY <1>1 DEF Break, ThreadsInv
  <1> HIDE DEF new
  <1>5. ThreadsInv'
    BY <1>1, <1>2, <1>3, <1>4, OneThreadMoves
  <1>6. \A c \in Nodes \ {t.backend} : Streams(c)' = Streams(c)
    BY <1>1, <1>2, <1>4 DEF ThreadsInv, Streams
  <1>7. NodesCount'
    BY <1>1, <1>4, <1>6 DEF NodesCount
  <1> QED BY <1>5, <1>7

(* The clock waits for the probes, and for every thread that can go on. *)
LEMMA TimePasses ==
    ASSUME BalancerTypeOK, ThreadsInv, Tick
    PROVE  ThreadsInv' /\ now' \in 0..MaxTime
  <1>1. now \in 0..MaxTime /\ now < MaxTime /\ now' = now + 1 /\ thread' = thread /\ MaxTime \in Nat
    BY BalancerAssumption DEF BalancerTypeOK, Tick
  <1>2. ASSUME NEW r \in Requests PROVE Informed(thread[r], now + 1)
    <2>1. /\ thread[r].pc \notin {"ask", "pick", "forward"}
          /\ thread[r].pc = "probe" => now < thread[r].since + ProbeTimeout
          /\ Informed(thread[r], now) /\ thread[r].since \in Nat
      BY DEF Tick, ThreadsInv, Threads
    <2> QED BY <1>1, <2>1, BalancerAssumption DEF Informed
  <1> QED BY <1>1, <1>2 DEF ThreadsInv
----------------------------------------------------------------------------
BalancerInv == BalancerTypeOK /\ ThreadsInv /\ CacheIsHonest /\ NodesCount

(* The invariant holds before the first request. *)
LEMMA BalancerStarts == BalancerInit => BalancerInv
  <1> SUFFICES ASSUME BalancerInit PROVE BalancerInv
    OBVIOUS
  <1>1. N \in Nat \ {0} /\ Idle \in Threads /\ Down \in Health /\ 0 \in 0..MaxTime /\ 0 \in 0..Capacity
    BY IdleIsTyped, NodesAreBackends, BalancerAssumption DEF Down, Health
  <1>2. thread \in [Requests -> Threads] /\ \A r \in Requests : thread[r] = Idle
    BY <1>1 DEF BalancerInit
  <1>3. Len(Idle.scored) <= N /\ Informed(Idle, 0)
    BY <1>1 DEF Idle, Informed
  <1>4. cache \in [Nodes -> [time : Nat \cup {-1}, health : Health]] /\ CacheIsHonest
    BY <1>1 DEF BalancerInit, NoEntry, CacheIsHonest, Down
  <1>5. node \in [Nodes -> NodeType]
    BY <1>1 DEF BalancerInit, NodeType
  <1>6. ASSUME NEW b \in Nodes PROVE Streams(b) = {} /\ node[b] = [up |-> TRUE, active |-> 0, queued |-> 0]
    BY <1>2 DEF Streams, Idle, BalancerInit
  <1>7. NodesCount
    BY <1>6, FS_EmptySet DEF NodesCount
  <1> QED
    BY <1>1, <1>2, <1>3, <1>4, <1>5, <1>7
       DEF BalancerInit, BalancerInv, BalancerTypeOK, ThreadsInv, Threads, NodeType, N

(* Every step of a thread, of a backend and of the clock keeps it. *)
LEMMA BalancerKeeps ==
    ASSUME BalancerInv, [BalancerNext]_balancerVars PROVE BalancerInv'
  <1> DEFINE Known == cache \in [Nodes -> [time : Nat \cup {-1}, health : Health]]
  <1>0. /\ BalancerTypeOK /\ ThreadsInv /\ CacheIsHonest /\ NodesCount
        /\ rr \in Nat /\ now \in 0..MaxTime /\ node \in [Nodes -> NodeType] /\ Known
    BY DEF BalancerInv, BalancerTypeOK, NodeType
  <1>1. ASSUME ThreadsInv', CacheIsHonest', NodesCount',
               rr' \in Nat, now' \in 0..MaxTime, node' \in [Nodes -> NodeType], Known'
        PROVE  BalancerInv'
    BY <1>1 DEF BalancerInv, BalancerTypeOK, ThreadsInv, Threads, NodeType, N
  <1>2. ASSUME node' = node, \A b \in Nodes : Streams(b)' = Streams(b) PROVE NodesCount'
    BY <1>0, <1>2 DEF NodesCount
  <1>3. ASSUME cache' = cache PROVE CacheIsHonest' /\ Known'
    BY <1>0, <1>3 DEF CacheIsHonest
  <1>4. ASSUME NEW r \in Requests,
               Arrive(r) \/ FromCache(r) \/ Probe(r) \/ Pick(r) \/ Unavailable(r) \/ Refused(r) \/ Rejected(r)
        PROVE  BalancerInv'
    <2>1. ThreadsInv' /\ \A b \in Nodes : Streams(b)' = Streams(b)
      BY <1>0, <1>4, Arrives, Asks, Probes, Chooses, Refuses, Fails, PassesOn
    <2>2. /\ node' = node /\ cache' = cache /\ now' = now
          /\ rr' \in Nat
      BY <1>0, <1>4 DEF Arrive, FromCache, Probe, Pick, Unavailable, Refused, Rejected
    <2> HIDE DEF Known
    <2> QED BY <1>0, <1>1, <1>2, <1>3, <2>1, <2>2
  <1>5. ASSUME NEW r \in Requests, Answer(r) PROVE BalancerInv'
    BY <1>0, <1>1, <1>2, <1>5, Answers DEF Answer
  <1>6. ASSUME NEW r \in Requests, Connect(r) \/ Finish(r) PROVE BalancerInv'
    <2>1. PICK b \in Nodes : b = thread[r].backend
      BY <1>0 DEF ThreadsInv, Threads
    <2>3. ThreadsInv' /\ NodesCount' /\ node' \in [Nodes -> NodeType]
      BY <1>0, <1>6, <2>1, Connects, Finishes
    <2>2. cache' = cache /\ now' = now /\ rr' = rr
      BY <1>6 DEF Connect, Finish
    <2> HIDE DEF Known
    <2> QED BY <1>0, <1>1, <1>3, <2>2, <2>3
  <1>7. ASSUME NEW r \in Requests, Break(r) PROVE BalancerInv'
    <2>1. ThreadsInv' /\ NodesCount' /\ node' = node /\ cache' = cache /\ now' = now /\ rr' = rr
      BY <1>0, <1>7, Breaks DEF Break
    <2> HIDE DEF Known
    <2> QED BY <1>0, <1>1, <1>3, <2>1
  <1>8. ASSUME NEW b \in Nodes, Fail(b) \/ Recover(b) PROVE BalancerInv'
    <2>1. thread' = thread /\ cache' = cache /\ now' = now /\ rr' = rr
      BY <1>8 DEF Fail, Recover
    <2>2. ThreadsInv' /\ \A c \in Nodes : Streams(c)' = Streams(c)
      BY <1>0, <2>1 DEF ThreadsInv, Streams
    <2>3. /\ node' \in [Nodes -> NodeType]
          /\ \A c \in Nodes \ {b} : node'[c] = node[c]
      <3>1. CASE Fail(b)
        <4>1. [up |-> FALSE, active |-> 0, queued |-> 0] \in NodeType
          BY BalancerAssumption DEF NodeType
        <4> QED BY <4>1, <1>0, <3>1 DEF Fail
      <3>2. CASE Recover(b)
        <4>1. [node[b] EXCEPT !.up = TRUE] \in NodeType
          BY <1>0 DEF NodeType
        <4>2. node' = [node EXCEPT ![b] = [node[b] EXCEPT !.up = TRUE]]
          BY <1>0, <3>2 DEF Recover
        <4> QED BY <4>1, <4>2, <1>0
      <3> QED BY <1>8, <3>1, <3>2
    <2>4. IF node'[b].up THEN Cardinality(Streams(b)) = node'[b].active + node'[b].queued
          ELSE node'[b].active = 0 /\ node'[b].queued = 0
      <3>1. CASE Fail(b)
        BY <1>0, <3>1 DEF Fail
      <3>2. CASE Recover(b)
        <4>1. Streams(b) = {} /\ ~node[b].up
          BY <3>2 DEF Recover, Streams
        <4>2. node[b].active = 0 /\ node[b].queued = 0
          BY <4>1, <1>0 DEF NodesCount
        <4>3. node'[b].active = 0 /\ node'[b].queued = 0
          BY <1>0, <3>2, <4>2 DEF Recover, NodeType
        <4> QED BY <4>1, <4>3, FS_EmptySet
      <3> QED BY <1>8, <3>1, <3>2
    <2>5. NodesCount'
      BY <1>0, <2>2, <2>3, <2>4 DEF NodesCount
    <2> HIDE DEF Known
    <2> QED BY <1>0, <1>1, <1>3, <2>1, <2>2, <2>3, <2>5
  <1>9. ASSUME Tick PROVE BalancerInv'
    <2>1. ThreadsInv' /\ now' \in 0..MaxTime /\ node' = node /\ thread' = thread /\ cache' = cache /\ rr' = rr
      BY <1>0, <1>9, TimePasses DEF Tick
    <2>2. \A c \in Nodes : Streams(c)' = Streams(c)
      BY <2>1 DEF Streams
    <2> HIDE DEF Known
    <2> QED BY <1>0, <1>1, <1>2, <1>3, <2>1, <2>2
  <1>10. ASSUME UNCHANGED balancerVars PROVE BalancerInv'
    <2>1. node' = node /\ thread' = thread /\ cache' = cache /\ rr' = rr /\ now' = now
      BY <1>10 DEF balancerVars
    <2>2. ThreadsInv' /\ \A c \in Nodes : Streams(c)' = Streams(c)
      BY <1>0, <2>1 DEF Streams, ThreadsInv
    <2> HIDE DEF Known
    <2> QED BY <1>0, <1>1, <1>2, <1>3, <2>1, <2>2
  <1> QED
    BY <1>4, <1>5, <1>6, <1>7, <1>8, <1>9, <1>10 DEF BalancerNext

(* The inductive invariant holds whatever the threads do. *)
LEMMA BalancerInvariant == BalancerSpec => []BalancerInv
  <1>1. BalancerInv /\ [BalancerNext]_balancerVars => BalancerInv'
    BY BalancerKeeps
  <1> QED BY <1>1, BalancerStarts, PTL DEF BalancerSpec

(* BackendPool.pick, Handler._proxy: whatever the threads' probes overlap    *)
(* with, whichever of them stores last and whichever backend dies, a choice  *)
(* rests on answers no older than the time to live and the probes of the     *)
(* other backends, goes to the head of the sort, and is refused only when no *)
(* backend answered.                                                         *)
THEOREM ChoicesAreSound == BalancerSpec => []BalancerIsSound
  <1>1. ASSUME BalancerInv PROVE BalancerIsSound
    <2>1. ThreadsInv /\ BalancerTypeOK /\ DOMAIN Backends = 1..N
      BY <1>1, BalancerAssumption DEF BalancerInv, N
    <2>2. ASSUME NEW r \in Requests, thread[r].pc = "pick", NEW k \in DOMAIN Backends
          PROVE  Age(r, k) < Oldest
      <3> DEFINE s == thread[r].scored
      <3>1. s \in Seq(Health) /\ Len(s) = N /\ Young(s, now) /\ now \in Nat
        BY <2>1, <2>2 DEF ThreadsInv, Threads, Informed
      <3>2. k \in 1..N /\ N \in Nat /\ s[k] \in Health
        BY <2>1, <2>2, <3>1, NodesAreBackends
      <3>3. now - s[k].at < HealthTtl + ProbeTimeout * (N - k)
        BY <3>1, <3>2 DEF Young
      <3>4. /\ N - k \in Nat /\ N - 1 \in Nat
            /\ ProbeTimeout * (N - k) <= ProbeTimeout * (N - 1)
            /\ ProbeTimeout * (N - k) \in Nat /\ ProbeTimeout * (N - 1) \in Nat
        <4>1. N - k \in Nat /\ N - 1 \in Nat /\ N - k <= N - 1
          BY <3>2
        <4> QED BY <4>1, Timeouts
      <3>5. s[k].at \in Nat /\ HealthTtl \in Nat
        BY <3>2, BalancerAssumption DEF Health
      <3> HIDE DEF s
      <3>6. now - s[k].at < HealthTtl + ProbeTimeout * (N - 1)
        BY <3>1, <3>3, <3>4, <3>5
      <3> QED BY <3>6 DEF Age, Oldest, N, s
    <2>3. ChoicesAreJustified
      BY <2>1 DEF ChoicesAreJustified, ThreadsInv, Informed, Best
    <2> QED BY <2>1, <2>2, <2>3 DEF BalancerIsSound, ChoicesAreFresh
  <1> QED BY <1>1, BalancerInvariant, PTL
----------------------------------------------------------------------------
(* The hot store.                                                          *)

\* Every index is of a pin of this layer.
At(l) == DOMAIN pin[l]

\* What a pin says of its copies is true; one of them can be computed from.
Whole(s) == (OnGpu(s) => s.dev = s.eid) /\ s.host \in {s.eid, NoExpert}
Usable(s) == Whole(s) /\ (s.host = NoExpert => OnGpu(s))

\* No two pins of a layer are of one expert.
Distinct == \A l \in Layers : \A y, z \in At(l) : pin[l][y].eid = pin[l][z].eid => y = z

\* How far pin_load has come.
BootType == [at : {"start", "load", "upload", "serving"}, rank : Seq(Pair), n : Nat, prefix : Nat,
             base : Nat, end : Nat]
BootIsRight ==
    /\ boot \in BootType
    /\ boot.prefix <= boot.n /\ boot.n <= Len(boot.rank)
    /\ \A a, b \in 1..Len(boot.rank) : boot.rank[a] = boot.rank[b] => a = b
    /\ boot.at = "upload" => boot.end <= First

\* The pins are those of the ranking, and those loaded so far can be used.
Loaded == IF boot.at = "upload" THEN boot.end ELSE boot.base
Booting(l, z) ==
    \E a \in 1..boot.n : /\ boot.rank[a] = <<l, pin[l][z].eid>>
                         /\ a <= Loaded => Usable(pin[l][z])
PinsAreRight ==
    /\ \A l \in Layers : \A z \in At(l) : Whole(pin[l][z])
    /\ boot.at = "start" => \A l \in Layers : pin[l] = <<>>
    /\ boot.at \in {"load", "upload"} => \A l \in Layers : \A z \in At(l) : Booting(l, z)
    /\ boot.at = "serving" => \A l \in Layers : \A z \in At(l) : Usable(pin[l][z])

\* What a device holds, and has left.
On(d) == {p \in Pair : \E z \in At(p[1]) : pin[p[1]][z].eid = p[2] /\ pin[p[1]][z].device = d}
RoomIsRight ==
    \A d \in Devices : /\ Cardinality(On(d)) <= DeviceRoom[d]
                       /\ boot.at # "serving" => Cardinality(On(d)) + room[d] <= DeviceRoom[d]

\* An expert that was evicted is no hotter than any pin.
HeatIsRight ==
    /\ clock <= MaxClock
    /\ \A l \in Layers, e \in Experts : heat[l][e] <= clock /\ last[l][e] <= clock
    /\ \A l \in Layers, e \in Experts : <<l, e>> \in out =>
           \A z \in At(l) : pin[l][z].eid # e /\ heat[l][e] <= heat[l][pin[l][z].eid]
    /\ boot.at # "serving" => out = {}

HotInv == HotTypeOK /\ Distinct /\ BootIsRight /\ PinsAreRight /\ RoomIsRight /\ HeatIsRight
----------------------------------------------------------------------------
(* The sizes the pins are counted in. *)
LEMMA HotSizes ==
    /\ \A e \in Experts : e \in Nat
    /\ NoExpert \notin Experts
    /\ IsFiniteSet(Pair)
    /\ TotalRoom \in Nat /\ Cardinality(Devices) \in Nat
  <1> USE HotStoreAssumption
  <1>1. Cardinality(Experts) \in Nat /\ Cardinality(Devices) \in Nat
    BY FS_CardinalityType
  <1>2. \A e \in Experts : e \in Nat
    BY <1>1
  <1>3. IsFiniteSet(Pair)
    BY FS_Product DEF Pair
  <1>4. TotalRoom \in Nat
    <2> DEFINE Places(d) == {d} \X (1..DeviceRoom[d])
               All == {Places(d) : d \in Devices}
               f == [d \in Devices |-> Places(d)]
    <2>1. f \in Surjection(Devices, All)
      BY DEF Surjection
    <2>2. IsFiniteSet(All)
      <3> HIDE DEF f, All
      <3> QED BY <2>1, FS_Surjection
    <2>3. ASSUME NEW d \in Devices PROVE IsFiniteSet(Places(d))
      <3>1. IsFiniteSet({d}) /\ IsFiniteSet(1..DeviceRoom[d])
        <4>1. DeviceRoom[d] \in Nat
          OBVIOUS
        <4> HIDE DEF Places, All, f
        <4>2. IsFiniteSet(1..DeviceRoom[d])
          BY <4>1, FS_Interval
        <4>3. IsFiniteSet({d})
          BY FS_Singleton
        <4> QED BY <4>2, <4>3
      <3> QED BY <3>1, FS_Product
    <2>4. IsFiniteSet(UNION All)
      <3>1. \A T \in All : IsFiniteSet(T)
        BY <2>3
      <3> HIDE DEF All
      <3> QED BY <2>2, <3>1, FS_UNION
    <2> QED BY <2>4, FS_CardinalityType DEF TotalRoom
  <1> QED BY <1>1, <1>2, <1>3, <1>4 DEF NoExpert

(* Of the scores, only the heat counts when the heats differ. *)
LEMMA HeatFirst ==
    ASSUME NEW a \in Nat, NEW b \in Nat, NEW r \in 0..Unit - 1, NEW s \in 0..Unit - 1,
           a * Unit + r <= b * Unit + s
    PROVE  a <= b
  <1> USE HotStoreAssumption
  <1> SUFFICES ASSUME b < a PROVE FALSE
    OBVIOUS
  <1>1. PICK k \in Nat : a = b + 1 + k
    <2>1. a - b - 1 \in Nat /\ a = b + 1 + (a - b - 1)
      OBVIOUS
    <2> QED BY <2>1
  <1>2. /\ a * Unit = b * Unit + Unit + k * Unit
        /\ k * Unit \in Nat /\ b * Unit \in Nat /\ a * Unit \in Nat
    BY <1>1
  <1> QED BY <1>2

(* Over numbers, a function has a least value, at a least argument. *)
LEMMA FirstLeast ==
    ASSUME NEW S \in SUBSET Nat, S # {}, NEW f \in [S -> Nat]
    PROVE  \E z \in S : \A y \in S : f[z] < f[y] \/ (f[z] = f[y] /\ z <= y)
  <1>1. PICK n \in {f[z] : z \in S} : \A m \in {f[z] : z \in S} : n <= m
    <2>1. {f[z] : z \in S} \in SUBSET Nat /\ {f[z] : z \in S} # {}
      OBVIOUS
    <2> QED BY <2>1, LeastNumber
  <1>2. PICK z \in {y \in S : f[y] = n} : \A y \in {y \in S : f[y] = n} : z <= y
    <2>1. {y \in S : f[y] = n} \in SUBSET Nat /\ {y \in S : f[y] = n} # {}
      BY <1>1
    <2> QED BY <2>1, LeastNumber
  <1>3. ASSUME NEW y \in S PROVE f[z] < f[y] \/ (f[z] = f[y] /\ z <= y)
    <2>1. n <= f[y] /\ n \in Nat /\ f[y] \in Nat /\ f[z] = n
      BY <1>1, <1>2
    <2> QED BY <2>1, <1>2
  <1> QED BY <1>2, <1>3

(* The same for the greatest value, of a function that is bounded. *)
LEMMA FirstGreatest ==
    ASSUME NEW S \in SUBSET Nat, S # {}, NEW f \in [S -> Nat], NEW bound \in Nat, \A z \in S : f[z] <= bound
    PROVE  \E z \in S : \A y \in S : f[z] > f[y] \/ (f[z] = f[y] /\ z <= y)
  <1> DEFINE g == [z \in S |-> bound - f[z]]
  <1>1. g \in [S -> Nat]
    OBVIOUS
  <1>2. PICK z \in S : \A y \in S : g[z] < g[y] \/ (g[z] = g[y] /\ z <= y)
    <2> HIDE DEF g
    <2> QED BY <1>1, FirstLeast
  <1> QED BY <1>2
----------------------------------------------------------------------------
(* The pins of a layer, by their type. *)
LEMMA PinsTyped ==
    ASSUME HotTypeOK, NEW l \in Layers
    PROVE  /\ pin[l] \in Seq(Pins) /\ At(l) = 1..Len(pin[l]) /\ At(l) \in SUBSET Nat
           /\ \A z \in At(l) : pin[l][z] \in Pins /\ pin[l][z].eid \in Experts
  <1>1. pin[l] \in Seq(Pins)
    BY DEF HotTypeOK
  <1>2. \A s \in Pins : s.eid \in Experts
    BY DEF Pins
  <1> QED BY <1>1, <1>2 DEF At

(* A score: the heat in units, and the recency below one unit. *)
LEMMA Scores ==
    ASSUME HotTypeOK, HeatIsRight, NEW l \in Layers, NEW e \in Experts
    PROVE  /\ heat[l][e] \in Nat /\ heat[l][e] <= MaxClock
           /\ Recency(l, e) \in 0..Unit - 1
           /\ Score(l, e) \in Nat /\ Score(l, e) <= MaxClock * Unit + Unit
  <1> USE HotStoreAssumption
  <1>1. /\ heat[l][e] \in Nat /\ last[l][e] \in Nat /\ clock \in Nat
        /\ heat[l][e] <= clock /\ last[l][e] <= clock /\ clock <= MaxClock
    BY DEF HotTypeOK, HeatIsRight
  <1>2. Recency(l, e) \in 0..Unit - 1
    BY <1>1 DEF Recency
  <1>3. /\ heat[l][e] * Unit \in Nat /\ MaxClock * Unit \in Nat
        /\ heat[l][e] * Unit <= MaxClock * Unit
    <2>1. PICK k \in Nat : MaxClock = heat[l][e] + k
      <3>1. MaxClock - heat[l][e] \in Nat /\ MaxClock = heat[l][e] + (MaxClock - heat[l][e])
        BY <1>1
      <3> QED BY <3>1
    <2>2. MaxClock * Unit = heat[l][e] * Unit + k * Unit /\ k * Unit \in Nat
      BY <1>1, <2>1
    <2> QED BY <1>1, <2>2
  <1>4. Score(l, e) = heat[l][e] * Unit + Recency(l, e)
    BY DEF Score
  <1>5. Recency(l, e) \in Nat /\ Recency(l, e) <= Unit
    BY <1>2
  <1> DEFINE hu == heat[l][e] * Unit
             mu == MaxClock * Unit
             rc == Recency(l, e)
  <1>6. hu \in Nat /\ mu \in Nat /\ hu <= mu /\ rc \in Nat /\ rc <= Unit /\ Score(l, e) = hu + rc
    BY <1>3, <1>4, <1>5
  <1>7. Score(l, e) \in Nat /\ Score(l, e) <= mu + Unit
    <2> HIDE DEF hu, mu, rc
    <2> QED BY <1>6
  <1>8. heat[l][e] <= MaxClock
    BY <1>1
  <1> QED BY <1>1, <1>2, <1>7, <1>8

(* tier_pick_lfru finds a pin of the least score. *)
LEMMA ColdestIs ==
    ASSUME HotTypeOK, HeatIsRight, NEW l \in Layers, At(l) # {}
    PROVE  /\ Coldest(l) \in At(l)
           /\ \A y \in At(l) : Score(l, pin[l][Coldest(l)].eid) <= Score(l, pin[l][y].eid)
  <1> DEFINE f == [z \in At(l) |-> Score(l, pin[l][z].eid)]
  <1>1. f \in [At(l) -> Nat] /\ At(l) \in SUBSET Nat
    BY PinsTyped, Scores
  <1>2. \E z \in At(l) : \A y \in At(l) : f[z] < f[y] \/ (f[z] = f[y] /\ z <= y)
    <2> HIDE DEF f
    <2> QED BY <1>1, FirstLeast
  <1>3. \E z \in At(l) : \A y \in At(l) :
            \/ Score(l, pin[l][z].eid) < Score(l, pin[l][y].eid)
            \/ Score(l, pin[l][z].eid) = Score(l, pin[l][y].eid) /\ z <= y
    BY <1>2
  <1>4. /\ Coldest(l) \in At(l)
        /\ \A y \in At(l) :
              \/ Score(l, pin[l][Coldest(l)].eid) < Score(l, pin[l][y].eid)
              \/ Score(l, pin[l][Coldest(l)].eid) = Score(l, pin[l][y].eid) /\ Coldest(l) <= y
    BY <1>3 DEF Coldest, At
  <1>5. \A y \in At(l) : Score(l, pin[l][y].eid) \in Nat
    BY PinsTyped, Scores
  <1> QED BY <1>4, <1>5

(* tier_pick_lfru finds an expert that is not pinned. *)
LEMMA HottestIs ==
    ASSUME HotTypeOK, HeatIsRight, NEW l \in Layers, Experts \ Pinned(l) # {}
    PROVE  Hottest(l) \in Experts \ Pinned(l)
  <1> DEFINE S == Experts \ Pinned(l)
             f == [e \in S |-> Score(l, e)]
             b == MaxClock * Unit + Unit
  <1>1. f \in [S -> Nat] /\ S \in SUBSET Nat /\ b \in Nat /\ \A e \in S : f[e] <= b
    BY HotSizes, Scores, HotStoreAssumption
  <1>2. \E e \in S : \A g \in S : f[e] > f[g] \/ (f[e] = f[g] /\ e <= g)
    <2> HIDE DEF f, b
    <2> QED BY <1>1, FirstGreatest
  <1>3. \E e \in S : \A g \in S : \/ Score(l, e) > Score(l, g)
                                  \/ Score(l, e) = Score(l, g) /\ e <= g
    BY <1>2
  <1> QED BY <1>3 DEF Hottest

(* repin_pick finds a pin on a device and one that is not on any. *)
LEMMA SwapIs ==
    ASSUME HotTypeOK, HeatIsRight, NEW l \in Layers, WantsSwap(l)
    PROVE  ColdOnGpu(l) \in GpuPins(l) /\ HotInRam(l) \in RamPins(l)
  <1> DEFINE f == [z \in At(l) |-> HeatOf(l, z)]
  <1>1. f \in [At(l) -> Nat] /\ At(l) \in SUBSET Nat /\ \A z \in At(l) : f[z] <= MaxClock
    BY PinsTyped, Scores DEF HeatOf
  <1>2. GpuPins(l) # {} /\ RamPins(l) # {} /\ GpuPins(l) \subseteq At(l) /\ RamPins(l) \subseteq At(l)
    BY DEF WantsSwap, GpuPins, RamPins, At
  <1>3. \E z \in GpuPins(l) : \A y \in GpuPins(l) :
            HeatOf(l, z) < HeatOf(l, y) \/ (HeatOf(l, z) = HeatOf(l, y) /\ z <= y)
    <2> DEFINE g == [z \in GpuPins(l) |-> HeatOf(l, z)]
    <2>1. g \in [GpuPins(l) -> Nat] /\ GpuPins(l) \in SUBSET Nat
      BY <1>1, <1>2
    <2>2. \E z \in GpuPins(l) : \A y \in GpuPins(l) : g[z] < g[y] \/ (g[z] = g[y] /\ z <= y)
      <3> HIDE DEF g
      <3> QED BY <1>2, <2>1, FirstLeast
    <2> QED BY <2>2
  <1>4. \E z \in RamPins(l) : \A y \in RamPins(l) :
            HeatOf(l, z) > HeatOf(l, y) \/ (HeatOf(l, z) = HeatOf(l, y) /\ z <= y)
    <2> DEFINE g == [z \in RamPins(l) |-> HeatOf(l, z)]
    <2>1. g \in [RamPins(l) -> Nat] /\ RamPins(l) \in SUBSET Nat /\ \A z \in RamPins(l) : g[z] <= MaxClock
      BY <1>1, <1>2
    <2>2. \E z \in RamPins(l) : \A y \in RamPins(l) : g[z] > g[y] \/ (g[z] = g[y] /\ z <= y)
      <3> HIDE DEF g
      <3> QED BY <1>2, <2>1, FirstGreatest, HotStoreAssumption
    <2> QED BY <2>2
  <1> QED BY <1>3, <1>4 DEF ColdOnGpu, HotInRam

(* tier_pick_lfru: an expert is admitted only when it is hotter than the pin *)
(* it replaces, by Margin accesses and whatever their recency.               *)
LEMMA AdmissionIsHotter ==
    ASSUME HotTypeOK, HeatIsRight, NEW l \in Layers, WantsAdmission(l)
    PROVE  /\ Coldest(l) \in At(l) /\ Hottest(l) \in Experts \ Pinned(l)
           /\ heat[l][pin[l][Coldest(l)].eid] < heat[l][Hottest(l)]
           /\ \A y \in At(l) : heat[l][pin[l][Coldest(l)].eid] <= heat[l][pin[l][y].eid]
  <1>1. At(l) # {} /\ Experts \ Pinned(l) # {}
    BY PinsTyped DEF WantsAdmission, At
  <1>2. Coldest(l) \in At(l) /\ Hottest(l) \in Experts \ Pinned(l)
    BY <1>1, ColdestIs, HottestIs
  <1> DEFINE c == pin[l][Coldest(l)].eid
             h == Hottest(l)
  <1>3. c \in Experts /\ h \in Experts
    BY <1>2, PinsTyped
  <1>4. ASSUME NEW e \in Experts
        PROVE  /\ heat[l][e] \in Nat /\ Recency(l, e) \in 0..Unit - 1
               /\ Score(l, e) = heat[l][e] * Unit + Recency(l, e) /\ Score(l, e) \in Nat
    BY Scores DEF Score
  <1>5. heat[l][c] < heat[l][h]
    <2>1. Score(l, h) > Score(l, c) + Unit
      <3>1. Score(l, h) > Score(l, c) + Score(l, c) \div 4 + Margin * Unit
        BY DEF WantsAdmission, Exceeds
      <3>2. Score(l, c) \div 4 \in Nat /\ Score(l, c) \in Nat /\ Score(l, h) \in Nat
        BY <1>3, <1>4
      <3>3. Margin * Unit \in Nat /\ Margin * Unit >= Unit
        <4>1. PICK k \in Nat : Margin = 1 + k
          <5>1. Margin - 1 \in Nat /\ Margin = 1 + (Margin - 1)
            BY HotStoreAssumption
          <5> QED BY <5>1
        <4>2. Margin * Unit = Unit + k * Unit /\ k * Unit \in Nat
          BY <4>1, HotStoreAssumption
        <4> QED BY <4>2, HotStoreAssumption
      <3>4. \A a, b, q, m, u \in Nat : a > b + q + m /\ m >= u => a > b + u
        OBVIOUS
      <3>5. Unit \in Nat
        BY HotStoreAssumption
      <3> QED BY <3>1, <3>2, <3>3, <3>4, <3>5
    <2> SUFFICES ASSUME heat[l][h] <= heat[l][c] PROVE FALSE
      BY <1>3, <1>4
    <2>2. heat[l][h] * Unit <= heat[l][c] * Unit /\ heat[l][h] * Unit \in Nat /\ heat[l][c] * Unit \in Nat
      <3>1. heat[l][h] \in Nat /\ heat[l][c] \in Nat
        BY <1>3, <1>4
      <3>2. PICK k \in Nat : heat[l][c] = heat[l][h] + k
        <4>1. heat[l][c] - heat[l][h] \in Nat /\ heat[l][c] = heat[l][h] + (heat[l][c] - heat[l][h])
          BY <3>1
        <4> QED BY <4>1
      <3>3. heat[l][c] * Unit = heat[l][h] * Unit + k * Unit /\ k * Unit \in Nat
        BY <3>1, <3>2, HotStoreAssumption
      <3> QED BY <3>1, <3>3, HotStoreAssumption
    <2>3. Recency(l, h) <= Unit - 1 /\ Recency(l, h) \in Nat /\ Recency(l, c) \in Nat
      BY <1>3, <1>4, HotStoreAssumption
    <2>4. /\ Score(l, h) = heat[l][h] * Unit + Recency(l, h)
          /\ Score(l, c) = heat[l][c] * Unit + Recency(l, c)
      BY <1>3, <1>4
    <2> QED BY <2>1, <2>2, <2>3, <2>4, HotStoreAssumption
  <1>6. ASSUME NEW y \in At(l) PROVE heat[l][c] <= heat[l][pin[l][y].eid]
    <2> DEFINE e == pin[l][y].eid
    <2>1. e \in Experts /\ Score(l, c) <= Score(l, e)
      BY <1>1, ColdestIs, PinsTyped
    <2>2. heat[l][c] * Unit + Recency(l, c) <= heat[l][e] * Unit + Recency(l, e)
      BY <2>1, <1>3, <1>4
    <2>3. heat[l][c] \in Nat /\ heat[l][e] \in Nat /\ Recency(l, c) \in 0..Unit - 1 /\ Recency(l, e) \in 0..Unit - 1
      BY <2>1, <1>3, <1>4
    <2> HIDE DEF e, c
    <2>4. heat[l][c] <= heat[l][e]
      BY <2>2, <2>3, HeatFirst
    <2> QED BY <2>4 DEF e
  <1> QED BY <1>2, <1>5, <1>6
----------------------------------------------------------------------------
(* pin_load.                                                               *)

Fields(s, e, d, v, h) == s.eid = e /\ s.device = d /\ s.dev = v /\ s.host = h

(* A change of the pins that keeps their experts and their number. *)
Renewed(q) ==
    /\ q \in [Layers -> Seq(Pins)]
    /\ \A l \in Layers : /\ DOMAIN q[l] = At(l)
                         /\ \A z \in At(l) : q[l][z].eid = pin[l][z].eid

(* Renewed pins are of the same experts. *)
LEMMA EidsStay ==
    ASSUME HotTypeOK, Distinct, Renewed(pin')
    PROVE  /\ Distinct' /\ pin' \in [Layers -> Seq(Pins)]
           /\ \A l \in Layers : At(l)' = At(l)
  BY DEF Renewed, Distinct, At

(* Every pin of a layer is replaced by one of the same expert. *)
LEMMA Replaces ==
    ASSUME HotTypeOK, NEW q, q = [l \in Layers |-> q[l]],
           \A l \in Layers : q[l] = [z \in At(l) |-> q[l][z]],
           \A l \in Layers : \A z \in At(l) : q[l][z] \in Pins /\ q[l][z].eid = pin[l][z].eid
    PROVE  Renewed(q)
  <1>1. ASSUME NEW l \in Layers
        PROVE  q[l] \in Seq(Pins) /\ DOMAIN q[l] = At(l)
    <2>1. At(l) = 1..Len(pin[l]) /\ Len(pin[l]) \in Nat
      BY PinsTyped
    <2>2. q[l] = [z \in 1..Len(pin[l]) |-> q[l][z]] /\ \A z \in 1..Len(pin[l]) : q[l][z] \in Pins
      BY <2>1
    <2>3. q[l] \in Seq(Pins)
      <3> DEFINE r == q[l]
      <3>1. r = [z \in 1..Len(pin[l]) |-> r[z]] /\ \A z \in 1..Len(pin[l]) : r[z] \in Pins
        BY <2>2
      <3> HIDE DEF r
      <3>2. r \in [1..Len(pin[l]) -> Pins]
        BY <3>1
      <3>3. r \in Seq(Pins)
        BY <3>2, <2>1
      <3> QED BY <3>3 DEF r
    <2>4. DOMAIN q[l] = At(l)
      BY <2>1, <2>2
    <2> QED BY <2>3, <2>4
  <1>2. q \in [Layers -> Seq(Pins)]
    BY <1>1
  <1>3. \A l \in Layers : DOMAIN q[l] = At(l)
    BY <1>1
  <1>4. \A l \in Layers : \A z \in At(l) : q[l][z].eid = pin[l][z].eid
    OBVIOUS
  <1> QED BY <1>2, <1>3, <1>4 DEF Renewed

(* A round of pin_load: the pins of its experts get their copies in RAM. *)
LEMMA Loads ==
    ASSUME HotTypeOK, NEW pairs, NEW q, q = LoadedBy(pairs, pin)
    PROVE  /\ Renewed(q)
           /\ \A l \in Layers : \A z \in At(l) :
                 /\ q[l][z].device = pin[l][z].device /\ q[l][z].dev = pin[l][z].dev
                 /\ q[l][z].host = IF <<l, pin[l][z].eid>> \in pairs THEN pin[l][z].eid ELSE pin[l][z].host
  <1> DEFINE g(l, z) == IF <<l, pin[l][z].eid>> \in pairs
                        THEN [pin[l][z] EXCEPT !.host = pin[l][z].eid] ELSE pin[l][z]
  <1>1. ASSUME NEW l \in Layers, NEW z \in At(l)
        PROVE  /\ g(l, z) \in Pins /\ g(l, z).eid = pin[l][z].eid
               /\ g(l, z).device = pin[l][z].device /\ g(l, z).dev = pin[l][z].dev
               /\ g(l, z).host = IF <<l, pin[l][z].eid>> \in pairs THEN pin[l][z].eid ELSE pin[l][z].host
    <2>1. pin[l][z] \in Pins /\ pin[l][z].eid \in Experts
      BY PinsTyped
    <2> QED BY <2>1 DEF Pins
  <1>2. q = [l \in Layers |-> [z \in At(l) |-> g(l, z)]]
    BY DEF LoadedBy, At
  <1> HIDE DEF g
  <1>3. \A l \in Layers : q[l] = [z \in At(l) |-> g(l, z)]
    BY <1>2
  <1>4. \A l \in Layers : \A z \in At(l) : q[l][z] = g(l, z)
    BY <1>3
  <1>5. \A l \in Layers : q[l] = [z \in At(l) |-> q[l][z]]
    BY <1>3
  <1>6. q = [l \in Layers |-> q[l]]
    BY <1>2
  <1>7. \A l \in Layers : \A z \in At(l) : q[l][z] \in Pins /\ q[l][z].eid = pin[l][z].eid
    BY <1>1, <1>4
  <1>8. Renewed(q)
    BY <1>5, <1>6, <1>7, Replaces
  <1> QED BY <1>1, <1>4, <1>8

\* q: the pins, with those of the expert of p changed by up.
Changed(q, p, up) ==
    q = [pin EXCEPT ![p[1]] = [z \in DOMAIN @ |-> IF @[z].eid = p[2] THEN up[@[z]] ELSE @[z]]]

(* WithPin: the pins of one expert are changed by up, the others stay. *)
LEMMA Changes ==
    ASSUME HotTypeOK, NEW p \in Pair, NEW q, NEW up,
           \A s \in Pins : up[s] \in Pins /\ up[s].eid = s.eid,
           Changed(q, p, up)
    PROVE  /\ Renewed(q)
           /\ \A l \in Layers : \A z \in At(l) :
                 q[l][z] = IF <<l, pin[l][z].eid>> = p THEN up[pin[l][z]] ELSE pin[l][z]
  <1> DEFINE g(l, z) == IF <<l, pin[l][z].eid>> = p THEN up[pin[l][z]] ELSE pin[l][z]
  <1>0. p = <<p[1], p[2]>> /\ p[1] \in Layers /\ p[2] \in Experts
    BY DEF Pair
  <1>1. ASSUME NEW l \in Layers, NEW z \in At(l)
        PROVE  g(l, z) \in Pins /\ g(l, z).eid = pin[l][z].eid
    <2>1. pin[l][z] \in Pins
      BY PinsTyped
    <2> QED BY <2>1
  <1>2. pin = [l \in Layers |-> pin[l]] /\ \A l \in Layers : pin[l] = [z \in At(l) |-> pin[l][z]]
    BY PinsTyped DEF HotTypeOK, At
  <1>3. q = [l \in Layers |-> q[l]]
    BY <1>2 DEF Changed
  <1>4. ASSUME NEW l \in Layers PROVE q[l] = [z \in At(l) |-> g(l, z)]
    <2>1. CASE l = p[1]
      <3>1. q[l] = [z \in At(l) |-> IF pin[l][z].eid = p[2] THEN up[pin[l][z]] ELSE pin[l][z]]
        BY <2>1, <1>2 DEF At, Changed
      <3>2. \A z \in At(l) : g(l, z) = IF pin[l][z].eid = p[2] THEN up[pin[l][z]] ELSE pin[l][z]
        BY <2>1, <1>0
      <3> HIDE DEF g
      <3> QED BY <3>1, <3>2
    <2>2. CASE l # p[1]
      <3>1. q[l] = pin[l]
        BY <2>2, <1>2 DEF Changed
      <3>2. \A z \in At(l) : g(l, z) = pin[l][z]
        BY <2>2, <1>0
      <3> HIDE DEF g
      <3> QED BY <3>1, <3>2, <1>2
    <2> QED BY <2>1, <2>2
  <1> HIDE DEF g
  <1>5. \A l \in Layers : \A z \in At(l) : q[l][z] = g(l, z)
    BY <1>4
  <1>6. \A l \in Layers : q[l] = [z \in At(l) |-> q[l][z]]
    BY <1>4
  <1>7. \A l \in Layers : \A z \in At(l) : q[l][z] \in Pins /\ q[l][z].eid = pin[l][z].eid
    BY <1>1, <1>5
  <1>8. Renewed(q)
    BY <1>3, <1>6, <1>7, Replaces
  <1> QED BY <1>5, <1>8 DEF g

\* q: the pins, with the expert of p on device d.
Sent(q, p, d) ==
    q = WithPin(p, LAMBDA s : [s EXCEPT !.device = d, !.dev = s.eid,
                                        !.host = IF gpu.release THEN NoExpert ELSE @])

(* One expert goes to a device. *)
LEMMA Uploads ==
    ASSUME HotTypeOK, NEW p \in Pair, NEW d \in Devices, NEW q, Sent(q, p, d)
    PROVE  /\ Renewed(q)
           /\ \A l \in Layers : \A z \in At(l) :
                 IF <<l, pin[l][z].eid>> = p
                 THEN /\ q[l][z].device = d /\ q[l][z].dev = pin[l][z].eid
                      /\ q[l][z].host = IF gpu.release THEN NoExpert ELSE pin[l][z].host
                 ELSE q[l][z] = pin[l][z]
  <1> DEFINE up == [s \in Pins |-> [s EXCEPT !.device = d, !.dev = s.eid,
                                             !.host = IF gpu.release THEN NoExpert ELSE @]]
  <1>1. ASSUME NEW s \in Pins
        PROVE  /\ up[s] = [s EXCEPT !.device = d, !.dev = s.eid, !.host = IF gpu.release THEN NoExpert ELSE @]
               /\ up[s] \in Pins /\ up[s].eid = s.eid /\ up[s].device = d /\ up[s].dev = s.eid
               /\ up[s].host = IF gpu.release THEN NoExpert ELSE s.host
    BY DEF Pins
  <1>2. \A l \in Layers : \A z \in At(l) : pin[l][z] \in Pins
    BY PinsTyped
  <1>3. p[1] \in Layers
    BY DEF Pair
  <1> HIDE DEF up
  <1>4. Changed(q, p, up)
    <2>1. \A z \in DOMAIN pin[p[1]] : pin[p[1]][z] \in Pins
      BY <1>2, <1>3 DEF At
    <2>2. q = [pin EXCEPT ![p[1]] = [z \in DOMAIN pin[p[1]] |->
                  IF pin[p[1]][z].eid = p[2]
                  THEN [pin[p[1]][z] EXCEPT !.device = d, !.dev = pin[p[1]][z].eid,
                                            !.host = IF gpu.release THEN NoExpert ELSE @]
                  ELSE pin[p[1]][z]]]
      BY DEF WithPin, Sent
    <2>3. [z \in DOMAIN pin[p[1]] |->
                  IF pin[p[1]][z].eid = p[2]
                  THEN [pin[p[1]][z] EXCEPT !.device = d, !.dev = pin[p[1]][z].eid,
                                            !.host = IF gpu.release THEN NoExpert ELSE @]
                  ELSE pin[p[1]][z]]
          = [z \in DOMAIN pin[p[1]] |->
                  IF pin[p[1]][z].eid = p[2] THEN up[pin[p[1]][z]] ELSE pin[p[1]][z]]
      BY <1>1, <2>1
    <2> QED BY <2>2, <2>3 DEF Changed
  <1>5. /\ Renewed(q)
        /\ \A l \in Layers : \A z \in At(l) :
              q[l][z] = IF <<l, pin[l][z].eid>> = p THEN up[pin[l][z]] ELSE pin[l][z]
    <2>1. \A s \in Pins : up[s] \in Pins /\ up[s].eid = s.eid
      BY <1>1
    <2> QED BY <1>4, <2>1, Changes
  <1>6. ASSUME NEW l \in Layers, NEW z \in At(l)
        PROVE  /\ up[pin[l][z]].device = d /\ up[pin[l][z]].dev = pin[l][z].eid
               /\ up[pin[l][z]].host = IF gpu.release THEN NoExpert ELSE pin[l][z].host
    BY <1>1, <1>2
  <1>7. ASSUME NEW l \in Layers, NEW z \in At(l)
        PROVE  IF <<l, pin[l][z].eid>> = p
               THEN /\ q[l][z].device = d /\ q[l][z].dev = pin[l][z].eid
                    /\ q[l][z].host = IF gpu.release THEN NoExpert ELSE pin[l][z].host
               ELSE q[l][z] = pin[l][z]
    <2>1. CASE <<l, pin[l][z].eid>> = p
      <3>1. q[l][z] = up[pin[l][z]]
        BY <1>5, <2>1
      <3> QED BY <1>6, <2>1, <3>1
    <2>2. CASE <<l, pin[l][z].eid>> # p
      BY <1>5, <2>2
    <2> QED BY <2>1, <2>2
  <1> QED BY <1>5, <1>7

(* moe reads the host copy of a pin again. *)
LEMMA HostIsRead ==
    ASSUME HotTypeOK, NEW p \in Pair, NEW q,
           q = WithPin(p, LAMBDA s : [s EXCEPT !.host = s.eid])
    PROVE  /\ Renewed(q)
           /\ \A l \in Layers : \A z \in At(l) :
                 /\ q[l][z].device = pin[l][z].device /\ q[l][z].dev = pin[l][z].dev
                 /\ q[l][z].host \in {pin[l][z].eid, pin[l][z].host}
  <1> DEFINE up == [s \in Pins |-> [s EXCEPT !.host = s.eid]]
  <1>1. ASSUME NEW s \in Pins
        PROVE  /\ up[s] = [s EXCEPT !.host = s.eid]
               /\ up[s] \in Pins /\ up[s].eid = s.eid /\ up[s].device = s.device /\ up[s].dev = s.dev
               /\ up[s].host = s.eid
    BY DEF Pins
  <1>2. \A l \in Layers : \A z \in At(l) : pin[l][z] \in Pins
    BY PinsTyped
  <1>3. p[1] \in Layers
    BY DEF Pair
  <1> HIDE DEF up
  <1>4. Changed(q, p, up)
    <2>1. \A z \in DOMAIN pin[p[1]] : pin[p[1]][z] \in Pins
      BY <1>2, <1>3 DEF At
    <2>2. q = [pin EXCEPT ![p[1]] = [z \in DOMAIN pin[p[1]] |->
                  IF pin[p[1]][z].eid = p[2] THEN [pin[p[1]][z] EXCEPT !.host = pin[p[1]][z].eid]
                  ELSE pin[p[1]][z]]]
      BY DEF WithPin
    <2>3. [z \in DOMAIN pin[p[1]] |->
                  IF pin[p[1]][z].eid = p[2] THEN [pin[p[1]][z] EXCEPT !.host = pin[p[1]][z].eid]
                  ELSE pin[p[1]][z]]
          = [z \in DOMAIN pin[p[1]] |->
                  IF pin[p[1]][z].eid = p[2] THEN up[pin[p[1]][z]] ELSE pin[p[1]][z]]
      BY <1>1, <2>1
    <2> QED BY <2>2, <2>3 DEF Changed
  <1>5. /\ Renewed(q)
        /\ \A l \in Layers : \A z \in At(l) :
              q[l][z] = IF <<l, pin[l][z].eid>> = p THEN up[pin[l][z]] ELSE pin[l][z]
    <2>1. \A s \in Pins : up[s] \in Pins /\ up[s].eid = s.eid
      BY <1>1
    <2> QED BY <1>4, <2>1, Changes
  <1>6. \A l \in Layers : \A z \in At(l) : up[pin[l][z]].eid = pin[l][z].eid
    BY <1>1, <1>2
  <1> QED BY <1>1, <1>2, <1>5, <1>6

(* A device holds finitely many experts, fewer when it keeps only some. *)
LEMMA Held ==
    ASSUME NEW d \in Devices
    PROVE  /\ IsFiniteSet(On(d)) /\ Cardinality(On(d)) \in Nat
           /\ \A S : S \subseteq On(d) => Cardinality(S) <= Cardinality(On(d))
           /\ \A S, p : S \subseteq On(d) \union {p} => Cardinality(S) <= Cardinality(On(d)) + 1
  <1>1. IsFiniteSet(On(d))
    <2>1. On(d) \subseteq Pair
      BY DEF On
    <2> QED BY <2>1, HotSizes, FS_Subset
  <1>2. Cardinality(On(d)) \in Nat
    BY <1>1, FS_CardinalityType
  <1>3. \A S : S \subseteq On(d) => Cardinality(S) <= Cardinality(On(d))
    BY <1>1, FS_Subset
  <1>4. ASSUME NEW S, NEW p, S \subseteq On(d) \union {p}
        PROVE  Cardinality(S) <= Cardinality(On(d)) + 1
    <2> DEFINE T == On(d) \union {p}
    <2>1. IsFiniteSet(T) /\ (Cardinality(T) = Cardinality(On(d)) \/ Cardinality(T) = Cardinality(On(d)) + 1)
      BY <1>1, FS_AddElement
    <2>2. Cardinality(S) <= Cardinality(T) /\ Cardinality(S) \in Nat
      <3> HIDE DEF T
      <3>1. S \subseteq T
        BY <1>4 DEF T
      <3>2. IsFiniteSet(S)
        BY <3>1, <2>1, FS_Subset
      <3> QED BY <3>1, <3>2, <2>1, FS_Subset, FS_CardinalityType
    <2> HIDE DEF T
    <2> QED BY <1>2, <2>1, <2>2
  <1> QED BY <1>1, <1>2, <1>3, <1>4

(* Where no pin changes its device, no device changes what it holds. *)
LEMMA DevicesStay ==
    ASSUME HotTypeOK, Renewed(pin'), NEW d \in Devices,
           \A l \in Layers : \A z \in At(l) : pin'[l][z].device = pin[l][z].device
    PROVE  On(d)' = On(d)
  <1>1. ASSUME NEW p \in Pair PROVE p[1] \in Layers
    BY DEF Pair
  <1>2. \A l \in Layers : At(l)' = At(l)
    BY DEF Renewed, At
  <1>3. ASSUME NEW p \in Pair
        PROVE  (\E z \in At(p[1])' : pin'[p[1]][z].eid = p[2] /\ pin'[p[1]][z].device = d)
               <=> (\E z \in At(p[1]) : pin[p[1]][z].eid = p[2] /\ pin[p[1]][z].device = d)
    <2>1. At(p[1])' = At(p[1]) /\ p[1] \in Layers
      BY <1>1, <1>2
    <2>2. \A z \in At(p[1]) : /\ pin'[p[1]][z].eid = pin[p[1]][z].eid
                              /\ pin'[p[1]][z].device = pin[p[1]][z].device
      BY <2>1 DEF Renewed
    <2> QED BY <2>1, <2>2
  <1> QED BY <1>3 DEF On

(* At start-up nothing is pinned and every device has all its room. *)
LEMMA HotStarts == HotInit => HotInv
  <1> SUFFICES ASSUME HotInit PROVE HotInv
    OBVIOUS
  <1> USE HotStoreAssumption
  <1>1. HotTypeOK
    <2>1. pin \in [Layers -> Seq(Pins)]
      BY DEF HotInit
    <2> QED BY <2>1 DEF HotInit, HotTypeOK, Unread
  <1>2. \A l \in Layers : pin[l] = <<>> /\ At(l) = {}
    BY DEF HotInit, At
  <1>3. Distinct /\ PinsAreRight
    BY <1>2 DEF Distinct, PinsAreRight, HotInit, Unread
  <1>4. BootIsRight
    BY DEF BootIsRight, BootType, HotInit, Unread
  <1>5. RoomIsRight
    <2>1. ASSUME NEW d \in Devices PROVE On(d) = {}
      BY <1>2 DEF On, Pair
    <2>2. Cardinality({}) = 0
      BY FS_EmptySet
    <2>3. \A d \in Devices : room[d] = DeviceRoom[d] /\ DeviceRoom[d] \in Nat
      BY DEF HotInit
    <2>4. ASSUME NEW d \in Devices
          PROVE  Cardinality(On(d)) <= DeviceRoom[d] /\ Cardinality(On(d)) + room[d] <= DeviceRoom[d]
      <3>1. Cardinality(On(d)) = 0 /\ room[d] = DeviceRoom[d] /\ DeviceRoom[d] \in Nat
        BY <2>1, <2>2, <2>3
      <3> QED BY <3>1
    <2> QED BY <2>4 DEF RoomIsRight
  <1>6. HeatIsRight
    BY DEF HeatIsRight, HotInit
  <1> QED BY <1>1, <1>3, <1>4, <1>5, <1>6 DEF HotInv

(* The history ranks each expert once, and nothing is on a device yet. *)
LEMMA HistoryStep ==
    ASSUME HotInv, NEW rank \in Rankings, ReadHistory(rank)
    PROVE  HotInv'
  <1> USE HotStoreAssumption
  <1> DEFINE prefix == IF gpu.release /\ TotalRoom > 0 THEN TotalRoom + Cardinality(Devices) ELSE 0
             n == Smaller(PinMax + prefix, Len(rank))
  <1>1. /\ rank \in Seq(Pair) /\ Len(rank) \in Nat /\ DOMAIN rank = 1..Len(rank)
        /\ \A a, b \in 1..Len(rank) : rank[a] = rank[b] => a = b
    <2>1. PICK k \in 1..Cardinality(Pair) : rank \in [1..k -> Pair] /\ IsInjective(rank)
      BY DEF Rankings
    <2>2. k \in Nat /\ DOMAIN rank = 1..k
      BY <2>1, HotSizes, FS_CardinalityType
    <2>3. rank \in Seq(Pair) /\ Len(rank) = k
      BY <2>1, <2>2
    <2>4. \A a, b \in 1..k : rank[a] = rank[b] => a = b
      BY <2>1, <2>2 DEF IsInjective
    <2> QED BY <2>2, <2>3, <2>4
  <1>2. n \in Nat /\ n <= Len(rank) /\ Smaller(prefix, n) \in Nat /\ Smaller(prefix, n) <= n
    <2>1. prefix \in Nat
      BY HotSizes
    <2> HIDE DEF prefix
    <2> QED BY <1>1, <2>1 DEF Smaller
  <1>3. /\ boot.at = "start"
        /\ boot' = [at |-> "load", rank |-> rank, n |-> n, prefix |-> Smaller(prefix, n), base |-> 0, end |-> 0]
        /\ UNCHANGED <<gpu, heat, last, clock, room, passes, out>>
    BY DEF ReadHistory
  <1>4. PICK mine \in [Layers -> UNION {[1..k -> 1..n] : k \in 0..n}] :
            /\ \A l \in Layers : InOrder(mine[l], {a \in 1..n : rank[a][1] = l})
            /\ pin' = [l \in Layers |-> [z \in DOMAIN mine[l] |-> Slot(rank[mine[l][z]][2])]]
    BY DEF ReadHistory
  <1> HIDE DEF n, prefix
  <1>5. ASSUME NEW l \in Layers
        PROVE  /\ \E k \in Nat : mine[l] \in [1..k -> 1..n]
               /\ \A z \in DOMAIN mine[l] : /\ mine[l][z] \in 1..n /\ mine[l][z] \in 1..Len(rank)
                                            /\ rank[mine[l][z]] = <<l, rank[mine[l][z]][2]>>
                                            /\ rank[mine[l][z]][2] \in Experts
               /\ \A y, z \in DOMAIN mine[l] : mine[l][y] = mine[l][z] => y = z
    <2> DEFINE Maps == UNION {[1..k -> 1..n] : k \in 0..n}
    <2>0. mine[l] \in Maps
      <3>1. mine \in [Layers -> Maps]
        BY <1>4
      <3> HIDE DEF Maps
      <3> QED BY <3>1
    <2>1. PICK k \in 0..n : mine[l] \in [1..k -> 1..n]
      BY <2>0
    <2>2. k \in Nat /\ DOMAIN mine[l] = 1..k /\ \A z \in 1..k : mine[l][z] \in 1..n
      BY <1>2, <2>1
    <2>3. ASSUME NEW z \in 1..k
          PROVE  /\ mine[l][z] \in 1..Len(rank) /\ rank[mine[l][z]] \in Pair /\ rank[mine[l][z]][1] = l
      <3>1. mine[l][z] \in {mine[l][y] : y \in DOMAIN mine[l]}
        BY <2>2
      <3>2. mine[l][z] \in {a \in 1..n : rank[a][1] = l}
        BY <1>4, <3>1 DEF InOrder
      <3> QED BY <3>2, <1>1, <1>2
    <2>4. \A z \in 1..k : rank[mine[l][z]] = <<l, rank[mine[l][z]][2]>> /\ rank[mine[l][z]][2] \in Experts
      BY <2>3 DEF Pair
    <2>5. ASSUME NEW y \in 1..k, NEW z \in 1..k, mine[l][y] = mine[l][z] PROVE y = z
      <3>1. \A x, w \in 1..k : x < w => mine[l][x] < mine[l][w]
        BY <1>4, <2>2 DEF InOrder
      <3>2. mine[l][y] \in Nat /\ mine[l][z] \in Nat
        BY <2>2, <1>2
      <3> QED BY <3>1, <3>2, <2>5, <2>2
    <2> QED BY <2>1, <2>2, <2>3, <2>4, <2>5
  <1>6. ASSUME NEW l \in Layers
        PROVE  /\ pin'[l] \in Seq(Pins) /\ At(l)' = DOMAIN mine[l]
               /\ \A z \in DOMAIN mine[l] : pin'[l][z] = Slot(rank[mine[l][z]][2])
    <2>1. PICK k \in Nat : mine[l] \in [1..k -> 1..n]
      BY <1>5
    <2>2. DOMAIN mine[l] = 1..k
      BY <2>1
    <2>3. pin'[l] = [z \in 1..k |-> Slot(rank[mine[l][z]][2])]
      BY <1>4, <2>2
    <2>4. \A e \in Experts : Slot(e) \in Pins
      BY DEF Slot, Pins
    <2>5. \A z \in 1..k : Slot(rank[mine[l][z]][2]) \in Pins
      BY <1>5, <2>2, <2>4
    <2>6. pin'[l] \in Seq(Pins)
      BY <2>3, <2>5, IsASeq
    <2> QED BY <2>2, <2>3, <2>6 DEF At
  <1>7. HotTypeOK'
    <2>1. pin' \in [Layers -> Seq(Pins)]
      BY <1>4, <1>6
    <2> QED BY <2>1, <1>3 DEF HotInv, HotTypeOK
  <1>8. Distinct'
    <2>1. ASSUME NEW l \in Layers, NEW y \in At(l)', NEW z \in At(l)', pin'[l][y].eid = pin'[l][z].eid
          PROVE  y = z
      <3>1. y \in DOMAIN mine[l] /\ z \in DOMAIN mine[l]
        BY <1>6
      <3>2. rank[mine[l][y]][2] = rank[mine[l][z]][2]
        <4>1. \A e : Slot(e).eid = e
          BY DEF Slot
        <4>2. /\ pin'[l][y] = Slot(rank[mine[l][y]][2])
              /\ pin'[l][z] = Slot(rank[mine[l][z]][2])
          BY <3>1, <1>6
        <4> QED BY <2>1, <4>1, <4>2
      <3>3. rank[mine[l][y]] = rank[mine[l][z]]
        <4>1. /\ rank[mine[l][y]] = <<l, rank[mine[l][y]][2]>>
              /\ rank[mine[l][z]] = <<l, rank[mine[l][z]][2]>>
          BY <3>1, <1>5
        <4> QED BY <3>2, <4>1
      <3>4. mine[l][y] = mine[l][z]
        BY <3>1, <3>3, <1>1, <1>5
      <3> QED BY <3>1, <3>4, <1>5
    <2> QED BY <2>1 DEF Distinct
  <1>9. BootIsRight'
    BY <1>1, <1>2, <1>3 DEF BootIsRight, BootType
  <1>10. PinsAreRight'
    <2>1. ASSUME NEW l \in Layers, NEW z \in At(l)' PROVE Whole(pin'[l][z]) /\ Booting(l, z)'
      <3>1. z \in DOMAIN mine[l] /\ pin'[l][z] = Slot(rank[mine[l][z]][2])
        BY <1>6
      <3>2. Whole(pin'[l][z])
        BY <3>1 DEF Whole, Slot, OnGpu
      <3>3. /\ mine[l][z] \in 1..boot'.n
            /\ boot'.rank[mine[l][z]] = <<l, pin'[l][z].eid>>
            /\ ~(mine[l][z] <= Loaded')
        BY <1>2, <1>3, <1>5, <3>1 DEF Loaded, Slot
      <3> QED BY <3>2, <3>3 DEF Booting
    <2> QED BY <2>1, <1>3 DEF PinsAreRight
  <1>11. RoomIsRight'
    <2>1. ASSUME NEW d \in Devices PROVE On(d)' = {}
      <3>1. ASSUME NEW p \in Pair, NEW z \in At(p[1])' PROVE pin'[p[1]][z].device # d
        <4>1. p[1] \in Layers
          BY DEF Pair
        <4>2. pin'[p[1]][z] = Slot(rank[mine[p[1]][z]][2])
          BY <4>1, <1>6
        <4> QED BY <4>2 DEF Slot
      <3> QED BY <3>1 DEF On
    <2>2. Cardinality({}) = 0
      BY FS_EmptySet
    <2>3. \A d \in Devices : /\ DeviceRoom[d] \in Nat /\ room[d] \in Nat /\ Cardinality(On(d)) \in Nat
                             /\ Cardinality(On(d)) + room[d] <= DeviceRoom[d]
      BY <1>3, Held DEF HotInv, HotTypeOK, RoomIsRight
    <2>4. ASSUME NEW d \in Devices PROVE room[d] <= DeviceRoom[d]
      BY <2>3
    <2>5. room' = room
      BY <1>3
    <2>6. ASSUME NEW d \in Devices
          PROVE  /\ Cardinality(On(d)') <= DeviceRoom[d]
                 /\ Cardinality(On(d)') + room'[d] <= DeviceRoom[d]
      <3>1. Cardinality(On(d)') = 0 /\ room'[d] = room[d] /\ DeviceRoom[d] \in Nat /\ room[d] \in Nat
        BY <2>1, <2>2, <2>3, <2>5
      <3> QED BY <2>4, <3>1
    <2> QED BY <2>6 DEF RoomIsRight
  <1>12. HeatIsRight'
    <2>1. out = {}
      BY <1>3 DEF HotInv, HeatIsRight
    <2> QED BY <2>1, <1>3 DEF HotInv, HeatIsRight
  <1> QED BY <1>7, <1>8, <1>9, <1>10, <1>11, <1>12 DEF HotInv

(* What a change of the pins keeps when it changes no device. *)
LEMMA RoomStays ==
    ASSUME HotInv, Renewed(pin'), UNCHANGED room, boot.at # "serving" \/ boot'.at = "serving",
           \A l \in Layers : \A z \in At(l) : pin'[l][z].device = pin[l][z].device
    PROVE  RoomIsRight'
  <1>1. \A d \in Devices : On(d)' = On(d)
    BY DevicesStay DEF HotInv
  <1>2. ASSUME NEW d \in Devices
        PROVE  /\ Cardinality(On(d)') <= DeviceRoom[d]
               /\ boot'.at # "serving" => Cardinality(On(d)') + room'[d] <= DeviceRoom[d]
    BY <1>1 DEF HotInv, RoomIsRight
  <1> QED BY <1>2 DEF RoomIsRight

(* A round, and what is left after the rounds, are read into RAM. *)
LEMMA LoadRoundStep == HotInv /\ LoadRound => HotInv'
  <1> SUFFICES ASSUME HotInv, LoadRound PROVE HotInv'
    OBVIOUS
  <1> USE HotStoreAssumption
  <1> DEFINE pairs == {boot.rank[a] : a \in (boot.base + 1)..RoundEnd}
  <1>1. /\ boot.at = "load" /\ boot.base < First /\ pin' = LoadedBy(pairs, pin)
        /\ boot' = [boot EXCEPT !.at = "upload", !.end = RoundEnd]
        /\ UNCHANGED <<gpu, heat, last, clock, room, passes, out>>
    BY DEF LoadRound
  <1> HIDE DEF pairs
  <1>2. /\ Renewed(pin')
        /\ \A l \in Layers : \A z \in At(l) :
              /\ pin'[l][z].device = pin[l][z].device /\ pin'[l][z].dev = pin[l][z].dev
              /\ pin'[l][z].host = IF <<l, pin[l][z].eid>> \in pairs THEN pin[l][z].eid ELSE pin[l][z].host
    BY <1>1, Loads DEF HotInv
  <1>3. /\ boot \in BootType /\ First \in Nat /\ RoundEnd \in Nat /\ RoundEnd <= First
        /\ boot.prefix <= boot.n /\ boot.n <= Len(boot.rank) /\ First <= boot.n
    <2>1. /\ boot \in BootType /\ boot.prefix \in Nat /\ boot.n \in Nat /\ boot.base \in Nat
          /\ boot.prefix <= boot.n /\ boot.n <= Len(boot.rank)
      BY DEF HotInv, BootIsRight, BootType
    <2>2. First \in Nat /\ First <= boot.n
      BY <2>1 DEF First
    <2>3. RoundEnd \in Nat /\ RoundEnd <= First
      BY <2>1, <2>2 DEF RoundEnd, Smaller
    <2> QED BY <2>1, <2>2, <2>3
  <1>4. /\ boot' \in BootType /\ boot'.at = "upload" /\ boot'.end = RoundEnd
        /\ boot'.rank = boot.rank /\ boot'.n = boot.n /\ boot'.prefix = boot.prefix /\ boot'.base = boot.base
    BY <1>1, <1>3 DEF BootType
  <1>5. Distinct' /\ pin' \in [Layers -> Seq(Pins)] /\ \A l \in Layers : At(l)' = At(l)
    BY <1>2, EidsStay DEF HotInv
  <1>6. HotTypeOK'
    BY <1>1, <1>4, <1>5 DEF HotInv, HotTypeOK
  <1>7. BootIsRight'
    <2>1. First' = First
      BY <1>4 DEF First
    <2> QED BY <1>3, <1>4, <2>1 DEF HotInv, BootIsRight
  <1>8. ASSUME NEW l \in Layers, NEW z \in At(l) PROVE Whole(pin'[l][z]) /\ Booting(l, z)'
    <2>1. /\ pin'[l][z].device = pin[l][z].device /\ pin'[l][z].dev = pin[l][z].dev
          /\ pin'[l][z].eid = pin[l][z].eid
          /\ pin'[l][z].host = IF <<l, pin[l][z].eid>> \in pairs THEN pin[l][z].eid ELSE pin[l][z].host
      BY <1>2 DEF Renewed
    <2>2. Whole(pin[l][z])
      BY DEF HotInv, PinsAreRight
    <2>3. Whole(pin'[l][z])
      BY <2>1, <2>2 DEF Whole, OnGpu
    <2>4. PICK a \in 1..boot.n : /\ boot.rank[a] = <<l, pin[l][z].eid>>
                                 /\ a <= boot.base => Usable(pin[l][z])
      BY <1>1 DEF HotInv, PinsAreRight, Booting, Loaded
    <2>5. ASSUME a <= RoundEnd PROVE Usable(pin'[l][z])
      <3>1. CASE a <= boot.base
        <4>1. pin[l][z].eid \in Experts
          BY PinsTyped DEF HotInv
        <4> QED BY <2>1, <2>3, <2>4, <3>1, <4>1, HotSizes DEF Usable, OnGpu
      <3>2. CASE ~(a <= boot.base)
        <4>1. boot.base \in Nat /\ a \in Nat
          BY <1>3, <2>4 DEF BootType
        <4>2. a \in (boot.base + 1)..RoundEnd
          BY <4>1, <3>2, <2>5, <1>3
        <4>3. pin'[l][z].host = pin'[l][z].eid
          BY <2>1, <2>4, <4>2 DEF pairs
        <4>4. pin'[l][z].eid \in Experts
          BY <2>1, PinsTyped DEF HotInv
        <4> QED BY <2>3, <4>3, <4>4, HotSizes DEF Usable
      <3> QED BY <3>1, <3>2
    <2>6. Loaded' = RoundEnd
      BY <1>4 DEF Loaded
    <2> QED BY <1>4, <2>1, <2>3, <2>4, <2>5, <2>6 DEF Booting
  <1>9. PinsAreRight'
    BY <1>4, <1>5, <1>8 DEF PinsAreRight
  <1>10. RoomIsRight'
    BY <1>1, <1>2, RoomStays
  <1>11. HeatIsRight'
    <2>1. out = {}
      BY <1>1 DEF HotInv, HeatIsRight
    <2> QED BY <2>1, <1>1 DEF HotInv, HeatIsRight
  <1> QED BY <1>5, <1>6, <1>7, <1>9, <1>10, <1>11 DEF HotInv

(* The pins beyond the prefix are read, and the engine may serve. *)
LEMMA LoadRestStep == HotInv /\ LoadRest => HotInv'
  <1> SUFFICES ASSUME HotInv, LoadRest PROVE HotInv'
    OBVIOUS
  <1> USE HotStoreAssumption
  <1> DEFINE pairs == {boot.rank[a] : a \in (First + 1)..boot.n}
  <1>1. /\ boot.at = "load" /\ boot.base >= First /\ pin' = LoadedBy(pairs, pin)
        /\ boot' = [Unread EXCEPT !.at = "serving"]
        /\ UNCHANGED <<gpu, heat, last, clock, room, passes, out>>
    BY DEF LoadRest
  <1> HIDE DEF pairs
  <1>2. /\ Renewed(pin')
        /\ \A l \in Layers : \A z \in At(l) :
              /\ pin'[l][z].device = pin[l][z].device /\ pin'[l][z].dev = pin[l][z].dev
              /\ pin'[l][z].host = IF <<l, pin[l][z].eid>> \in pairs THEN pin[l][z].eid ELSE pin[l][z].host
    BY <1>1, Loads DEF HotInv
  <1>3. boot \in BootType /\ boot.base \in Nat /\ boot.n \in Nat /\ First \in Nat
    BY DEF HotInv, BootIsRight, BootType, First
  <1>4. boot' = [at |-> "serving", rank |-> <<>>, n |-> 0, prefix |-> 0, base |-> 0, end |-> 0]
    BY <1>1 DEF Unread
  <1>5. Distinct' /\ pin' \in [Layers -> Seq(Pins)] /\ \A l \in Layers : At(l)' = At(l)
    BY <1>2, EidsStay DEF HotInv
  <1>6. HotTypeOK'
    BY <1>1, <1>4, <1>5 DEF HotInv, HotTypeOK
  <1>7. BootIsRight'
    BY <1>4 DEF BootIsRight, BootType
  <1>8. ASSUME NEW l \in Layers, NEW z \in At(l) PROVE Usable(pin'[l][z])
    <2>1. /\ pin'[l][z].device = pin[l][z].device /\ pin'[l][z].dev = pin[l][z].dev
          /\ pin'[l][z].eid = pin[l][z].eid
          /\ pin'[l][z].host = IF <<l, pin[l][z].eid>> \in pairs THEN pin[l][z].eid ELSE pin[l][z].host
      BY <1>2 DEF Renewed
    <2>2. Whole(pin'[l][z])
      <3>1. Whole(pin[l][z])
        BY DEF HotInv, PinsAreRight
      <3> QED BY <2>1, <3>1 DEF Whole, OnGpu
    <2>3. PICK a \in 1..boot.n : /\ boot.rank[a] = <<l, pin[l][z].eid>>
                                 /\ a <= boot.base => Usable(pin[l][z])
      BY <1>1 DEF HotInv, PinsAreRight, Booting, Loaded
    <2>4. CASE a <= First
      <3>1. pin[l][z].eid \in Experts
        BY PinsTyped DEF HotInv
      <3>2. Usable(pin[l][z])
        BY <1>1, <1>3, <2>3, <2>4
      <3> QED BY <2>1, <2>2, <3>1, <3>2, HotSizes DEF Usable, OnGpu
    <2>5. CASE ~(a <= First)
      <3>1. a \in (First + 1)..boot.n
        BY <1>3, <2>3, <2>5
      <3>2. pin'[l][z].host = pin'[l][z].eid
        BY <2>1, <2>3, <3>1 DEF pairs
      <3>3. pin'[l][z].eid \in Experts
        BY <2>1, PinsTyped DEF HotInv
      <3> QED BY <2>2, <3>2, <3>3, HotSizes DEF Usable
    <2> QED BY <2>4, <2>5
  <1>9. PinsAreRight'
    BY <1>4, <1>5, <1>8 DEF PinsAreRight, Usable
  <1>10. RoomIsRight'
    BY <1>1, <1>2, RoomStays
  <1>11. HeatIsRight'
    <2>1. out = {}
      BY <1>1 DEF HotInv, HeatIsRight
    <2> QED BY <2>1, <1>1 DEF HotInv, HeatIsRight
  <1> QED BY <1>5, <1>6, <1>7, <1>9, <1>10, <1>11 DEF HotInv

(* The upload of one expert of the round: no device takes what it has no room for. *)
LEMMA UploadStep ==
    ASSUME HotInv, NEW refused \in SUBSET Devices, Upload(refused)
    PROVE  HotInv'
  <1> USE HotStoreAssumption
  <1>1. /\ boot.at = "upload" /\ boot.base < boot.end
        /\ UNCHANGED <<gpu, heat, last, clock, passes, out>>
    BY DEF Upload
  <1>2. /\ boot \in BootType /\ boot.n \in Nat /\ boot.base \in Nat /\ boot.end \in Nat /\ boot.rank \in Seq(Pair)
        /\ boot.prefix <= boot.n /\ boot.n <= Len(boot.rank) /\ boot.end <= boot.n
        /\ boot.base + 1 \in 1..Len(boot.rank) /\ boot.rank[boot.base + 1] \in Pair
    <2>1. /\ boot \in BootType /\ boot.n \in Nat /\ boot.base \in Nat /\ boot.end \in Nat /\ boot.prefix \in Nat
          /\ boot.rank \in Seq(Pair) /\ boot.end <= First
          /\ boot.prefix <= boot.n /\ boot.n <= Len(boot.rank)
      BY <1>1 DEF HotInv, BootIsRight, BootType
    <2>2. boot.end <= boot.n
      BY <2>1 DEF First
    <2>3. boot.base + 1 \in 1..Len(boot.rank)
      BY <1>1, <2>1, <2>2
    <2> QED BY <2>1, <2>2, <2>3
  <1> DEFINE p == boot.rank[boot.base + 1]
  <1>3. /\ boot' \in BootType /\ boot'.at \in {"load", "upload"}
        /\ boot'.rank = boot.rank /\ boot'.n = boot.n /\ boot'.prefix = boot.prefix /\ boot'.end = boot.end
        /\ Loaded' = Loaded
    <2>1. CASE boot' = [boot EXCEPT !.at = "load", !.base = boot.end]
      BY <1>1, <1>2, <2>1 DEF BootType, Loaded
    <2>2. CASE boot' = [boot EXCEPT !.base = @ + 1,
                                    !.at = IF boot.base + 1 = boot.end THEN "load" ELSE "upload"]
      <3> DEFINE at == IF boot.base + 1 = boot.end THEN "load" ELSE "upload"
      <3>0. at \in {"load", "upload"} /\ boot.base + 1 \in Nat
            /\ boot' = [boot EXCEPT !.base = boot.base + 1, !.at = at]
        BY <1>2, <2>2
      <3>1. /\ boot' \in BootType /\ boot'.at = at
            /\ boot'.base = boot.base + 1 /\ boot'.end = boot.end
            /\ boot'.rank = boot.rank /\ boot'.n = boot.n /\ boot'.prefix = boot.prefix
        <4> HIDE DEF at
        <4> QED BY <1>2, <3>0 DEF BootType
      <3> QED BY <1>1, <3>1 DEF Loaded
    <2> QED BY <2>1, <2>2 DEF Upload
  <1>4. BootIsRight'
    <2>1. First' = First
      BY <1>3 DEF First
    <2> QED BY <1>1, <1>3, <2>1 DEF HotInv, BootIsRight
  <1>5. HeatIsRight'
    <2>1. out = {}
      BY <1>1 DEF HotInv, HeatIsRight
    <2> QED BY <2>1, <1>1 DEF HotInv, HeatIsRight
  <1>6. \A d \in Devices : /\ room[d] \in Nat /\ DeviceRoom[d] \in Nat /\ Cardinality(On(d)) \in Nat
                           /\ Cardinality(On(d)) + room[d] <= DeviceRoom[d]
    BY <1>1, Held DEF HotInv, HotTypeOK, RoomIsRight
  <1>7. CASE /\ UNCHANGED pin
             /\ room' \in [Devices -> Nat] /\ \A d \in Devices : room'[d] <= room[d]
    <2>1. HotTypeOK'
      BY <1>1, <1>3, <1>7 DEF HotInv, HotTypeOK, BootType
    <2>2. Distinct'
      BY <1>7 DEF HotInv, Distinct, At
    <2>3. PinsAreRight'
      <3>1. \A l \in Layers : \A z \in At(l) : Whole(pin[l][z]) /\ Booting(l, z)
        BY <1>1 DEF HotInv, PinsAreRight
      <3>2. \A l \in Layers : At(l)' = At(l)
        BY <1>7 DEF At
      <3>3. \A l \in Layers : \A z \in At(l) : Booting(l, z)'
        BY <1>3, <1>7, <3>1 DEF Booting
      <3> QED BY <1>3, <1>7, <3>1, <3>2, <3>3 DEF PinsAreRight
    <2>4. RoomIsRight'
      <3>1. \A d \in Devices : On(d)' = On(d)
        BY <1>7 DEF On, At
      <3>2. ASSUME NEW d \in Devices
            PROVE  /\ Cardinality(On(d)') <= DeviceRoom[d]
                   /\ Cardinality(On(d)') + room'[d] <= DeviceRoom[d]
        BY <1>6, <1>7, <3>1
      <3> QED BY <3>2 DEF RoomIsRight
    <2> QED BY <1>4, <1>5, <2>1, <2>2, <2>3, <2>4 DEF HotInv
  <1>8. ASSUME NEW d \in Devices, room[d] >= 1, Sent(pin', p, d),
               room' = [e \in Devices |-> IF e \in refused THEN 0 ELSE IF e = d THEN room[e] - 1 ELSE room[e]]
        PROVE  HotInv'
    <2>1. p \in Pair
      BY <1>2
    <2> HIDE DEF p
    <2>2. /\ Renewed(pin')
          /\ \A l \in Layers : \A z \in At(l) :
                IF <<l, pin[l][z].eid>> = p
                THEN /\ pin'[l][z].device = d /\ pin'[l][z].dev = pin[l][z].eid
                     /\ pin'[l][z].host = IF gpu.release THEN NoExpert ELSE pin[l][z].host
                ELSE pin'[l][z] = pin[l][z]
      BY <1>8, <2>1, Uploads DEF HotInv
    <2>3. Distinct' /\ pin' \in [Layers -> Seq(Pins)] /\ \A l \in Layers : At(l)' = At(l)
      BY <2>2, EidsStay DEF HotInv
    <2>4. room' \in [Devices -> Nat]
      BY <1>6, <1>8
    <2>5. HotTypeOK'
      BY <1>1, <1>3, <2>3, <2>4 DEF HotInv, HotTypeOK, BootType
    <2>6. ASSUME NEW l \in Layers, NEW z \in At(l) PROVE Whole(pin'[l][z]) /\ Booting(l, z)'
      <3>1. Whole(pin[l][z]) /\ pin'[l][z].eid = pin[l][z].eid
        BY <2>2 DEF HotInv, PinsAreRight, Renewed
      <3>2. PICK a \in 1..boot.n : /\ boot.rank[a] = <<l, pin[l][z].eid>>
                                   /\ a <= Loaded => Usable(pin[l][z])
        BY <1>1 DEF HotInv, PinsAreRight, Booting
      <3>3. CASE <<l, pin[l][z].eid>> = p
        <4>1. /\ pin'[l][z].device = d /\ pin'[l][z].dev = pin'[l][z].eid
              /\ pin'[l][z].host = NoExpert \/ pin'[l][z].host = pin[l][z].host
          BY <2>2, <3>1, <3>3
        <4>2. Whole(pin'[l][z])
          BY <3>1, <4>1 DEF Whole
        <4>3. Usable(pin'[l][z])
          BY <4>1, <4>2 DEF Usable, OnGpu
        <4> QED BY <1>3, <3>1, <3>2, <4>2, <4>3 DEF Booting
      <3>4. CASE <<l, pin[l][z].eid>> # p
        <4>1. pin'[l][z] = pin[l][z]
          BY <2>2, <3>4
        <4> QED BY <1>3, <3>1, <3>2, <4>1 DEF Booting
      <3> QED BY <3>3, <3>4
    <2>7. PinsAreRight'
      BY <1>3, <2>3, <2>6 DEF PinsAreRight
    <2>8. RoomIsRight'
      <3>1. ASSUME NEW e \in Devices
            PROVE  On(e)' \subseteq (IF e = d THEN On(e) \union {p} ELSE On(e))
        <4>1. ASSUME NEW x \in Pair, NEW z \in At(x[1])', pin'[x[1]][z].eid = x[2], pin'[x[1]][z].device = e
              PROVE  x \in On(e) \/ (e = d /\ x = p)
          <5>1. x[1] \in Layers /\ x = <<x[1], x[2]>>
            BY DEF Pair
          <5>2. z \in At(x[1]) /\ pin[x[1]][z].eid = x[2]
            BY <2>2, <2>3, <4>1, <5>1 DEF Renewed
          <5>3. CASE <<x[1], pin[x[1]][z].eid>> = p
            BY <2>2, <4>1, <5>1, <5>2, <5>3
          <5>4. CASE <<x[1], pin[x[1]][z].eid>> # p
            <6>1. pin'[x[1]][z] = pin[x[1]][z]
              BY <2>2, <5>1, <5>2, <5>4
            <6> QED BY <4>1, <5>2, <6>1 DEF On
          <5> QED BY <5>3, <5>4
        <4> QED BY <4>1 DEF On
      <3>2. ASSUME NEW e \in Devices
            PROVE  /\ Cardinality(On(e)') <= DeviceRoom[e]
                   /\ Cardinality(On(e)') + room'[e] <= DeviceRoom[e]
        <4>1. Cardinality(On(e)') \in Nat
          <5>1. IsFiniteSet(On(e)')
            <6>1. On(e)' \subseteq Pair
              BY DEF On
            <6> QED BY <6>1, HotSizes, FS_Subset
          <5> QED BY <5>1, FS_CardinalityType
        <4>2. CASE e = d
          <5>1. Cardinality(On(e)') <= Cardinality(On(e)) + 1
            BY <3>1, <4>2, Held
          <5>2. room'[e] \in Nat /\ room'[e] <= room[e] - 1 /\ room[e] >= 1
            BY <1>6, <1>8, <4>2
          <5> QED BY <1>6, <4>1, <5>1, <5>2
        <4>3. CASE e # d
          <5>1. Cardinality(On(e)') <= Cardinality(On(e))
            BY <3>1, <4>3, Held
          <5>2. room'[e] \in Nat /\ room'[e] <= room[e]
            BY <1>6, <1>8, <4>3
          <5> QED BY <1>6, <4>1, <5>1, <5>2
        <4> QED BY <4>2, <4>3
      <3> QED BY <3>2 DEF RoomIsRight
    <2> QED BY <1>4, <1>5, <2>3, <2>5, <2>7, <2>8 DEF HotInv
  <1>9. \/ UNCHANGED <<pin, room>>
        \/ UNCHANGED pin /\ room' = [e \in Devices |-> IF e \in refused THEN 0 ELSE room[e]]
        \/ \E d \in Devices : /\ room[d] >= 1 /\ Sent(pin', p, d)
                              /\ room' = [e \in Devices |-> IF e \in refused THEN 0
                                                            ELSE IF e = d THEN room[e] - 1 ELSE room[e]]
    BY DEF Upload, Sent
  <1>10. CASE UNCHANGED <<pin, room>>
    <2>1. room' \in [Devices -> Nat] /\ \A d \in Devices : room'[d] <= room[d]
      BY <1>6, <1>10 DEF HotInv, HotTypeOK
    <2> QED BY <1>7, <1>10, <2>1
  <1>11. CASE UNCHANGED pin /\ room' = [e \in Devices |-> IF e \in refused THEN 0 ELSE room[e]]
    <2>1. room' \in [Devices -> Nat] /\ \A d \in Devices : room'[d] <= room[d]
      BY <1>6, <1>11
    <2> QED BY <1>7, <1>11, <2>1
  <1> HIDE DEF p
  <1> QED BY <1>8, <1>9, <1>10, <1>11
----------------------------------------------------------------------------
(* Serving.                                                                *)

(* A token's use of an expert makes no pin worse, and only heats. *)
LEMMA UseStep ==
    ASSUME HotInv, NEW l \in Layers, NEW e \in Experts, NEW deviceFails \in BOOLEAN, Use(l, e, deviceFails)
    PROVE  HotInv'
  <1> USE HotStoreAssumption
  <1>1. /\ boot.at = "serving" /\ clock < MaxClock /\ clock' = clock + 1
        /\ heat' = [heat EXCEPT ![l][e] = @ + 1] /\ last' = [last EXCEPT ![l][e] = clock + 1]
        /\ out' = out \ {<<l, e>>} /\ UNCHANGED <<gpu, boot, room, passes>>
    BY DEF Use
  <1>2. /\ Renewed(pin')
        /\ \A k \in Layers : \A z \in At(k) :
              /\ pin'[k][z].device = pin[k][z].device /\ pin'[k][z].dev = pin[k][z].dev
              /\ pin'[k][z].host \in {pin[k][z].eid, pin[k][z].host}
    <2>1. CASE deviceFails
      <3>1. <<l, e>> \in Pair
        BY DEF Pair
      <3>2. pin' = WithPin(<<l, e>>, LAMBDA s : [s EXCEPT !.host = s.eid])
        BY <2>1 DEF Use
      <3> QED BY <3>1, <3>2, HostIsRead DEF HotInv
    <2>2. CASE ~deviceFails
      <3>1. pin' = pin
        BY <2>2 DEF Use
      <3> QED BY <3>1 DEF HotInv, HotTypeOK, Renewed, At
    <2> QED BY <2>1, <2>2
  <1>3. Distinct' /\ pin' \in [Layers -> Seq(Pins)] /\ \A k \in Layers : At(k)' = At(k)
    BY <1>2, EidsStay DEF HotInv
  <1>4. clock \in Nat /\ heat \in [Layers -> [Experts -> Nat]] /\ last \in [Layers -> [Experts -> Nat]]
    BY DEF HotInv, HotTypeOK
  <1>4a. \A k \in Layers, f \in Experts : heat[k][f] \in Nat /\ last[k][f] \in Nat
    <2>1. \A k \in Layers : heat[k] \in [Experts -> Nat] /\ last[k] \in [Experts -> Nat]
      BY <1>4
    <2> QED BY <2>1
  <1>5. ASSUME NEW k \in Layers, NEW f \in Experts
        PROVE  /\ heat'[k][f] = IF k = l /\ f = e THEN heat[k][f] + 1 ELSE heat[k][f]
               /\ last'[k][f] = IF k = l /\ f = e THEN clock + 1 ELSE last[k][f]
    BY <1>1, <1>4
  <1>6. HotTypeOK'
    <2>1. heat' \in [Layers -> [Experts -> Nat]] /\ last' \in [Layers -> [Experts -> Nat]]
      BY <1>1, <1>4
    <2> QED BY <1>1, <1>3, <1>4, <2>1 DEF HotInv, HotTypeOK
  <1>7. BootIsRight'
    BY <1>1 DEF HotInv, BootIsRight, First
  <1>8. PinsAreRight'
    <2>1. ASSUME NEW k \in Layers, NEW z \in At(k) PROVE Usable(pin'[k][z])
      <3>1. Usable(pin[k][z]) /\ pin[k][z].eid \in Experts /\ pin'[k][z].eid = pin[k][z].eid
        BY <1>1, <1>2, PinsTyped DEF HotInv, PinsAreRight, Renewed
      <3> QED BY <1>2, <3>1, HotSizes DEF Usable, Whole, OnGpu
    <2> QED BY <1>1, <1>3, <2>1 DEF PinsAreRight, Usable
  <1>9. RoomIsRight'
    BY <1>1, <1>2, RoomStays
  <1>10. HeatIsRight'
    <2>1. clock' <= MaxClock
      BY <1>1, <1>4
    <2>2. ASSUME NEW k \in Layers, NEW f \in Experts PROVE heat'[k][f] <= clock' /\ last'[k][f] <= clock'
      <3>1. heat[k][f] <= clock /\ last[k][f] <= clock /\ heat[k][f] \in Nat /\ last[k][f] \in Nat
        BY <1>4a DEF HotInv, HeatIsRight
      <3>2. \A a \in Nat : a <= clock => a <= clock + 1 /\ a + 1 <= clock + 1
        BY <1>4
      <3>3. CASE k = l /\ f = e
        BY <1>1, <1>4, <1>5, <3>1, <3>2, <3>3
      <3>4. CASE ~(k = l /\ f = e)
        <4>1. heat'[k][f] = heat[k][f] /\ last'[k][f] = last[k][f]
          BY <1>5, <3>4
        <4> QED BY <1>1, <3>1, <3>2, <4>1
      <3> QED BY <3>3, <3>4
    <2>3. ASSUME NEW k \in Layers, NEW f \in Experts, <<k, f>> \in out', NEW z \in At(k)'
          PROVE  pin'[k][z].eid # f /\ heat'[k][f] <= heat'[k][pin'[k][z].eid]
      <3>1. <<k, f>> \in out /\ ~(k = l /\ f = e)
        BY <1>1, <2>3
      <3>2. z \in At(k) /\ pin'[k][z].eid = pin[k][z].eid /\ pin[k][z].eid \in Experts
        BY <1>2, <1>3, PinsTyped DEF Renewed, HotInv
      <3>3. pin[k][z].eid # f /\ heat[k][f] <= heat[k][pin[k][z].eid]
        BY <3>1, <3>2 DEF HotInv, HeatIsRight
      <3>4. heat[k][f] \in Nat /\ heat[k][pin[k][z].eid] \in Nat
        BY <1>4a, <3>2
      <3>5. heat'[k][f] = heat[k][f] /\ heat'[k][pin[k][z].eid] >= heat[k][pin[k][z].eid]
        BY <1>5, <3>1, <3>2, <3>4
      <3>6. \A a, b, c \in Nat : a <= b /\ c >= b => a <= c
        OBVIOUS
      <3>7. heat'[k][pin[k][z].eid] \in Nat
        BY <1>5, <3>2, <3>4
      <3>8. heat'[k][f] <= heat'[k][pin[k][z].eid]
        BY <3>3, <3>4, <3>5, <3>6, <3>7
      <3> QED BY <3>2, <3>3, <3>8
    <2> QED BY <1>1, <2>1, <2>2, <2>3 DEF HeatIsRight
  <1> QED BY <1>3, <1>6, <1>7, <1>8, <1>9, <1>10 DEF HotInv

\* What a pass may make of the pins of a layer: every pin usable, no expert
\* pinned twice, and every device copy in the place g of one the device had.
SoundLayer(l, r) ==
    /\ r \in Seq(Pins) /\ DOMAIN r = At(l)
    /\ \A z \in At(l) : Usable(r[z])
    /\ \A y, z \in At(l) : r[y].eid = r[z].eid => y = z
    /\ \E g \in [At(l) -> At(l)] :
          /\ \A y, z \in At(l) : g[y] = g[z] => y = z
          /\ \A z \in At(l) : OnGpu(r[z]) => r[z].device = pin[l][g[z]].device

(* A layer the pass does not pick stays as it is. *)
LEMMA KeptIsSound ==
    ASSUME HotInv, boot.at = "serving", NEW l \in Layers
    PROVE  SoundLayer(l, pin[l])
  <1> DEFINE g == [z \in At(l) |-> z]
  <1>1. /\ g \in [At(l) -> At(l)] /\ \A y, z \in At(l) : g[y] = g[z] => y = z
        /\ \A z \in At(l) : pin[l][z].device = pin[l][g[z]].device
    OBVIOUS
  <1>2. pin[l] \in Seq(Pins) /\ \A z \in At(l) : Usable(pin[l][z])
    BY PinsTyped DEF HotInv, PinsAreRight
  <1>3. \A y, z \in At(l) : pin[l][y].eid = pin[l][z].eid => y = z
    BY DEF HotInv, Distinct
  <1> HIDE DEF g
  <1> QED BY <1>1, <1>2, <1>3 DEF SoundLayer, At

(* A swap gives the device's tensors from the cold pin to the hot one. *)
LEMMA SwappedIsSound ==
    ASSUME HotInv, boot.at = "serving", NEW l \in Layers, WantsSwap(l), NEW r, r = TierSwapped(l)
    PROVE  SoundLayer(l, r) /\ \A z \in At(l) : r[z].eid = pin[l][z].eid
  <1> DEFINE cold == ColdOnGpu(l)
             hot == HotInRam(l)
             g == [z \in At(l) |-> IF z = cold THEN hot ELSE IF z = hot THEN cold ELSE z]
             became(z) == CASE z = cold -> [pin[l][z] EXCEPT !.host = pin[l][z].eid, !.device = NoDevice,
                                                             !.dev = NoExpert]
                            [] z = hot -> [pin[l][z] EXCEPT !.device = pin[l][cold].device, !.dev = pin[l][z].eid,
                                                            !.host = IF gpu.release THEN NoExpert ELSE @]
                            [] OTHER -> pin[l][z]
  <1>1. /\ cold \in At(l) /\ hot \in At(l) /\ cold # hot
        /\ OnGpu(pin[l][cold]) /\ ~OnGpu(pin[l][hot])
    BY SwapIs DEF HotInv, GpuPins, RamPins, At
  <1>2. \A z \in At(l) : pin[l][z] \in Pins /\ Usable(pin[l][z]) /\ pin[l][z].eid \in Experts
    BY PinsTyped DEF HotInv, PinsAreRight
  <1>3. r = [z \in At(l) |-> became(z)]
    BY DEF TierSwapped, At
  <1> HIDE DEF cold, hot
  <1>4. /\ became(cold) \in Pins /\ became(cold).eid = pin[l][cold].eid /\ became(cold).device = NoDevice
        /\ became(cold).host = pin[l][cold].eid
    BY <1>1, <1>2 DEF Pins
  <1>5. /\ became(hot) \in Pins /\ became(hot).eid = pin[l][hot].eid
        /\ became(hot).device = pin[l][cold].device /\ became(hot).dev = pin[l][hot].eid
        /\ became(hot).host \in {pin[l][hot].host, NoExpert}
    <2>1. became(hot) = [pin[l][hot] EXCEPT !.device = pin[l][cold].device, !.dev = pin[l][hot].eid,
                                            !.host = IF gpu.release THEN NoExpert ELSE @]
      BY <1>1
    <2>2. /\ pin[l][hot] \in Pins /\ pin[l][hot].eid \in Experts
          /\ pin[l][cold].device \in Devices \union {NoDevice}
      BY <1>1, <1>2 DEF Pins
    <2> DEFINE h == IF gpu.release THEN NoExpert ELSE pin[l][hot].host
    <2>3. h \in Experts \union {NoExpert} /\ h \in {pin[l][hot].host, NoExpert}
      BY <2>2 DEF Pins
    <2>4. became(hot) = [pin[l][hot] EXCEPT !.device = pin[l][cold].device, !.dev = pin[l][hot].eid, !.host = h]
      BY <2>1
    <2> HIDE DEF h, became
    <2> QED BY <2>2, <2>3, <2>4 DEF Pins
  <1>6. \A z \in At(l) : z # cold /\ z # hot => became(z) = pin[l][z]
    OBVIOUS
  <1> HIDE DEF became
  <1>7. \A z \in At(l) : r[z] = became(z) /\ became(z) \in Pins /\ became(z).eid = pin[l][z].eid
    BY <1>2, <1>3, <1>4, <1>5, <1>6
  <1>8. r \in Seq(Pins) /\ DOMAIN r = At(l)
    <2>1. At(l) = 1..Len(pin[l]) /\ Len(pin[l]) \in Nat
      BY PinsTyped DEF HotInv
    <2>2. r = [z \in 1..Len(pin[l]) |-> became(z)] /\ \A z \in 1..Len(pin[l]) : became(z) \in Pins
      BY <1>3, <1>7, <2>1
    <2>3. r \in [1..Len(pin[l]) -> Pins]
      BY <2>2
    <2>4. r \in Seq(Pins)
      BY <2>1, <2>3
    <2> QED BY <2>1, <2>2, <2>4
  <1>9. ASSUME NEW z \in At(l) PROVE Usable(r[z])
    <2>1. CASE z = cold
      <3>1. r[z].host = r[z].eid /\ r[z].device = NoDevice /\ r[z].eid \in Experts
        BY <1>1, <1>2, <1>4, <1>7, <2>1
      <3> QED BY <3>1, HotSizes DEF Usable, Whole, OnGpu
    <2>2. CASE z = hot
      <3>1. r[z].dev = r[z].eid /\ r[z].device = pin[l][cold].device /\ r[z].host \in {pin[l][z].host, NoExpert}
            /\ r[z].eid = pin[l][z].eid
        BY <1>5, <1>7, <2>2
      <3> QED BY <3>1, <1>1, <1>2 DEF Usable, Whole, OnGpu
    <2>3. CASE z # cold /\ z # hot
      BY <1>2, <1>6, <1>7, <2>3
    <2> QED BY <2>1, <2>2, <2>3
  <1>10. \A y, z \in At(l) : r[y].eid = r[z].eid => y = z
    BY <1>7 DEF HotInv, Distinct
  <1>11. /\ g \in [At(l) -> At(l)] /\ \A y, z \in At(l) : g[y] = g[z] => y = z
         /\ \A z \in At(l) : OnGpu(r[z]) => r[z].device = pin[l][g[z]].device
    <2>1. g \in [At(l) -> At(l)] /\ \A y, z \in At(l) : g[y] = g[z] => y = z
      BY <1>1
    <2>2. ASSUME NEW z \in At(l), OnGpu(r[z]) PROVE r[z].device = pin[l][g[z]].device
      <3>1. CASE z = cold
        BY <1>4, <1>7, <2>2, <3>1 DEF OnGpu
      <3>2. CASE z = hot
        BY <1>1, <1>5, <1>7, <3>2
      <3>3. CASE z # cold /\ z # hot
        BY <1>6, <1>7, <3>3
      <3> QED BY <3>1, <3>2, <3>3
    <2> QED BY <2>1, <2>2
  <1> HIDE DEF g
  <1>12. SoundLayer(l, r)
    BY <1>8, <1>9, <1>10, <1>11 DEF SoundLayer
  <1> QED BY <1>7, <1>12

(* The expert that is admitted takes the place of the coldest one. *)
LEMMA AdmittedIsSound ==
    ASSUME HotInv, boot.at = "serving", NEW l \in Layers, WantsAdmission(l), NEW uploads \in BOOLEAN,
           NEW r, r = Admitted(l, uploads)
    PROVE  /\ SoundLayer(l, r) /\ r[Coldest(l)].eid = Hottest(l)
           /\ \A z \in At(l) : z # Coldest(l) => r[z].eid = pin[l][z].eid
  <1> DEFINE c == Coldest(l)
             h == Hottest(l)
             old == pin[l][c]
             kept == OnGpu(old) /\ uploads
             new == [eid |-> h, device |-> IF kept THEN old.device ELSE NoDevice,
                     dev |-> IF kept THEN h ELSE NoExpert,
                     host |-> IF kept /\ gpu.release THEN NoExpert ELSE h]
             g == [z \in At(l) |-> z]
  <1>1. c \in At(l) /\ h \in Experts /\ h \notin Pinned(l)
    BY AdmissionIsHotter DEF HotInv
  <1>2. pin[l] \in Seq(Pins) /\ \A z \in At(l) : pin[l][z] \in Pins /\ Usable(pin[l][z])
    BY PinsTyped DEF HotInv, PinsAreRight
  <1>3. r = [pin[l] EXCEPT ![c] = new]
    BY DEF Admitted
  <1> HIDE DEF c, h
  <1>4. /\ new \in Pins /\ new.eid = h /\ new.device \in {old.device, NoDevice} /\ Usable(new)
    <2>1. old \in Pins /\ old.device \in Devices \union {NoDevice}
      BY <1>1, <1>2 DEF Pins
    <2>2. new \in Pins /\ new.eid = h /\ new.device \in {old.device, NoDevice}
      BY <1>1, <2>1 DEF Pins
    <2>3. Usable(new)
      BY <1>1, HotSizes DEF Usable, Whole, OnGpu
    <2> QED BY <2>2, <2>3
  <1> HIDE DEF new
  <1>5. r \in Seq(Pins) /\ DOMAIN r = At(l) /\ \A z \in At(l) : r[z] = IF z = c THEN new ELSE pin[l][z]
    BY <1>1, <1>2, <1>3, <1>4 DEF At
  <1>6. \A z \in At(l) : Usable(r[z])
    BY <1>2, <1>4, <1>5
  <1>7. \A y, z \in At(l) : r[y].eid = r[z].eid => y = z
    <2>1. \A z \in At(l) : pin[l][z].eid # h
      BY <1>1 DEF Pinned, At
    <2>2. \A y, z \in At(l) : pin[l][y].eid = pin[l][z].eid => y = z
      BY DEF HotInv, Distinct
    <2> HIDE DEF old
    <2> QED BY <1>4, <1>5, <2>1, <2>2
  <1>8. /\ g \in [At(l) -> At(l)] /\ \A y, z \in At(l) : g[y] = g[z] => y = z
        /\ \A z \in At(l) : g[z] = z
    OBVIOUS
  <1>9. \A z \in At(l) : OnGpu(r[z]) => r[z].device = pin[l][z].device
    BY <1>4, <1>5 DEF OnGpu
  <1> HIDE DEF g, old
  <1>10. SoundLayer(l, r)
    <2>1. \A z \in At(l) : OnGpu(r[z]) => r[z].device = pin[l][g[z]].device
      BY <1>8, <1>9
    <2> QED BY <1>5, <1>6, <1>7, <1>8, <2>1 DEF SoundLayer
  <1> QED BY <1>1, <1>4, <1>5, <1>10 DEF c, h

(* A pass keeps every pin usable, no device gets more than it had, and what *)
(* it evicts is no hotter than what stays.                                  *)
LEMMA RepinStep ==
    ASSUME HotInv, NEW limit, NEW uploads \in SUBSET Layers, RepinPass(limit, uploads)
    PROVE  HotInv'
  <1> USE HotStoreAssumption
  <1> DEFINE picks == Picks(limit)
  <1>1. /\ boot.at = "serving" /\ passes' = passes + 1
        /\ pin' = [l \in Layers |-> IF l \notin picks THEN pin[l]
                                    ELSE IF WantsSwap(l) THEN TierSwapped(l)
                                    ELSE Admitted(l, l \in uploads)]
        /\ out' = out \union {<<l, pin[l][Coldest(l)].eid>> : l \in {k \in picks : ~WantsSwap(k)}}
        /\ heat' = [l \in Layers |-> [e \in Experts |-> heat[l][e] \div 2]]
        /\ UNCHANGED <<gpu, last, clock, boot, room>>
    BY DEF RepinPass
  <1>2. picks \subseteq Layers /\ \A l \in picks : WantsSwap(l) \/ WantsAdmission(l)
    BY DEF Picks, Wanting
  <1> HIDE DEF picks
  <1> DEFINE Left(l) == l \in picks /\ ~WantsSwap(l)
  <1>3. ASSUME NEW l \in Layers
        PROVE  /\ SoundLayer(l, pin'[l])
               /\ ~Left(l) => \A z \in At(l) : pin'[l][z].eid = pin[l][z].eid
               /\ Left(l) => /\ pin'[l][Coldest(l)].eid = Hottest(l)
                             /\ \A z \in At(l) : z # Coldest(l) => pin'[l][z].eid = pin[l][z].eid
    <2>1. CASE l \notin picks
      <3>1. pin'[l] = pin[l]
        BY <1>1, <2>1
      <3> QED BY <1>1, <2>1, <3>1, KeptIsSound
    <2>2. CASE l \in picks /\ WantsSwap(l)
      <3>1. pin'[l] = TierSwapped(l)
        BY <1>1, <2>2
      <3> QED BY <1>1, <2>2, <3>1, SwappedIsSound
    <2>3. CASE Left(l)
      <3>1. pin'[l] = Admitted(l, l \in uploads) /\ WantsAdmission(l)
        BY <1>1, <1>2, <2>3
      <3>2. (l \in uploads) \in BOOLEAN
        OBVIOUS
      <3> QED BY <1>1, <2>3, <3>1, <3>2, AdmittedIsSound
    <2> QED BY <2>1, <2>2, <2>3
  <1>4. /\ \A l \in Layers : At(l)' = At(l)
        /\ pin' \in [Layers -> Seq(Pins)] /\ Distinct'
        /\ \A l \in Layers : \A z \in At(l) : Usable(pin'[l][z])
    <2>1. \A l \in Layers : At(l)' = At(l) /\ pin'[l] \in Seq(Pins)
      BY <1>3 DEF SoundLayer, At
    <2>2. pin' \in [Layers -> Seq(Pins)]
      BY <1>1, <2>1
    <2>3. \A l \in Layers : /\ \A z \in At(l) : Usable(pin'[l][z])
                            /\ \A y, z \in At(l) : pin'[l][y].eid = pin'[l][z].eid => y = z
      BY <1>3 DEF SoundLayer
    <2> QED BY <2>1, <2>2, <2>3 DEF Distinct
  <1>5. \A l \in Layers, e \in Experts : /\ heat[l][e] \in Nat /\ heat'[l][e] = heat[l][e] \div 2
                                         /\ heat'[l][e] \in Nat /\ heat'[l][e] <= heat[l][e]
    <2>1. ASSUME NEW l \in Layers, NEW e \in Experts
          PROVE  heat[l][e] \in Nat /\ heat'[l][e] = heat[l][e] \div 2
      <3>1. heat[l] \in [Experts -> Nat]
        BY DEF HotInv, HotTypeOK
      <3> QED BY <1>1, <3>1
    <2>2. \A a \in Nat : a \div 2 \in Nat /\ a \div 2 <= a
      OBVIOUS
    <2> QED BY <2>1, <2>2
  <1>6. out' \subseteq Pair
    <2>1. ASSUME NEW l \in picks, ~WantsSwap(l) PROVE <<l, pin[l][Coldest(l)].eid>> \in Pair
      <3>1. l \in Layers /\ Coldest(l) \in At(l)
        BY <1>2, <2>1, AdmissionIsHotter DEF HotInv
      <3>2. pin[l][Coldest(l)].eid \in Experts
        BY <3>1, PinsTyped DEF HotInv
      <3> QED BY <3>1, <3>2 DEF Pair
    <2>2. out \subseteq Pair
      BY DEF HotInv, HotTypeOK
    <2> QED BY <1>1, <2>1, <2>2
  <1>7. HotTypeOK'
    <2>1. heat' \in [Layers -> [Experts -> Nat]]
      BY <1>1, <1>5
    <2> QED BY <1>1, <1>4, <1>6, <2>1 DEF HotInv, HotTypeOK
  <1>8. BootIsRight'
    BY <1>1 DEF HotInv, BootIsRight, First
  <1>9. PinsAreRight'
    BY <1>1, <1>4 DEF PinsAreRight, Usable
  <1>10. RoomIsRight'
    <2>1. ASSUME NEW d \in Devices PROVE Cardinality(On(d)') <= Cardinality(On(d))
      <3> DEFINE G(l) == {g \in [At(l) -> At(l)] :
                             /\ \A y, z \in At(l) : g[y] = g[z] => y = z
                             /\ \A z \in At(l) : OnGpu(pin'[l][z]) => pin'[l][z].device = pin[l][g[z]].device}
                 gs == [l \in Layers |-> CHOOSE g \in G(l) : TRUE]
                 Z(x) == {z \in At(x[1]) : pin'[x[1]][z].eid = x[2] /\ pin'[x[1]][z].device = d}
                 at == [x \in On(d)' |-> CHOOSE z \in Z(x) : TRUE]
                 from == [x \in On(d)' |-> <<x[1], pin[x[1]][gs[x[1]][at[x]]].eid>>]
      <3>1. ASSUME NEW l \in Layers PROVE gs[l] \in G(l)
        <4>1. G(l) # {}
          BY <1>3 DEF SoundLayer
        <4> HIDE DEF G
        <4> QED BY <4>1
      <3>2. ASSUME NEW x \in On(d)'
            PROVE  /\ x[1] \in Layers /\ x = <<x[1], x[2]>>
                   /\ at[x] \in At(x[1]) /\ pin'[x[1]][at[x]].eid = x[2] /\ pin'[x[1]][at[x]].device = d
        <4>1. x \in Pair /\ \E z \in At(x[1])' : pin'[x[1]][z].eid = x[2] /\ pin'[x[1]][z].device = d
          BY DEF On
        <4>2. x[1] \in Layers /\ x = <<x[1], x[2]>>
          BY <4>1 DEF Pair
        <4>3. Z(x) # {}
          BY <1>4, <4>1, <4>2
        <4>4. at[x] \in Z(x)
          <5> HIDE DEF Z
          <5> QED BY <4>3
        <4> QED BY <4>2, <4>4
      <3>3. ASSUME NEW x \in On(d)'
            PROVE  /\ gs[x[1]][at[x]] \in At(x[1]) /\ pin[x[1]][gs[x[1]][at[x]]].device = d
                   /\ from[x] = <<x[1], pin[x[1]][gs[x[1]][at[x]]].eid>>
        <4> HIDE DEF gs, at
        <4>1. gs[x[1]] \in G(x[1]) /\ at[x] \in At(x[1]) /\ pin'[x[1]][at[x]].device = d
          BY <3>1, <3>2
        <4>2. OnGpu(pin'[x[1]][at[x]])
          BY <4>1 DEF OnGpu
        <4> QED BY <4>1, <4>2
      <3> HIDE DEF from, gs, at, Z
      <3>4. ASSUME NEW x \in On(d)' PROVE from[x] \in On(d)
        <4>1. x[1] \in Layers /\ gs[x[1]][at[x]] \in At(x[1]) /\ pin[x[1]][gs[x[1]][at[x]]].device = d
          BY <3>2, <3>3
        <4> DEFINE e == pin[x[1]][gs[x[1]][at[x]]].eid
        <4>2. e \in Experts
          BY <4>1, PinsTyped DEF HotInv
        <4>3. <<x[1], e>> \in Pair /\ from[x] = <<x[1], e>>
          BY <3>3, <4>1, <4>2 DEF Pair
        <4>4. from[x][1] = x[1] /\ from[x][2] = e
          BY <4>3
        <4>5. \E z \in At(from[x][1]) : pin[from[x][1]][z].eid = from[x][2] /\ pin[from[x][1]][z].device = d
          BY <4>1, <4>4
        <4> HIDE DEF e
        <4> QED BY <4>3, <4>5 DEF On
      <3>5. ASSUME NEW x \in On(d)', NEW y \in On(d)', from[x] = from[y] PROVE x = y
        <4>1. x[1] = y[1] /\ pin[x[1]][gs[x[1]][at[x]]].eid = pin[x[1]][gs[x[1]][at[y]]].eid
          BY <3>3, <3>5
        <4>2. x[1] \in Layers /\ gs[x[1]][at[x]] \in At(x[1]) /\ gs[x[1]][at[y]] \in At(x[1])
          BY <3>2, <3>3, <4>1
        <4>3. gs[x[1]][at[x]] = gs[x[1]][at[y]]
          BY <4>1, <4>2 DEF HotInv, Distinct
        <4>4. at[x] \in At(x[1]) /\ at[y] \in At(x[1]) /\ gs[x[1]] \in G(x[1])
          BY <3>1, <3>2, <4>1
        <4>5. at[x] = at[y]
          BY <4>3, <4>4
        <4> QED BY <3>2, <4>1, <4>5
      <3>6. from \in Injection(On(d)', On(d))
        <4>1. from = [x \in On(d)' |-> from[x]]
          BY DEF from
        <4>2. from \in [On(d)' -> On(d)]
          BY <3>4, <4>1
        <4> QED BY <3>5, <4>2 DEF Injection, IsInjective
      <3> QED BY <3>6, Held, FS_Injection
    <2>2. ASSUME NEW d \in Devices PROVE Cardinality(On(d)') <= DeviceRoom[d]
      <3>1. Cardinality(On(d)') \in Nat
        <4>1. IsFiniteSet(On(d)')
          <5>1. On(d)' \subseteq Pair
            BY DEF On
          <5> QED BY <5>1, HotSizes, FS_Subset
        <4> QED BY <4>1, FS_CardinalityType
      <3>2. Cardinality(On(d)) \in Nat /\ DeviceRoom[d] \in Nat /\ Cardinality(On(d)) <= DeviceRoom[d]
        BY Held DEF HotInv, RoomIsRight
      <3> QED BY <2>1, <3>1, <3>2
    <2> QED BY <1>1, <2>2 DEF RoomIsRight
  <1>11. HeatIsRight'
    <2>1. clock' <= MaxClock
      BY <1>1 DEF HotInv, HeatIsRight
    <2>2. ASSUME NEW l \in Layers, NEW e \in Experts PROVE heat'[l][e] <= clock' /\ last'[l][e] <= clock'
      <3>1. heat[l][e] <= clock /\ last[l][e] <= clock /\ clock \in Nat
        BY DEF HotInv, HotTypeOK, HeatIsRight
      <3>2. \A a, b, c \in Nat : a <= b /\ b <= c => a <= c
        OBVIOUS
      <3>3. heat'[l][e] <= clock
        BY <1>5, <3>1, <3>2
      <3> QED BY <1>1, <3>1, <3>3
    <2>3. ASSUME NEW l \in Layers, NEW e \in Experts, <<l, e>> \in out', NEW z \in At(l)
          PROVE  pin'[l][z].eid # e /\ heat[l][e] <= heat[l][pin'[l][z].eid]
      <3>1. \/ <<l, e>> \in out
            \/ Left(l) /\ e = pin[l][Coldest(l)].eid
        BY <1>1, <2>3
      <3>2. pin[l][z].eid \in Experts
        BY PinsTyped DEF HotInv
      <3>3. CASE ~Left(l)
        <4>1. <<l, e>> \in out /\ pin'[l][z].eid = pin[l][z].eid
          BY <1>3, <3>1, <3>3
        <4> QED BY <4>1 DEF HotInv, HeatIsRight
      <3>4. CASE Left(l)
        <4> DEFINE c == Coldest(l)
                   h == Hottest(l)
        <4>1. /\ c \in At(l) /\ h \in Experts /\ h \notin Pinned(l)
              /\ heat[l][pin[l][c].eid] < heat[l][h]
              /\ \A y \in At(l) : heat[l][pin[l][c].eid] <= heat[l][pin[l][y].eid]
          BY <1>2, <3>4, AdmissionIsHotter DEF HotInv
        <4>2. pin'[l][c].eid = h /\ \A y \in At(l) : y # c => pin'[l][y].eid = pin[l][y].eid
          BY <1>3, <3>4
        <4> HIDE DEF c, h
        <4>3. heat[l][e] \in Nat /\ heat[l][h] \in Nat /\ heat[l][pin[l][c].eid] \in Nat
          <5>1. pin[l][c].eid \in Experts
            BY <4>1, PinsTyped DEF HotInv
          <5> QED BY <1>5, <4>1, <5>1
        <4>4. heat[l][e] <= heat[l][pin[l][c].eid]
          BY <3>1, <4>1, <4>3 DEF HotInv, HeatIsRight, c
        <4>5. CASE z = c
          <5>1. heat[l][e] < heat[l][h]
            BY <4>1, <4>3, <4>4
          <5> QED BY <4>2, <4>3, <4>5, <5>1
        <4>6. CASE z # c
          <5>1. pin'[l][z].eid = pin[l][z].eid
            BY <4>2, <4>6
          <5>2. pin[l][z].eid # e
            BY <3>1, <4>1, <4>6 DEF HotInv, HeatIsRight, Distinct, c
          <5>3. heat[l][pin[l][c].eid] <= heat[l][pin[l][z].eid] /\ heat[l][pin[l][z].eid] \in Nat
            BY <1>5, <3>2, <4>1
          <5>4. heat[l][e] <= heat[l][pin[l][z].eid]
            BY <4>3, <4>4, <5>3
          <5> QED BY <5>1, <5>2, <5>4
        <4> QED BY <4>5, <4>6
      <3> QED BY <3>3, <3>4
    <2>4. ASSUME NEW l \in Layers, NEW e \in Experts, <<l, e>> \in out', NEW z \in At(l)'
          PROVE  pin'[l][z].eid # e /\ heat'[l][e] <= heat'[l][pin'[l][z].eid]
      <3>1. z \in At(l) /\ pin'[l][z].eid \in Experts
        <4>1. z \in At(l)
          BY <1>4
        <4>2. pin'[l][z] \in Pins
          BY <1>4, <4>1 DEF At
        <4> QED BY <4>1, <4>2 DEF Pins
      <3>2. pin'[l][z].eid # e /\ heat[l][e] <= heat[l][pin'[l][z].eid]
        BY <2>3, <2>4, <3>1
      <3>3. \A a, b \in Nat : a <= b => a \div 2 <= b \div 2
        OBVIOUS
      <3>4. heat[l][e] \div 2 <= heat[l][pin'[l][z].eid] \div 2
        BY <1>5, <3>1, <3>2, <3>3
      <3> QED BY <1>5, <3>1, <3>2, <3>4
    <2> QED BY <1>1, <2>1, <2>2, <2>4 DEF HeatIsRight
  <1> QED BY <1>4, <1>7, <1>8, <1>9, <1>10, <1>11 DEF HotInv

(* Every step keeps the invariant. *)
LEMMA HotStep == HotInv /\ [HotNext]_hotVars => HotInv'
  <1> SUFFICES ASSUME HotInv, [HotNext]_hotVars PROVE HotInv'
    OBVIOUS
  <1>1. CASE \E rank \in Rankings : ReadHistory(rank)
    BY <1>1, HistoryStep
  <1>2. CASE LoadRound
    BY <1>2, LoadRoundStep
  <1>3. CASE LoadRest
    BY <1>3, LoadRestStep
  <1>4. CASE \E refused \in SUBSET Devices : Upload(refused)
    BY <1>4, UploadStep
  <1>5. CASE \E l \in Layers, e \in Experts, deviceFails \in BOOLEAN : Use(l, e, deviceFails)
    BY <1>5, UseStep
  <1>6. CASE \E limit \in 1..Cardinality(Layers), uploads \in SUBSET Layers : RepinPass(limit, uploads)
    BY <1>6, RepinStep
  <1>7. CASE UNCHANGED hotVars
    <2>1. UNCHANGED <<gpu, pin, heat, last, clock, boot, room, passes, out>>
      BY <1>7 DEF hotVars
    <2>2. \A l : At(l)' = At(l)
      BY <2>1 DEF At
    <2>3. \A d : On(d)' = On(d)
      BY <2>1, <2>2 DEF On
    <2>4. HotTypeOK' /\ Distinct'
      BY <2>1, <2>2 DEF HotInv, HotTypeOK, Distinct
    <2>5. BootIsRight'
      BY <2>1 DEF HotInv, BootIsRight, First
    <2>6. PinsAreRight'
      <3>1. \A l, z : Booting(l, z)' = Booting(l, z)
        BY <2>1 DEF Booting, Loaded
      <3> QED BY <2>1, <2>2, <3>1 DEF HotInv, PinsAreRight
    <2>7. RoomIsRight'
      BY <2>1, <2>3 DEF HotInv, RoomIsRight
    <2>8. HeatIsRight'
      BY <2>1, <2>2 DEF HotInv, HeatIsRight
    <2> QED BY <2>4, <2>5, <2>6, <2>7, <2>8 DEF HotInv
  <1> QED BY <1>1, <1>2, <1>3, <1>4, <1>5, <1>6, <1>7 DEF HotNext

(* What the runs check follows from the invariant. *)
LEMMA HotInvIsEnough == HotInv => HotStoreIsSound
  <1> SUFFICES ASSUME HotInv PROVE HotStoreIsSound
    OBVIOUS
  <1>1. PinsAreUsable
    BY DEF HotInv, Distinct, PinsAreRight, Usable, Whole, PinsAreUsable, At
  <1>2. DevicesFit
    BY DEF HotInv, RoomIsRight, On, DevicesFit, At
  <1>3. NoPingPong
    <2>1. ASSUME NEW l \in Layers, NEW z \in At(l), <<l, pin[l][z].eid>> \in out PROVE FALSE
      <3>1. pin[l][z].eid \in Experts
        BY PinsTyped DEF HotInv
      <3> QED BY <2>1, <3>1 DEF HotInv, HeatIsRight
    <2> QED BY <2>1 DEF NoPingPong, At
  <1> QED BY <1>1, <1>2, <1>3 DEF HotInv, HotStoreIsSound

(* pin_load and repin_pass: while serving, no two pins of a layer are of one  *)
(* expert and each can be computed where it says it is; no device is given    *)
(* more than it has room for; and what a pass evicts does not come back       *)
(* before a token uses it.                                                    *)
THEOREM HotStoreStaysSound == HotSpec => []HotStoreIsSound
  <1>1. HotInit => HotInv
    BY HotStarts
  <1>2. HotInv /\ [HotNext]_hotVars => HotInv'
    BY HotStep
  <1>3. HotInv => HotStoreIsSound
    BY HotInvIsEnough
  <1> QED BY <1>1, <1>2, <1>3, PTL DEF HotSpec
=============================================================================
