------------------------------- MODULE Balancer -------------------------------
(***************************************************************************)
(* tools/cluster_lb.py: one thread per HTTP request asks every backend for *)
(* its health, through a cache, and forwards the request to the one with   *)
(* the most free capacity.  Only a probe and the forwarded request take    *)
(* time.  at is the moment a backend answered a probe (a history value).   *)
(***************************************************************************)
EXTENDS Integers, Sequences, FiniteSets, SequencesExt

CONSTANTS Requests,
          Backends,       \* a sequence, in the order of the command line
          Capacity,       \* slots of a backend's scheduler
          HealthTtl, ProbeTimeout,
          MaxTime         \* bound on the clock

ASSUME BalancerAssumption ==
    /\ Len(Backends) \in Nat \ {0} /\ DOMAIN Backends = 1..Len(Backends)
    /\ Capacity \in Nat \ {0} /\ HealthTtl \in Nat \ {0}
    /\ ProbeTimeout \in Nat /\ MaxTime \in Nat
    /\ IsFiniteSet(Requests)

VARIABLES node,       \* backend -> [up, active, queued]
          thread,     \* request -> what its handler is doing
          cache,      \* backend -> [time, health], or NoEntry
          rr, now

balancerVars == <<node, thread, cache, rr, now>>

Nodes == Range(Backends)
Down == [up |-> FALSE, active |-> 0, queued |-> 0, at |-> 0]
NoEntry == [time |-> -1, health |-> Down]
Idle == [pc |-> "idle", asked |-> 0, since |-> 0, scored |-> <<>>, heads |-> 0, backend |-> Backends[1]]

BalancerInit ==
    /\ node = [b \in Nodes |-> [up |-> TRUE, active |-> 0, queued |-> 0]]
    /\ thread = [r \in Requests |-> Idle]
    /\ cache = [b \in Nodes |-> NoEntry]
    /\ rr = 0 /\ now = 0

----------------------------------------------------------------------------
(* BackendPool.health and pick.                                            *)

Asked(r) == Backends[thread[r].asked]

\* Mutant: an entry never expires.
IsFreshForever(entry) == entry.time >= 0

IsFresh(entry) == entry.time >= 0 /\ now - entry.time < HealthTtl

\* The health of one backend is known: on to the next, or to the choice.
WithHealth(t, health) ==
    [t EXCEPT !.pc = IF t.asked = Len(Backends) THEN "pick" ELSE "ask",
              !.asked = IF @ = Len(Backends) THEN 0 ELSE @ + 1,
              !.since = 0,
              !.scored = Append(@, health)]

Arrive(r) ==
    /\ thread[r].pc = "idle" /\ thread[r].heads = 0
    /\ thread' = [thread EXCEPT ![r] = [Idle EXCEPT !.pc = "ask", !.asked = 1]]
    /\ UNCHANGED <<node, cache, rr, now>>

FromCache(r) ==
    /\ thread[r].pc = "ask" /\ IsFresh(cache[Asked(r)])
    /\ thread' = [thread EXCEPT ![r] = WithHealth(thread[r], cache[Asked(r)].health)]
    /\ UNCHANGED <<node, cache, rr, now>>

Probe(r) ==
    /\ thread[r].pc = "ask" /\ ~IsFresh(cache[Asked(r)])
    /\ thread' = [thread EXCEPT ![r].pc = "probe", ![r].since = now]
    /\ UNCHANGED <<node, cache, rr, now>>

\* The answer, an error, or no answer in time; the entry has the time of the
\* question, and replaces whatever another thread stored meanwhile.
Answer(r) ==
    LET b == Asked(r)
        health == IF node[b].up
                  THEN [up |-> TRUE, active |-> node[b].active, queued |-> node[b].queued, at |-> now]
                  ELSE [Down EXCEPT !.at = now]
    IN /\ thread[r].pc = "probe"
       /\ cache' = [cache EXCEPT ![b] = [time |-> thread[r].since, health |-> health]]
       /\ thread' = [thread EXCEPT ![r] = WithHealth(thread[r], health)]
       /\ UNCHANGED <<node, rr, now>>

Free(h) == IF Capacity > h.active THEN Capacity - h.active ELSE 0

\* The key of the sort: most free, then the shortest queue, then the least busy.
IsBetter(h, other) ==
    \/ Free(h) > Free(other)
    \/ Free(h) = Free(other) /\ h.queued < other.queued
    \/ Free(h) = Free(other) /\ h.queued = other.queued /\ h.active < other.active

\* Mutant: a backend without an answer is a candidate too.
AllCandidates(scored) ==
    {k \in DOMAIN scored : ~\E j \in DOMAIN scored : IsBetter(scored[j], scored[k])}

\* The backends at the head of the sorted list.
Candidates(scored) ==
    {k \in DOMAIN scored :
        scored[k].up /\ ~\E j \in DOMAIN scored : scored[j].up /\ IsBetter(scored[j], scored[k])}

\* They take turns, in the order of the command line.
Turn(best, k) == Cardinality({j \in best : j < k}) = rr % Cardinality(best)

Pick(r) ==
    LET best == Candidates(thread[r].scored)
    IN /\ thread[r].pc = "pick"
       /\ \E k \in best :
              /\ Turn(best, k)
              /\ thread' = [thread EXCEPT ![r].pc = "forward", ![r].backend = Backends[k]]
       /\ rr' = rr + 1
       /\ UNCHANGED <<node, cache, now>>

\* 503: no backend answered.
Unavailable(r) ==
    /\ thread[r].pc = "pick" /\ Candidates(thread[r].scored) = {}
    /\ thread' = [thread EXCEPT ![r].pc = "unavailable", ![r].heads = 1]
    /\ UNCHANGED <<node, cache, rr, now>>

----------------------------------------------------------------------------
(* Handler._proxy.                                                         *)

\* The backend takes the request: a slot, or a place in its queue.
Connect(r) ==
    LET b == thread[r].backend
    IN /\ thread[r].pc = "forward" /\ node[b].up
       /\ node' = [node EXCEPT ![b].active = IF @ < Capacity THEN @ + 1 ELSE @,
                               ![b].queued = IF node[b].active < Capacity THEN @ ELSE @ + 1]
       /\ thread' = [thread EXCEPT ![r].pc = "stream", ![r].heads = 1, ![r].scored = <<>>]
       /\ UNCHANGED <<cache, rr, now>>

Refused(r) ==
    /\ thread[r].pc = "forward" /\ ~node[thread[r].backend].up
    /\ thread' = [thread EXCEPT ![r].pc = "failed", ![r].heads = 1, ![r].scored = <<>>]
    /\ UNCHANGED <<node, cache, rr, now>>

\* The backend answers with an error status: its answer is passed on.
Rejected(r) ==
    /\ thread[r].pc = "forward" /\ node[thread[r].backend].up
    /\ thread' = [thread EXCEPT ![r].pc = "done", ![r].heads = 1, ![r].scored = <<>>,
                                ![r].backend = Backends[1]]
    /\ UNCHANGED <<node, cache, rr, now>>

Finish(r) ==
    LET b == thread[r].backend
    IN /\ thread[r].pc = "stream" /\ node[b].up
       /\ node' = [node EXCEPT ![b].active = IF node[b].queued > 0 THEN @ ELSE @ - 1,
                               ![b].queued = IF @ > 0 THEN @ - 1 ELSE 0]
       /\ thread' = [thread EXCEPT ![r].pc = "done", ![r].backend = Backends[1]]
       /\ UNCHANGED <<cache, rr, now>>

\* The stream breaks: a second status line, 502, goes into the body.
Break(r) ==
    /\ thread[r].pc = "stream" /\ ~node[thread[r].backend].up
    /\ thread' = [thread EXCEPT ![r].pc = "failed", ![r].heads = @ + 1]
    /\ UNCHANGED <<node, cache, rr, now>>

----------------------------------------------------------------------------

\* A backend dies, and forgets its requests, or comes back.
Fail(b) ==
    /\ node[b].up
    /\ node' = [node EXCEPT ![b] = [up |-> FALSE, active |-> 0, queued |-> 0]]
    /\ UNCHANGED <<thread, cache, rr, now>>

Recover(b) ==
    /\ ~node[b].up /\ \A r \in Requests : ~(thread[r].pc = "stream" /\ thread[r].backend = b)
    /\ node' = [node EXCEPT ![b].up = TRUE]
    /\ UNCHANGED <<thread, cache, rr, now>>

\* Time passes while every thread waits, and no probe is past its timeout.
Tick ==
    /\ now < MaxTime
    /\ \A r \in Requests : /\ thread[r].pc \notin {"ask", "pick", "forward"}
                           /\ thread[r].pc = "probe" => now < thread[r].since + ProbeTimeout
    /\ now' = now + 1
    /\ UNCHANGED <<node, thread, cache, rr>>

BalancerNext ==
    \/ \E r \in Requests : \/ Arrive(r) \/ FromCache(r) \/ Probe(r) \/ Answer(r)
                           \/ Pick(r) \/ Unavailable(r)
                           \/ Connect(r) \/ Refused(r) \/ Rejected(r) \/ Finish(r) \/ Break(r)
    \/ \E b \in Nodes : Fail(b) \/ Recover(b)
    \/ Tick

BalancerSpec == BalancerInit /\ [][BalancerNext]_balancerVars

----------------------------------------------------------------------------

Health == [up : BOOLEAN, active : Nat, queued : Nat, at : Nat]
Phases == {"idle", "ask", "probe", "pick", "forward", "unavailable", "stream", "failed", "done"}

BalancerTypeOK ==
    /\ rr \in Nat /\ now \in 0..MaxTime
    /\ node \in [Nodes -> [up : BOOLEAN, active : 0..Capacity, queued : Nat]]
    /\ cache \in [Nodes -> [time : Nat \cup {-1}, health : Health]]
    /\ thread \in [Requests -> [pc : Phases, asked : 0..Len(Backends), since : Nat, scored : Seq(Health),
                                heads : 0..2, backend : Nodes]]
    /\ \A r \in Requests : Len(thread[r].scored) <= Len(Backends)

\* A choice rests on answers of the last moments: however the threads' probes
\* overlap, and whichever stores last, a health record is younger than the
\* time to live when it is read, and only the probes of the other backends
\* pass before it is used.
Age(r, k) == now - thread[r].scored[k].at
Oldest == HealthTtl + ProbeTimeout * (Len(Backends) - 1)
ChoicesAreFresh ==
    \A r \in Requests : thread[r].pc = "pick" =>
        \A k \in DOMAIN Backends : Age(r, k) < Oldest

\* A request goes to a backend that answered its probe, and is refused only
\* when none did.
ChoicesAreJustified ==
    \A r \in Requests :
        /\ thread[r].pc = "forward" =>
               \E k \in DOMAIN Backends : /\ Backends[k] = thread[r].backend
                                          /\ thread[r].scored[k].up
                                          /\ ~\E j \in DOMAIN Backends :
                                                 /\ thread[r].scored[j].up
                                                 /\ IsBetter(thread[r].scored[j], thread[r].scored[k])
        /\ thread[r].pc = "unavailable" => \A k \in DOMAIN Backends : ~thread[r].scored[k].up

BalancerIsSound == BalancerTypeOK /\ ChoicesAreFresh /\ ChoicesAreJustified
=============================================================================
