------------------------------- MODULE Sampling -------------------------------
(***************************************************************************)
(* c/sample.h: the next token from the logits, and the set of tokens that  *)
(* stop a reply.  A probability is a weight over the sum of the weights;   *)
(* Weight stands for exp((logit - max) / temperature).  Token ids are the  *)
(* indices of the logits, the first is 1.                                  *)
(***************************************************************************)
EXTENDS Integers, Sequences, FiniteSets, SequencesExt, FiniteSetsExt

CONSTANTS Weight,         \* finite logit -> weight
          NaN, Infinity,  \* the logits that are not finite (-Infinity is the third)
          MaxStops

IsFinite(x) == x \in DOMAIN Weight
Above(x, y) == x # NaN /\ y # NaN /\ x > y

\* argmax_v: the first of the largest, NaN apart; the first token when there is none.
Argmax(logits) ==
    LET best[i \in 0..Len(logits)] ==
            IF i = 0 THEN [at |-> 0, value |-> -Infinity]
            ELSE IF Above(logits[i], best[i - 1].value) THEN [at |-> i, value |-> logits[i]]
            ELSE best[i - 1]
    IN IF best[Len(logits)].at = 0 THEN 1 ELSE best[Len(logits)].at

----------------------------------------------------------------------------
(* dist_build.                                                             *)

TotalOf(p) == FoldFunction(LAMBDA x, y : x + y, 0, p)

\* One token has it all.
Only(logits, i) == [k \in DOMAIN logits |-> IF k = i THEN 1 ELSE 0]

Softmax(logits) == [i \in DOMAIN logits |-> IF IsFinite(logits[i]) THEN Weight[logits[i]] ELSE 0]

\* topp_siftdown on the first n places of a heap of token ids.
SiftDown(heap, n, place, p) ==
    LET child(i) == IF 2 * i + 1 <= n /\ p[heap[2 * i + 1]] > p[heap[2 * i]] THEN 2 * i + 1 ELSE 2 * i
        sink[i \in 1..(2 * n + 1)] ==       \* the place the carried id ends at
            IF i > n \/ 2 * i > n THEN i
            ELSE IF p[heap[child(i)]] <= p[heap[place]] THEN i
            ELSE sink[child(i)]
        last == sink[place]
        path[i \in 1..(2 * n + 1)] ==       \* the places the ids move up from
            IF i = last THEN {} ELSE {i} \union path[child(i)]
        up == path[place]
    IN [i \in DOMAIN heap |-> IF i = last THEN heap[place]
                              ELSE IF i \in up THEN heap[child(i)]
                              ELSE heap[i]]

Heapified(p) ==
    LET n == Len(p)
        built[k \in 0..(n \div 2)] ==
            IF k = 0 THEN [i \in 1..n |-> i] ELSE SiftDown(built[k - 1], n, (n \div 2) - k + 1, p)
    IN built[n \div 2]

\* The ids popped from the heap while Goes holds of their weight so far.
Popped(p, Goes(_)) ==
    LET pop[k \in 0..Len(p)] ==
            IF k = 0 THEN [heap |-> Heapified(p), kept |-> <<>>, cum |-> 0]
            ELSE LET s == pop[k - 1]
                     out == Len(p) - k + 1
                     root == s.heap[1]
                     swapped == [s.heap EXCEPT ![1] = s.heap[out], ![out] = root]
                 IN IF ~Goes(s.cum) THEN s
                    ELSE [heap |-> IF out > 1 THEN SiftDown(swapped, out - 1, 1, p) ELSE swapped,
                          kept |-> Append(s.kept, root), cum |-> s.cum + p[root]]
    IN pop[Len(p)].kept

\* Mutant: one more when the share is exactly reached.
NucleusAndOne(p, nucleus) == Popped(p, LAMBDA cum : cum * 100 <= nucleus * TotalOf(p))

\* Until their share reaches the nucleus (per cent).
Nucleus(p, nucleus) == Popped(p, LAMBDA cum : cum * 100 < nucleus * TotalOf(p))

\* The weights, the tail of the nucleus zeroed; without a finite logit the
\* first token has it all.
Distribution(logits, nucleus) ==
    LET p == Softmax(logits)
    IN IF TotalOf(p) = 0 THEN Only(logits, 1)
       ELSE IF nucleus = 0 \/ nucleus = 100 THEN p
       ELSE LET kept == Range(Nucleus(p, nucleus))
            IN [i \in DOMAIN p |-> IF i \in kept THEN p[i] ELSE 0]

----------------------------------------------------------------------------
(* dist_sample: u is the random number times the weight that is left       *)
(* without the banned token (0: none is banned).                           *)

Left(p, ban) == TotalOf(p) - (IF ban = 0 THEN 0 ELSE p[ban])

\* Mutant: the weight of the banned token still counts.
SampleFromZero(p, ban, u) ==
    LET cum[i \in 0..Len(p)] == IF i = 0 THEN 0 ELSE cum[i - 1] + p[i]
    IN Min({i \in DOMAIN p : i # ban /\ cum[i] >= u} \union {Len(p)})

Sample(p, ban, u) ==
    LET cum[i \in 0..Len(p)] ==
            IF i = 0 THEN 0 ELSE cum[i - 1] + (IF i = ban THEN 0 ELSE p[i])
        reached == {i \in DOMAIN p : i # ban /\ cum[i] >= u}
        positive == {i \in DOMAIN p : i # ban /\ p[i] > 0}
    IN IF reached # {} THEN Min(reached)
       ELSE IF positive # {} THEN Max(positive) ELSE 1

\* spec_decode's verification of a draft at a temperature above 0: accepted
\* with its probability, else the next pick is without it.
Accepts(p, draft, u) == u < p[draft]

----------------------------------------------------------------------------
(* stops_arm_tok: special is the tokenizer's, batched the gateway's mode.  *)

Added(stops, t) == IF t \in Range(stops) \/ Len(stops) >= MaxStops THEN stops ELSE Append(stops, t)
FromConfig(config) == SubSeq(config, 1, IF Len(config) < MaxStops THEN Len(config) ELSE MaxStops)

Stops(config, eos, special, batched, all) ==
    LET withEos == IF eos = 0 THEN FromConfig(config) ELSE Added(FromConfig(config), eos)
        withSpecial == FoldLeft(Added, withEos, special)
    IN IF batched /\ eos # 0 /\ ~all THEN SelectSeq(withSpecial, LAMBDA t : t = eos) ELSE withSpecial

----------------------------------------------------------------------------

\* The nucleus is the smallest set of the likeliest tokens that has the share
\* asked for: the partial heap gives what a full sort would.
NucleusIsSmallest(logits, nucleus) ==
    LET all == Softmax(logits)
        p == Distribution(logits, nucleus)
        kept == {i \in DOMAIN p : p[i] > 0}
        share(set) == FoldSet(LAMBDA i, sum : sum + all[i], 0, set)
    IN (TotalOf(all) > 0 /\ nucleus \in 1..99) =>
           /\ \A i \in kept, j \in DOMAIN p \ kept : all[i] >= all[j]
           /\ share(kept) * 100 >= nucleus * TotalOf(all)
           /\ \A i \in kept : share(kept \ {i}) * 100 < nucleus * TotalOf(all)
                              \/ \E j \in kept : all[j] < all[i]

\* Speculation does not change what is sampled: over the random numbers, a
\* token comes out as often with a draft (accepted, or refused and banned
\* from the next pick) as without one, which is as often as its weight says.
SpeculationIsFair(logits, nucleus, draft) ==
    LET p == Distribution(logits, nucleus)
        picked(ban, t) == Cardinality({u \in 1..Left(p, ban) : Sample(p, ban, u) = t})
        accepted == Cardinality({u \in 0..(TotalOf(p) - 1) : Accepts(p, draft, u)})
    IN \A t \in DOMAIN p :
           /\ picked(0, t) = p[t]
           /\ (IF t = draft THEN accepted ELSE 0) + picked(draft, t) = p[t]

\* What does not fit is left out, the rest stops; the gateway's mode has the
\* end of the text and nothing else.
StopsAreArmed(config, eos, special, batched) ==
    LET stops == Range(Stops(config, eos, special, batched, FALSE))
        asked == Range(config) \union Range(special) \union ({eos} \ {0})
    IN /\ stops \subseteq asked
       /\ Len(config) + Len(special) < MaxStops =>
              stops = IF batched /\ eos # 0 THEN {eos} ELSE asked
=============================================================================
