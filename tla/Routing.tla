------------------------------ MODULE Routing ------------------------------
(***************************************************************************)
(* The first half of moe in c/colibri.c: which experts each position of a  *)
(* batch is sent to, with which weights, and which of them the layer may   *)
(* load.  A routed row is a sequence of experts and integer weights over a *)
(* fraction: the weight of an entry is w * num / den (routed_scale is 1).  *)
(* Experts are numbered from 0; a score that is not a number is NaN.       *)
(***************************************************************************)
EXTENDS Integers, Sequences, FiniteSets, SequencesExt, FiniteSetsExt

CONSTANTS E,        \* experts of a layer
          K,        \* experts of a position
          NaN

Experts == 0..(E - 1)
Least(a, b) == IF a < b THEN a ELSE b
Greatest(a, b) == IF a > b THEN a ELSE b
Portion(p) == p \in 1..99                \* a share in per cent that is in force
SumSeq(s) == FoldLeft(LAMBDA x, y : x + y, 0, s)
Weights(row) == [k \in DOMAIN row |-> row[k].w]
ExpertsOf(row) == {row[k].e : k \in DOMAIN row}
----------------------------------------------------------------------------
(* The selection of a position.                                            *)

\* The first of the largest scores that are left; when none is a number, the
\* number of the place (router_best_or_fallback).
Best(choice, ranked) ==
    LET left == {e \in Experts : e \notin Range(ranked) /\ choice[e] # NaN}
        top == {e \in left : \A f \in left : choice[e] >= choice[f]}
    IN IF left # {} THEN Min(top) ELSE IF Len(ranked) < E THEN Len(ranked) ELSE 0

Ranked(choice, n) ==
    LET rank[k \in 0..n] == IF k = 0 THEN <<>> ELSE Append(rank[k - 1], Best(choice, rank[k - 1]))
    IN rank[n]

Selected(opts) == IF opts.topk > 0 THEN Least(opts.topk, K) ELSE K
RankCap(opts) == Least(Greatest(opts.window, K), E)

\* ROUTE_P: the ranks that hold the share of the weight; else ROUTE_M of them.
Window(logit, choice, opts) ==
    LET widest == Least(Greatest(opts.window, 4 * Selected(opts)), RankCap(opts))
        weight == [k \in 1..widest |-> logit[Ranked(choice, widest)[k]]]
        covers == {k \in 1..widest : SumSeq(SubSeq(weight, 1, k)) * 100 >= opts.share * SumSeq(weight)}
    IN IF Portion(opts.share) THEN Greatest(Selected(opts), Min(covers \cup {widest})) ELSE RankCap(opts)

\* Mutant: the experts that are at hand come before the first of the ranking.
TakenResidentFirst(rank, resident, opts) ==
    LET Take(s, e) == IF Len(s) < Selected(opts) /\ e \notin Range(s) THEN Append(s, e) ELSE s
    IN FoldLeft(Take, FoldLeft(Take, <<>>, SelectSeq(rank, LAMBDA e : e \in resident)), rank)

\* The true first J, then residents among the window, then the window's order.
Taken(rank, resident, opts) ==
    LET Take(s, e) == IF Len(s) < Selected(opts) /\ e \notin Range(s) THEN Append(s, e) ELSE s
        first == SubSeq(rank, 1, Least(opts.top, Selected(opts)))
        hits == SelectSeq(SubSeq(rank, Len(first) + 1, Len(rank)), LAMBDA e : e \in resident)
        chosen == FoldLeft(Take, FoldLeft(Take, first, hits), rank)
    IN chosen \o SubSeq(rank, Len(chosen) + 1, Selected(opts))

\* ROUTE_ALPHA lowers the weight of an expert the true ranking has not.
Chosen(logit, choice, resident, opts) ==
    LET n == Selected(opts)
        rank == Ranked(choice, Window(logit, choice, opts))
        chosen == IF opts.cached THEN Taken(rank, resident, opts) ELSE Ranked(choice, n)
        lowered(e) == opts.cached /\ Portion(opts.alpha) /\ e \notin ToSet(SubSeq(rank, 1, n))
    IN [k \in 1..n |-> [e |-> chosen[k],
                        w |-> logit[chosen[k]] * (IF lowered(chosen[k]) THEN opts.alpha ELSE 100)]]

Sorted(row) ==
    SortSeq([k \in DOMAIN row |-> [r |-> row[k], k |-> k]],
            LAMBDA a, b : a.r.w > b.r.w \/ (a.r.w = b.r.w /\ a.k < b.k))
Reaches(row, k, topp) == SumSeq(Weights(SubSeq(row, 1, k))) * 100 >= topp * SumSeq(Weights(row))

\* Mutant: the expert that reaches the share is left out.
TruncatedShort(row, topp) ==
    LET Cut(sorted) == SelectSeq(sorted, LAMBDA r : \E k \in DOMAIN sorted : sorted[k] = r /\ ~Reaches(sorted, k, topp))
    IN IF ~Portion(topp) THEN row ELSE Cut([k \in DOMAIN row |-> Sorted(row)[k].r])

\* TOPP: by weight, up to the expert that reaches the share.
Truncated(row, topp) ==
    LET Cut(sorted) == SubSeq(sorted, 1, Min({k \in DOMAIN row : Reaches(sorted, k, topp)} \cup {Len(row)}))
    IN IF ~Portion(topp) THEN row ELSE Cut([k \in DOMAIN row |-> Sorted(row)[k].r])

\* abl.h: the cell is dropped, or another expert stands in for it.
Ablated(row, opts) ==
    CASE opts.ablation = "around" -> SelectSeq(row, LAMBDA r : r.e # opts.cell)
      [] opts.ablation = "swap" -> [k \in DOMAIN row |-> IF row[k].e = opts.cell
                                                         THEN [row[k] EXCEPT !.e = opts.standin] ELSE row[k]]
      [] OTHER -> row

\* A row with the fraction its weights are over (norm_topk).
Routed(logit, choice, resident, opts) ==
    LET row == Ablated(Truncated(Chosen(logit, choice, resident, opts), opts.topp), opts)
    IN [row |-> row, num |-> 1, den |-> IF opts.norm THEN SumSeq(Weights(row)) ELSE 1]

\* A row that a device routed: no more than K experts, each of them one of the layer.
Sanitised(row, n) ==
    [k \in 1..(IF n < 0 THEN 0 ELSE Least(n, K)) |->
        IF row[k] \in Experts THEN row[k] ELSE 0]
----------------------------------------------------------------------------
(* The batch: the union of the rows and EXPERT_BUDGET.                     *)

Entries(rows) == FlattenSeq([s \in DOMAIN rows |-> rows[s].row])

Union(rows) ==
    FoldLeft(LAMBDA u, r : IF r.e \in Range(u) THEN u ELSE Append(u, r.e), <<>>, Entries(rows))

Aggregate(rows, e) == SumSeq(Weights(SelectSeq(Entries(rows), LAMBDA r : r.e = e)))

\* The experts at hand, and the heaviest of the others up to the budget.
Kept(rows, resident, budget) ==
    LET hits == {r.e : r \in Range(Entries(rows))} \cap resident
        weighed(e) == [e |-> e, w |-> Aggregate(rows, e)]
        misses == SelectSeq(Union(rows), LAMBDA e : e \notin resident)
        order == Sorted([k \in DOMAIN misses |-> weighed(misses[k])])
    IN hits \cup {r.r.e : r \in Range(SubSeq(order, 1, Greatest(budget - Cardinality(hits), 0)))}

\* Mutant: a position may lose all its experts.
RescuedNone(rows, kept) == kept

\* A position that would keep no expert keeps its heaviest.
Rescued(rows, kept) ==
    LET Heaviest(row) == row[Min({k \in DOMAIN row : \A j \in DOMAIN row : row[k].w >= row[j].w})].e
        Save(set, r) == IF r.row = <<>> \/ ExpertsOf(r.row) \cap set # {} THEN set
                        ELSE set \cup {Heaviest(r.row)}
    IN FoldLeft(Save, kept, rows)

\* Mutant: the weights that are left are not raised.
RescaledNot(r, kept, opts) == [r EXCEPT !.row = SelectSeq(@, LAMBDA x : x.e \in kept)]

\* What is left of a row carries the weight it had.
Rescaled(r, kept, opts) ==
    LET left == SelectSeq(r.row, LAMBDA x : x.e \in kept)
        old == SumSeq(Weights(r.row))
        new == SumSeq(Weights(left))
    IN IF Len(left) = Len(r.row) THEN r
       ELSE IF opts.norm /\ left # <<>> THEN [row |-> left, num |-> 1, den |-> new]
       ELSE IF left # <<>> /\ new > 0 /\ old > new THEN [row |-> left, num |-> old, den |-> new * r.den]
       ELSE [r EXCEPT !.row = left]

\* Only in decoding (S <= 4), and only when the union is over the budget.
Budgeted(rows, resident, opts) ==
    LET Cut(kept, uniq) == [rows |-> [s \in DOMAIN rows |-> Rescaled(rows[s], kept, opts)],
                            uniq |-> SelectSeq(uniq, LAMBDA e : e \in kept)]
        Weighed(uniq) == IF opts.budget > 0 /\ Len(rows) <= 4 /\ Len(uniq) > opts.budget
                         THEN Cut(Rescued(rows, Kept(rows, resident, opts.budget)), uniq)
                         ELSE [rows |-> rows, uniq |-> uniq]
    IN Weighed(Union(rows))
----------------------------------------------------------------------------
\* A row has different experts of the layer, whatever the scores are, unless
\* none is a number; a device's row is made harmless.
RankIsSafe(choice) ==
    LET rank == Ranked(choice, E)
    IN /\ Range(rank) \subseteq Experts
       /\ (\A e \in Experts : choice[e] # NaN) =>
              \A k \in 2..E : /\ rank[k - 1] # rank[k]
                              /\ choice[rank[k - 1]] >= choice[rank[k]]
       /\ Range(Sanitised(rank \o rank, E + 1)) \subseteq Experts

\* CACHE_ROUTE: a row keeps the first of the true ranking, leaves its window
\* for nothing, and goes to the disk only when the window has no other expert
\* at hand; TOPP keeps the fewest of the heaviest that have the share.
ChoiceIsSound(taken, first, window, resident, opts) ==
    /\ first \subseteq taken
    /\ opts.cached => /\ taken \subseteq window
                      /\ taken \subseteq first \cup resident \/ window \cap resident \subseteq taken
CutIsSound(row, cut, topp) ==
    LET share(w) == w * 100 >= topp * SumSeq(Weights(row))
        held == SumSeq(Weights(cut))
    IN /\ share(held)
       /\ \A x \in Range(cut) : ~share(held - x.w) \/ \E y \in Range(cut) : y.w < x.w
       /\ \A x \in Range(cut), y \in Range(row) : y \notin Range(cut) => x.w >= y.w
RowIsSound(logit, choice, resident, opts) ==
    \A row \in {Chosen(logit, choice, resident, opts)}, rank \in {Ranked(choice, E)}, n \in {Selected(opts)} :
        /\ Len(row) = n /\ Cardinality(ExpertsOf(row)) = n
        /\ ChoiceIsSound(ExpertsOf(row), ToSet(SubSeq(rank, 1, IF opts.cached THEN Least(opts.top, n) ELSE n)),
                         ToSet(SubSeq(rank, 1, Window(logit, choice, opts))), resident, opts)
        /\ Portion(opts.topp) => CutIsSound(row, Truncated(row, opts.topp), opts.topp)

\* EXPERT_BUDGET: every position keeps an expert and the weight it had, what is
\* at hand is never dropped, and only positions that were rescued go over.
SameWeight(old, new) ==
    SumSeq(Weights(old.row)) * old.num * new.den = SumSeq(Weights(new.row)) * new.num * old.den
BudgetIsSound(rows, resident, opts) ==
    \A after \in {Budgeted(rows, resident, opts)} :
        LET hits == Range(after.uniq) \cap resident
        IN /\ Range(after.uniq) = UNION {ExpertsOf(r.row) : r \in Range(after.rows)}
           /\ {r.e : r \in Range(Entries(rows))} \cap resident = hits
           /\ \A s \in DOMAIN rows : /\ rows[s].row # <<>> => after.rows[s].row # <<>>
                                     /\ SameWeight(rows[s], after.rows[s])
           /\ (opts.budget > 0 /\ Len(rows) <= 4) =>
                  Cardinality(Range(after.uniq) \ resident)
                      <= Greatest(opts.budget - Cardinality(hits), 0) + Len(rows)
=============================================================================
