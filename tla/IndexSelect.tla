---------------------------- MODULE IndexSelect ----------------------------
(***************************************************************************)
(* The choice of the rows a sparse attention reads, in c/colibri.c: the    *)
(* quickselect that finds the threshold, and the scan in the order of the  *)
(* positions.  An array is a function on 0..n-1.                           *)
(***************************************************************************)
EXTENDS Integers, Sequences, FiniteSets, SequencesExt, FiniteSetsExt

Sup(a) == Cardinality(DOMAIN a) - 1
Exchange(a, i, j) == [a EXCEPT ![i] = a[j], ![j] = a[i]]
Ordered(a, i, j) == IF a[i] > a[j] THEN Exchange(a, i, j) ELSE a

\* The median of three goes to hi.
Pivoted(a, lo, hi) ==
    LET mid == lo + (hi - lo) \div 2
        b == Ordered(a, mid, lo)
        c == Ordered(b, hi, lo)
    IN Ordered(c, mid, hi)

RECURSIVE Parted(_, _, _, _, _)
Parted(a, lo, i0, j0, pivot) ==
    LET i == Min({k \in i0..Sup(a) : a[k] <= pivot} \cup {Sup(a) + 1})
        j == Max({k \in lo..j0 : a[k] >= pivot} \cup {lo})
    IN IF i >= j THEN [a |-> a, i |-> i]
       ELSE IF i + 1 > j THEN [a |-> Exchange(a, i, j), i |-> i + 1]
       ELSE Parted(Exchange(a, i, j), lo, i + 1, j - 1, pivot)

RECURSIVE SelectedFrom(_, _, _, _)
SelectedFrom(a, lo, hi, k) ==
    IF lo >= hi THEN a
    ELSE LET b == Pivoted(a, lo, hi)
             p == Parted(b, lo, lo, hi, b[hi])
         IN IF k <= p.i - 1 THEN SelectedFrom(p.a, lo, p.i - 1, k) ELSE SelectedFrom(p.a, p.i, hi, k)

\* partial_select_desc: the k largest come first.
PartialSelect(a, k) == IF k <= 0 \/ k > Sup(a) THEN a ELSE SelectedFrom(a, 0, Sup(a), k)

\* Mutant: the threshold is the value at place k, taken for the least of the first k.
ThresholdAtPlace(a, k) == PartialSelect(a, k)[k - 1]

Threshold(a, k) == Min({PartialSelect(a, k)[t] : t \in 0..(k - 1)})

\* The rows of a query at position pos: none chosen means all of them.
Rows(scores, topk, forced) ==
    LET n == Sup(scores) + 1
        keep == IF n < topk THEN n ELSE topk
        least == Threshold(scores, keep)
        above == {t \in DOMAIN scores : scores[t] > least}
        equal == {t \in DOMAIN scores : scores[t] = least}
        Increasing(s) == SetToSortSeq(s, <)
        rows == Increasing(above) \o Increasing(equal)
    IN IF n <= topk /\ ~forced THEN <<>> ELSE SubSeq(rows, 1, Min({keep, Len(rows)}))
----------------------------------------------------------------------------
\* The rows are as many as asked for, none twice, none is worse than one left
\* out, and of equal ones the first are taken; forced with all, all are read.
SelectionIsExact(scores, topk, forced) ==
    LET rows == Rows(scores, topk, forced)
        n == Sup(scores) + 1
        in == Range(rows)
    IN /\ n <= topk /\ ~forced => rows = <<>>
       /\ n > topk \/ forced =>
              /\ Cardinality(in) = (IF n < topk THEN n ELSE topk) /\ Len(rows) = Cardinality(in)
              /\ \A t \in in, u \in DOMAIN scores \ in :
                     scores[t] > scores[u] \/ (scores[t] = scores[u] /\ t < u)
=============================================================================
