---------------------------- MODULE KvPersistProofs ----------------------------
(***************************************************************************)
(* What the file of a slot guarantees when every process that opens it     *)
(* runs with one layout and one context: what a process resumes is one     *)
(* conversation, a crash at any point leaves a prefix of what was in       *)
(* memory, and a finished turn is in the file.                             *)
(*                                                                         *)
(* With two layouts, or two contexts, this is false: a process that cannot *)
(* load a file starts to rewrite it under the count of the old one.  The   *)
(* inductive invariant says which cells of the file hold which rows of the *)
(* memory (as many records as diskNrec, and the cells an append has        *)
(* written so far), and that the count of the header is diskNrec unless    *)
(* the file is one that no process loads.                                  *)
(***************************************************************************)
EXTENDS KvPersist, TLAPS, SequenceTheorems, WellFoundedInduction

\* Every process is started with the same layout and the same context.
OneProcess ==
    /\ \A l, m \in Layouts : l = m
    /\ \A c, d \in Contexts : c = d

W == Width[layout]

\* What the code writes at cell i (from 0) of a file that holds the rows rs.
CellOf(rs, i) == Cell(layout, rs[(i \div W) + 1], i % W)

\* The first m cells hold the rows rs.
Holds(rs, m) ==
    /\ m <= Len(cells)
    /\ \A i \in 0..(m - 1) : cells[i + 1] = CellOf(rs, i)

\* kv_disk_load would read this file.
Loadable == exists /\ header = layout /\ nrec >= 1 /\ nrec + Margin < ctx

Typed ==
    /\ exists \in BOOLEAN
    /\ pc \in {"down", "ready", "truncate", "prefill", "decode", "create", "create_header", "rows"}
    /\ layout \in Layouts /\ ctx \in Contexts
    /\ header \in Layouts \cup {NoHeader}
    /\ nrec \in Nat /\ diskNrec \in Nat /\ at \in Nat
    /\ cells \in Seq([layout : Layouts, row : Seq(Tokens), part : Nat])
    /\ rows \in Seq(Seq(Tokens)) /\ rows = RowsOf(Hist(rows)) /\ Hist(rows) \in Seq(Tokens)
    /\ rows # <<>> => Len(rows) <= ctx - 2
    /\ prompt \in Seq(Tokens)

\* A file that can be loaded holds as many rows of one conversation as it says.
FileIsWhole ==
    Loadable => \E h \in Seq(Tokens) : Len(h) = nrec /\ Holds(RowsOf(h), nrec * W)

\* A file is made before its header is, and its header before its first record.
Made ==
    /\ ~exists => header = NoHeader
    /\ pc = "create" => ~exists
    /\ pc \in {"create_header", "rows"} => exists
    /\ diskNrec > 0 /\ pc # "down" => exists
    /\ pc = "create_header" => diskNrec = 0

\* The memory knows how much of it is in the file.
Synced ==
    /\ pc \notin {"down", "truncate"} =>
         /\ diskNrec <= Len(rows) /\ Holds(rows, diskNrec * W)
         /\ nrec = diskNrec \/ (diskNrec = 0 /\ ~Loadable)
    /\ pc = "truncate" => Len(rows) < diskNrec /\ nrec = diskNrec /\ Holds(rows, Len(rows) * W)
    /\ pc = "ready" => diskNrec = Len(rows)
    /\ pc \in {"truncate", "prefill"} =>
         /\ Len(rows) <= Len(prompt) /\ Len(prompt) <= ctx - 2
         /\ Hist(rows) = SubSeq(prompt, 1, Len(rows))
    /\ pc \in {"create", "create_header", "rows"} =>
         diskNrec * W <= at /\ at <= Len(rows) * W /\ Holds(rows, at)

Inv == Typed /\ FileIsWhole /\ Made /\ Synced

----------------------------------------------------------------------------
(* The arithmetic of records.                                              *)
LEMMA CellsOfARecord ==
    ASSUME NEW w \in Nat \ {0}, NEW p \in Nat, NEW k \in 0..(w - 1)
    PROVE  (p * w + k) \div w = p /\ (p * w + k) % w = k
  OBVIOUS

LEMMA RecordOfACell ==
    ASSUME NEW w \in Nat \ {0}, NEW n \in Nat, NEW i \in 0..(n * w - 1)
    PROVE  i \div w \in 0..(n - 1) /\ i % w \in 0..(w - 1)
  OBVIOUS

LEMMA MoreRecords ==
    ASSUME NEW w \in Nat \ {0}, NEW m \in Nat, NEW n \in Nat
    PROVE  m * w \in Nat /\ (m <= n <=> m * w <= n * w) /\ (m < n => m * w < n * w)
  OBVIOUS

----------------------------------------------------------------------------
(* Rows: the sequence of the prefixes of a conversation.                   *)
LEMMA RowsOfProperties ==
    ASSUME NEW h \in Seq(Tokens)
    PROVE  /\ RowsOf(h) \in Seq(Seq(Tokens))
           /\ Len(RowsOf(h)) = Len(h)
           /\ \A p \in 1..Len(h) : RowsOf(h)[p] = SubSeq(h, 1, p)
           /\ Hist(RowsOf(h)) = h
  <1>1. \A p \in 1..Len(h) : SubSeq(h, 1, p) \in Seq(Tokens)
    BY SubSeqProperties
  <1>2. RowsOf(h) \in Seq(Seq(Tokens)) /\ Len(RowsOf(h)) = Len(h)
    BY <1>1 DEF RowsOf
  <1>3. \A p \in 1..Len(h) : RowsOf(h)[p] = SubSeq(h, 1, p)
    BY DEF RowsOf
  <1>4. Hist(RowsOf(h)) = h
    <2>1. CASE h = <<>>
      BY <1>2, <2>1, EmptySeq DEF Hist
    <2>2. CASE h # <<>>
      <3>1. Len(h) \in 1..Len(h) /\ RowsOf(h) # <<>>
        BY <1>2, <2>2, EmptySeq, LenProperties
      <3>2. SubSeq(h, 1, Len(h)) = h
        BY SubSeqFull
      <3> QED BY <1>2, <1>3, <3>1, <3>2 DEF Hist
    <2> QED BY <2>1, <2>2
  <1> QED BY <1>2, <1>3, <1>4

LEMMA RowsOfPrefix ==
    ASSUME NEW h \in Seq(Tokens), NEW n \in 0..Len(h)
    PROVE  SubSeq(RowsOf(h), 1, n) = RowsOf(SubSeq(h, 1, n))
  <1>1. SubSeq(h, 1, n) \in Seq(Tokens) /\ Len(SubSeq(h, 1, n)) = n
    BY SubSeqProperties
  <1>2. SubSeq(RowsOf(h), 1, n) \in Seq(Seq(Tokens)) /\ Len(SubSeq(RowsOf(h), 1, n)) = n
        /\ \A p \in 1..n : SubSeq(RowsOf(h), 1, n)[p] = RowsOf(h)[p]
    BY RowsOfProperties, SubSeqProperties
  <1>3. ASSUME NEW p \in 1..n
        PROVE  RowsOf(h)[p] = RowsOf(SubSeq(h, 1, n))[p]
    <2>1. SubSeq(SubSeq(h, 1, n), 1, p) = SubSeq(h, 1, p)
      BY SubSeqOfSubSeq
    <2>2. RowsOf(h)[p] = SubSeq(h, 1, p)
      BY RowsOfProperties
    <2>3. RowsOf(SubSeq(h, 1, n))[p] = SubSeq(SubSeq(h, 1, n), 1, p)
      BY <1>1, RowsOfProperties
    <2> QED BY <2>1, <2>2, <2>3
  <1>4. RowsOf(SubSeq(h, 1, n)) \in Seq(Seq(Tokens)) /\ Len(RowsOf(SubSeq(h, 1, n))) = n
    BY <1>1, RowsOfProperties
  <1> QED BY <1>2, <1>3, <1>4, SeqEqual

LEMMA RowsOfAppend ==
    ASSUME NEW h \in Seq(Tokens), NEW t \in Tokens
    PROVE  Append(RowsOf(h), Append(h, t)) = RowsOf(Append(h, t))
  <1> DEFINE g == Append(h, t)
             n == Len(h)
  <1>1. g \in Seq(Tokens) /\ Len(g) = n + 1 /\ SubSeq(g, 1, n) = h /\ n \in Nat
    BY AppendProperties, LenProperties
  <1>2. /\ Append(RowsOf(h), g) \in Seq(Seq(Tokens)) /\ Len(Append(RowsOf(h), g)) = n + 1
        /\ \A p \in 1..n : Append(RowsOf(h), g)[p] = RowsOf(h)[p]
        /\ Append(RowsOf(h), g)[n + 1] = g
    BY <1>1, RowsOfProperties, AppendProperties
  <1> HIDE DEF g
  <1>3. RowsOf(g) \in Seq(Seq(Tokens)) /\ Len(RowsOf(g)) = n + 1
        /\ \A p \in 1..(n + 1) : RowsOf(g)[p] = SubSeq(g, 1, p)
    BY <1>1, RowsOfProperties
  <1>4. SubSeq(g, 1, n + 1) = g
    BY <1>1, SubSeqFull
  <1>5. ASSUME NEW p \in 1..n
        PROVE  RowsOf(h)[p] = RowsOf(g)[p]
    <2>1. SubSeq(SubSeq(g, 1, n), 1, p) = SubSeq(g, 1, p)
      BY <1>1, SubSeqOfSubSeq
    <2>2. RowsOf(h)[p] = SubSeq(h, 1, p)
      BY RowsOfProperties
    <2> QED BY <1>1, <1>3, <2>1, <2>2
  <1>6. \A p \in 1..(n + 1) : Append(RowsOf(h), g)[p] = RowsOf(g)[p]
    BY <1>1, <1>2, <1>3, <1>4, <1>5
  <1> QED BY <1>2, <1>3, <1>6, SeqEqual DEF g

\* mux_submit and the prefill: the rows of what is kept, and those of the rest.
LEMMA RowsOfTheRest ==
    ASSUME NEW h \in Seq(Tokens), NEW n \in 0..Len(h)
    PROVE  RowsOf(SubSeq(h, 1, n)) \o [i \in 1..(Len(h) - n) |-> RowsOf(h)[n + i]] = RowsOf(h)
  <1> DEFINE kept == RowsOf(SubSeq(h, 1, n))
             rest == [i \in 1..(Len(h) - n) |-> RowsOf(h)[n + i]]
             all == RowsOf(h)
  <1>1. all \in Seq(Seq(Tokens)) /\ Len(all) = Len(h) /\ Len(h) \in Nat
    BY RowsOfProperties, LenProperties
  <1>2. kept = SubSeq(all, 1, n)
    BY RowsOfPrefix
  <1> HIDE DEF all, kept
  <1>3. kept \in Seq(Seq(Tokens)) /\ Len(kept) = n /\ \A i \in 1..n : kept[i] = all[i]
    BY <1>1, <1>2, SubSeqProperties
  <1>4. /\ rest \in Seq(Seq(Tokens)) /\ Len(rest) = Len(h) - n
        /\ \A i \in 1..(Len(h) - n) : rest[i] = all[n + i]
    <2>1. \A i \in 1..(Len(h) - n) : all[n + i] \in Seq(Tokens)
      BY <1>1, ElementOfSeq
    <2> QED BY <1>1, <2>1 DEF all
  <1> HIDE DEF rest
  <1>5. kept \o rest \in Seq(Seq(Tokens)) /\ Len(kept \o rest) = Len(h)
        /\ \A i \in 1..Len(h) : (kept \o rest)[i] = all[i]
    <2>1. /\ kept \o rest \in Seq(Seq(Tokens)) /\ Len(kept \o rest) = n + (Len(h) - n)
          /\ \A i \in 1..(n + (Len(h) - n)) :
               (kept \o rest)[i] = IF i <= n THEN kept[i] ELSE rest[i - n]
      BY <1>3, <1>4, ConcatProperties
    <2>2. n + (Len(h) - n) = Len(h)
      BY <1>1
    <2>3. ASSUME NEW i \in 1..Len(h) PROVE (kept \o rest)[i] = all[i]
      <3>1. CASE i <= n
        BY <1>3, <2>1, <2>2, <3>1
      <3>2. CASE ~(i <= n)
        <4>1. i - n \in 1..(Len(h) - n) /\ n + (i - n) = i
          BY <1>1, <3>2
        <4> QED BY <1>4, <2>1, <2>2, <3>2, <4>1
      <3> QED BY <3>1, <3>2
    <2> QED BY <2>1, <2>2, <2>3
  <1>6. kept \o rest = all
    BY <1>1, <1>5, SeqEqual
  <1> QED BY <1>6 DEF kept, rest, all

----------------------------------------------------------------------------
(* The longest common prefix: the set CommonPrefix takes the maximum of    *)
(* holds 0 and is bounded, so it has one.                                  *)
LEMMA LeastElement ==
    ASSUME NEW T \in SUBSET Nat, T # {}
    PROVE  \E m \in T : \A y \in T : m <= y
  <1>1. IsWellFoundedOn(OpToRel(<, Nat), Nat)
    BY NatLessThanWellFounded
  <1>2. PICK m \in T : \A y \in T : ~(<<y, m>> \in OpToRel(<, Nat))
    BY <1>1, WFMin
  <1>3. \A y \in T : ~(y < m)
    BY <1>2 DEF OpToRel
  <1>4. \A y \in T : m <= y
    BY <1>3
  <1> QED BY <1>4

LEMMA BoundedSetHasMax ==
    ASSUME NEW n \in Nat, NEW S \in SUBSET (0..n), S # {}
    PROVE  Max(S) \in S /\ \A x \in S : Max(S) >= x
  <1> DEFINE T == {y \in Nat : n - y \in S}
  <1>1. \A x \in S : n - x \in T
    <2> SUFFICES ASSUME NEW x \in S PROVE n - x \in T
      OBVIOUS
    <2>1. x \in 0..n
      OBVIOUS
    <2>2. n - x \in Nat /\ n - (n - x) = x
      BY <2>1
    <2> QED BY <2>2
  <1>2. T \in SUBSET Nat /\ T # {}
    BY <1>1
  <1>3. PICK m \in T : \A y \in T : m <= y
    <2> HIDE DEF T
    <2> QED BY <1>2, LeastElement
  <1>4. n - m \in S /\ \A x \in S : n - m >= x
    <2>1. ASSUME NEW x \in S PROVE n - m >= x
      <3>1. m <= n - x /\ m \in Nat /\ x \in 0..n
        BY <1>1, <1>3
      <3> QED BY <3>1
    <2> QED BY <1>3, <2>1
  <1>5. \E y \in S : \A x \in S : y >= x
    BY <1>4
  <1> QED BY <1>5 DEF Max

LEMMA CommonPrefixProperties ==
    ASSUME NEW h \in Seq(Tokens), NEW k \in Seq(Tokens)
    PROVE  /\ CommonPrefix(h, k) \in 0..Len(h)
           /\ CommonPrefix(h, k) <= Len(k)
           /\ SubSeq(h, 1, CommonPrefix(h, k)) = SubSeq(k, 1, CommonPrefix(h, k))
  <1> DEFINE S == {n \in 0..Len(h) : n <= Len(k) /\ SubSeq(h, 1, n) = SubSeq(k, 1, n)}
  <1>1. Len(h) \in Nat /\ Len(k) \in Nat
    BY LenProperties
  <1>2. 0 \in S
    BY <1>1, SubSeqEmpty
  <1>3. Max(S) \in S
    BY <1>1, <1>2, BoundedSetHasMax
  <1> QED BY <1>3 DEF CommonPrefix

----------------------------------------------------------------------------
(* Reading the file back.                                                  *)
LEMMA FewerCells ==
    ASSUME NEW m \in Nat, NEW n \in Nat, m <= n, NEW rs, Len(cells) \in Nat, Holds(rs, n)
    PROVE  Holds(rs, m)
  BY DEF Holds

LEMMA CellsShared ==
    ASSUME NEW n \in Nat, NEW rs, NEW rt, W \in Nat \ {0},
           \A p \in 1..n : rs[p] = rt[p], Holds(rs, n * W)
    PROVE  Holds(rt, n * W)
  <1>1. ASSUME NEW i \in 0..(n * W - 1)
        PROVE  CellOf(rs, i) = CellOf(rt, i)
    <2>1. (i \div W) + 1 \in 1..n
      BY RecordOfACell
    <2> QED BY <2>1 DEF CellOf
  <1> QED BY <1>1 DEF Holds

LEMMA RecordIsIntact ==
    ASSUME NEW n \in Nat, NEW rs, Typed, Holds(rs, n * W), NEW p \in 1..n
    PROVE  Intact(layout, p) /\ ReadRow(layout, p) = rs[p]
  <1>1. W \in Nat \ {0} /\ Len(cells) \in Nat
    BY KvPersistAssumption, LenProperties DEF KvPersistAssumption, Typed, W
  <1>2. ASSUME NEW k \in 0..(W - 1)
        PROVE  /\ cells[(p - 1) * W + 1 + k] = Cell(layout, rs[p], k)
               /\ (p - 1) * W + k \in 0..(n * W - 1)
    <2>1. (p - 1) * W + k \in 0..(n * W - 1)
      BY <1>1
    <2>2. ((p - 1) * W + k) \div W = p - 1 /\ ((p - 1) * W + k) % W = k
      <3>1. p - 1 \in Nat
        OBVIOUS
      <3> QED BY <1>1, <3>1, CellsOfARecord
    <2>3. cells[((p - 1) * W + k) + 1] = CellOf(rs, (p - 1) * W + k)
      BY <2>1 DEF Holds
    <2>4. CellOf(rs, (p - 1) * W + k) = Cell(layout, rs[p], k)
      BY <2>2 DEF CellOf
    <2>5. ((p - 1) * W + k) + 1 = (p - 1) * W + 1 + k
      BY <1>1
    <2> QED BY <2>1, <2>3, <2>4, <2>5
  <1>3. (p - 1) * W + 1 + W - 1 <= Len(cells)
    BY <1>1 DEF Holds
  <1>4. cells[(p - 1) * W + 1] = Cell(layout, rs[p], 0)
    BY <1>1, <1>2
  <1>5. Intact(layout, p)
    <2>1. ASSUME NEW k \in 0..(W - 1)
          PROVE  /\ cells[(p - 1) * W + 1 + k].layout = layout
                 /\ cells[(p - 1) * W + 1 + k].row = cells[(p - 1) * W + 1].row
                 /\ cells[(p - 1) * W + 1 + k].part = k
      <3>1. cells[(p - 1) * W + 1 + k] = Cell(layout, rs[p], k)
        BY <1>2
      <3>2. /\ Cell(layout, rs[p], k).layout = layout
            /\ Cell(layout, rs[p], k).row = rs[p]
            /\ Cell(layout, rs[p], k).part = k
            /\ Cell(layout, rs[p], 0).row = rs[p]
        BY DEF Cell
      <3> QED BY <1>4, <3>1, <3>2
    <2> QED BY <1>3, <2>1 DEF Intact, W
  <1>6. ReadRow(layout, p) = cells[(p - 1) * W + 1].row
    BY <1>5 DEF ReadRow, W
  <1> QED BY <1>4, <1>5, <1>6 DEF Cell

LEMMA LoadedRows ==
    ASSUME Typed, Loadable, NEW h \in Seq(Tokens), Len(h) = nrec, Holds(RowsOf(h), nrec * W)
    PROVE  Load(layout, ctx) = RowsOf(h)
  <1>1. W \in Nat \ {0} /\ Len(cells) \in Nat /\ nrec \in Nat
    BY KvPersistAssumption, LenProperties DEF KvPersistAssumption, Typed, W
  <1>2. nrec * W <= Len(cells)
    BY DEF Holds
  <1>3. Readable(layout) = nrec
    <2>1. nrec * Width[layout] <= Len(cells)
      BY <1>2 DEF W
    <2>2. ASSUME NEW n \in 0..nrec, n # nrec, (n + 1) * Width[layout] > Len(cells)
          PROVE  FALSE
      <3>1. n + 1 <= nrec /\ n + 1 \in Nat
        BY <1>1, <2>2
      <3>2. (n + 1) * W <= nrec * W /\ (n + 1) * W \in Nat /\ nrec * W \in Nat
        BY <1>1, <3>1, MoreRecords
      <3> QED BY <1>1, <1>2, <2>2, <3>2 DEF W
    <2>3. nrec \in 0..nrec
      BY <1>1
    <2> QED BY <2>1, <2>2, <2>3 DEF Readable
  <1>4. \A p \in 1..nrec : ReadRow(layout, p) = RowsOf(h)[p]
    BY <1>1, RecordIsIntact
  <1>5. Load(layout, ctx) = [p \in 1..nrec |-> ReadRow(layout, p)]
    BY <1>3 DEF Loadable, Load
  <1>6. RowsOf(h) = [p \in 1..nrec |-> RowsOf(h)[p]]
    BY DEF RowsOf
  <1> QED BY <1>4, <1>5, <1>6

LEMMA NothingLoaded ==
    ASSUME ~Loadable
    PROVE  Load(layout, ctx) = <<>>
  BY DEF Loadable, Load

----------------------------------------------------------------------------
LEMMA Facts ==
    ASSUME Typed
    PROVE  /\ W \in Nat \ {0}
           /\ ctx \in Nat /\ Margin \in Nat /\ Margin >= 1
           /\ Len(rows) \in Nat /\ Len(cells) \in Nat /\ Len(prompt) \in Nat
           /\ Len(Hist(rows)) = Len(rows)
           /\ NoHeader # layout
  <1>1. W \in Nat \ {0} /\ ctx \in Nat /\ Margin \in Nat /\ Margin >= 1 /\ NoHeader # layout
    BY KvPersistAssumption DEF KvPersistAssumption, Typed, W
  <1>2. Len(rows) \in Nat /\ Len(cells) \in Nat /\ Len(prompt) \in Nat
    BY LenProperties DEF Typed
  <1>3. Len(Hist(rows)) = Len(rows)
    BY RowsOfProperties DEF Typed
  <1> QED BY <1>1, <1>2, <1>3

\* The longest prefix of a memory that is rows of a conversation is rows too.
LEMMA KeptRows ==
    ASSUME Typed, NEW n \in 0..Len(rows)
    PROVE  /\ SubSeq(rows, 1, n) = RowsOf(SubSeq(Hist(rows), 1, n))
           /\ SubSeq(rows, 1, n) \in Seq(Seq(Tokens)) /\ Len(SubSeq(rows, 1, n)) = n
           /\ Hist(SubSeq(rows, 1, n)) = SubSeq(Hist(rows), 1, n)
           /\ SubSeq(Hist(rows), 1, n) \in Seq(Tokens)
           /\ \A p \in 1..n : SubSeq(rows, 1, n)[p] = rows[p]
  <1>1. Hist(rows) \in Seq(Tokens) /\ rows = RowsOf(Hist(rows)) /\ Len(Hist(rows)) = Len(rows)
    BY Facts DEF Typed
  <1>2. SubSeq(rows, 1, n) = RowsOf(SubSeq(Hist(rows), 1, n))
    BY <1>1, RowsOfPrefix
  <1>3. SubSeq(Hist(rows), 1, n) \in Seq(Tokens)
    BY <1>1, SubSeqProperties
  <1>4. Hist(SubSeq(rows, 1, n)) = SubSeq(Hist(rows), 1, n)
    BY <1>2, <1>3, RowsOfProperties
  <1>5. /\ SubSeq(rows, 1, n) \in Seq(Seq(Tokens)) /\ Len(SubSeq(rows, 1, n)) = n
        /\ \A p \in 1..n : SubSeq(rows, 1, n)[p] = rows[p]
    BY SubSeqProperties, Facts DEF Typed
  <1> QED BY <1>2, <1>3, <1>4, <1>5

LEMMA InitInv == Init => Inv
  <1> SUFFICES ASSUME Init PROVE Inv
    OBVIOUS
  <1>1. <<>> \in Seq(Tokens) /\ RowsOf(<<>>) = <<>> /\ Hist(<<>>) = <<>>
    BY EmptySeq DEF RowsOf, Hist
  <1>2. W \in Nat \ {0} /\ Len(cells) = 0 /\ NoHeader # layout
    BY KvPersistAssumption, EmptySeq DEF KvPersistAssumption, Init, W
  <1>3. Typed
    BY <1>1, <1>2, EmptySeq DEF Init, Typed
  <1>4. FileIsWhole /\ Made /\ Synced
    BY <1>2 DEF Init, FileIsWhole, Loadable, Made, Synced
  <1> QED BY <1>3, <1>4 DEF Inv

----------------------------------------------------------------------------
(* The steps of a process that leave the file alone.                       *)
LEMMA FileKept ==
    ASSUME Inv, UNCHANGED <<file, layout, ctx>>
    PROVE  FileIsWhole' /\ W' = W /\ Loadable' = Loadable
  BY DEF Inv, FileIsWhole, Loadable, Holds, CellOf, W, file

\* A process starts: what it loads is one conversation, and all of the file.
LEMMA StartInv ==
    ASSUME Inv, OneProcess, NEW l \in Layouts, NEW k \in Contexts, Start(l, k)
    PROVE  Inv'
  <1> USE DEF Start, file, counts
  <1>1. l = layout /\ k = ctx /\ Typed
    BY DEF Inv, OneProcess, Typed
  <1>2. UNCHANGED <<file, layout, ctx>> /\ pc' = "ready" /\ rows' = Load(layout, ctx)
    BY <1>1
  <1>3. FileIsWhole' /\ W' = W /\ Loadable' = Loadable
    BY <1>2, FileKept
  <1>4. CASE Loadable
    <2>1. PICK h \in Seq(Tokens) : Len(h) = nrec /\ Holds(RowsOf(h), nrec * W)
      BY <1>4 DEF Inv, FileIsWhole
    <2>2. rows' = RowsOf(h) /\ diskNrec' = nrec /\ Len(rows') = nrec /\ Hist(rows') = h
           /\ rows' \in Seq(Seq(Tokens)) /\ nrec \in Nat
      BY <1>1, <1>2, <1>4, <2>1, LoadedRows, RowsOfProperties DEF Typed
    <2>3. nrec <= ctx - 2
      BY <1>1, <1>4, Facts DEF Typed, Loadable
    <2>4. Typed'
      BY <1>1, <1>2, <2>1, <2>2, <2>3, EmptySeq DEF Typed
    <2>5. Made'
      BY <1>2, <1>4 DEF Inv, Made, Loadable
    <2>6. Holds(rows, diskNrec * W)'
      BY <1>2, <1>3, <2>1, <2>2 DEF Holds, CellOf
    <2>7. Synced'
      BY <1>2, <2>2, <2>6 DEF Synced
    <2> QED BY <1>3, <2>4, <2>5, <2>7 DEF Inv
  <1>5. CASE ~Loadable
    <2>1. rows' = <<>> /\ diskNrec' = 0 /\ Len(rows') = 0
      BY <1>1, <1>2, <1>5, NothingLoaded, EmptySeq
    <2>2. /\ <<>> \in Seq(Tokens) /\ <<>> \in Seq(Seq(Tokens))
          /\ RowsOf(<<>>) = <<>> /\ Hist(<<>>) = <<>>
      BY EmptySeq DEF RowsOf, Hist
    <2>3. Typed'
      <3>1. rows' \in Seq(Seq(Tokens)) /\ rows' = RowsOf(Hist(rows')) /\ Hist(rows') \in Seq(Tokens)
        BY <2>1, <2>2
      <3>2. prompt' \in Seq(Tokens) /\ diskNrec' \in Nat /\ at' \in Nat
        BY <2>1, <2>2
      <3> QED BY <1>1, <1>2, <2>1, <3>1, <3>2 DEF Typed
    <2>4. Made'
      BY <1>2, <2>1 DEF Inv, Made
    <2>5. Holds(rows, diskNrec * W)'
      BY <1>1, <1>2, <1>3, <2>1, Facts DEF Holds
    <2>6. Synced'
      BY <1>2, <1>3, <1>5, <2>1, <2>5 DEF Synced
    <2> QED BY <1>3, <2>3, <2>4, <2>6 DEF Inv
  <1> QED BY <1>4, <1>5

\* mux_submit keeps the rows of the common prefix.
LEMMA SubmitInv ==
    ASSUME Inv, NEW p \in Histories(ctx), Submit(p)
    PROVE  Inv'
  <1>1. /\ Typed /\ UNCHANGED <<file, layout, ctx, diskNrec, at>>
        /\ pc = "ready" /\ prompt' = p /\ Len(p) <= ctx - 2
    BY DEF Inv, Submit
  <1>2. /\ p \in Seq(Tokens) /\ Hist(rows) \in Seq(Tokens)
        /\ Len(Hist(rows)) = Len(rows) /\ Len(rows) \in Nat /\ Len(p) \in Nat
    <2>1. PICK n \in 0..ctx : p \in [1..n -> Tokens]
      BY DEF Histories
    <2>2. p \in Seq(Tokens) /\ Len(p) \in Nat
      BY <1>1, <2>1, Facts
    <2> QED BY <1>1, <2>2, Facts DEF Typed
  <1>3. PICK keep \in 0..Len(rows) :
          /\ keep <= Len(p) /\ SubSeq(Hist(rows), 1, keep) = SubSeq(p, 1, keep)
          /\ rows' = SubSeq(rows, 1, keep)
          /\ pc' = IF keep < Len(rows) THEN "truncate" ELSE "prefill"
    BY <1>2, CommonPrefixProperties DEF Submit
  <1>4. FileIsWhole' /\ W' = W /\ Loadable' = Loadable
    BY <1>1, FileKept
  <1>5. /\ rows' = RowsOf(SubSeq(Hist(rows), 1, keep))
        /\ rows' \in Seq(Seq(Tokens)) /\ Len(rows') = keep
        /\ Hist(rows') = SubSeq(Hist(rows), 1, keep) /\ Hist(rows') \in Seq(Tokens)
        /\ \A i \in 1..keep : rows'[i] = rows[i]
    BY <1>1, <1>3, KeptRows
  <1>6. Typed'
    <2>1. rows' # <<>> => Len(rows') <= ctx - 2
      BY <1>1, <1>2, <1>3, <1>5, Facts
    <2> QED BY <1>1, <1>2, <1>3, <1>5, <2>1 DEF Typed, file
  <1>7. Made'
    BY <1>1, <1>3 DEF Inv, Made, file
  <1>8. diskNrec = Len(rows) /\ (nrec = diskNrec \/ (diskNrec = 0 /\ ~Loadable))
        /\ Holds(rows, diskNrec * W)
    BY <1>1 DEF Inv, Synced
  <1>9. Holds(rows, keep * W)'
    <2>1. keep * W <= diskNrec * W /\ keep * W \in Nat /\ diskNrec * W \in Nat
      BY <1>1, <1>2, <1>3, <1>8, Facts, MoreRecords
    <2>2. Holds(rows, keep * W)
      BY <1>1, <1>8, <2>1, FewerCells, Facts
    <2>3. PICK rs : rs = rows'
      OBVIOUS
    <2>4. \A i \in 1..keep : rows[i] = rs[i]
      BY <1>5, <2>3
    <2>5. Holds(rs, keep * W)
      <3>1. keep \in Nat /\ W \in Nat \ {0}
        BY <1>1, Facts
      <3> QED BY <2>2, <2>4, <3>1, CellsShared
    <2> QED BY <1>1, <2>3, <2>5 DEF Holds, CellOf, W, file
  <1>10. Synced'
    BY <1>1, <1>2, <1>3, <1>4, <1>5, <1>8, <1>9 DEF Synced, file
  <1> QED BY <1>4, <1>6, <1>7, <1>10 DEF Inv

\* kv_disk_truncate lowers the count of the file and that of the memory.
LEMMA TruncateInv ==
    ASSUME Inv, Truncate
    PROVE  Inv'
  <1>1. /\ Typed /\ UNCHANGED <<exists, header, cells, layout, ctx, rows, prompt, at>>
        /\ pc = "truncate" /\ pc' = "prefill"
    BY DEF Inv, Truncate
  <1>2. /\ Len(rows) < diskNrec /\ Holds(rows, Len(rows) * W)
        /\ Len(rows) \in Nat /\ diskNrec \in Nat
    BY <1>1, Facts DEF Inv, Synced, Typed
  <1>3. exists /\ diskNrec' = Len(rows) /\ nrec' = Len(rows)
    BY <1>1, <1>2 DEF Inv, Made, Truncate
  <1>4. Typed' /\ Made'
    BY <1>1, <1>2, <1>3 DEF Inv, Typed, Made
  <1>5. Holds(rows, Len(rows) * W)'
    BY <1>1, <1>2 DEF Holds, CellOf, W
  <1>6. FileIsWhole'
    <2>1. Hist(rows) \in Seq(Tokens) /\ rows = RowsOf(Hist(rows)) /\ Len(Hist(rows)) = Len(rows)
      BY <1>1, Facts DEF Typed
    <2> QED BY <1>1, <1>3, <1>5, <2>1 DEF FileIsWhole
  <1>7. Synced'
    BY <1>1, <1>2, <1>3, <1>5 DEF Inv, Synced
  <1> QED BY <1>4, <1>6, <1>7 DEF Inv

\* The rows an append has to keep are kept when the memory grows at its end.
LEMMA GrownRows ==
    ASSUME Inv, UNCHANGED <<file, layout, ctx, diskNrec, prompt, at>>,
           NEW h \in Seq(Tokens), rows' = RowsOf(h), Len(rows) <= Len(h), Len(h) <= ctx - 2,
           \A i \in 1..Len(rows) : rows'[i] = rows[i],
           pc \in {"prefill", "decode"}, pc' = "decode"
    PROVE  Inv'
  <1>1. Typed /\ Len(rows) \in Nat /\ diskNrec \in Nat /\ W \in Nat \ {0}
    BY Facts DEF Inv, Typed
  <1>2. FileIsWhole' /\ W' = W /\ Loadable' = Loadable
    BY FileKept
  <1>3. rows' \in Seq(Seq(Tokens)) /\ Len(rows') = Len(h) /\ Hist(rows') = h /\ Len(h) \in Nat
    BY RowsOfProperties, LenProperties
  <1>4. Typed'
    BY <1>1, <1>3 DEF Typed, file
  <1>5. Made'
    BY DEF Inv, Made, file
  <1>6. diskNrec <= Len(rows) /\ Holds(rows, diskNrec * W)
        /\ (nrec = diskNrec \/ (diskNrec = 0 /\ ~Loadable))
    BY DEF Inv, Synced
  <1>7. Holds(rows, diskNrec * W)'
    <2>1. PICK rs : rs = rows'
      OBVIOUS
    <2>2. Holds(rs, diskNrec * W)
      BY <1>1, <1>6, <2>1, CellsShared
    <2> QED BY <2>1, <2>2 DEF Holds, CellOf, W, file
  <1>8. Synced'
    BY <1>1, <1>2, <1>3, <1>6, <1>7 DEF Synced, file
  <1> QED BY <1>2, <1>4, <1>5, <1>8 DEF Inv

\* The rest of the prompt is computed on top of what was kept.
LEMMA PrefillInv ==
    ASSUME Inv, Prefill
    PROVE  Inv'
  <1>1. /\ Typed /\ UNCHANGED <<file, layout, ctx, diskNrec, prompt, at>>
        /\ pc = "prefill" /\ pc' = "decode"
    BY DEF Inv, Prefill
  <1>2. /\ prompt \in Seq(Tokens) /\ Len(prompt) \in Nat /\ Len(rows) \in 0..Len(prompt)
        /\ Len(prompt) <= ctx - 2 /\ Hist(rows) = SubSeq(prompt, 1, Len(rows))
        /\ rows = RowsOf(SubSeq(prompt, 1, Len(rows)))
    <2>1. Len(prompt) \in Nat /\ Len(rows) \in Nat
      BY <1>1, Facts
    <2>2. /\ Len(rows) <= Len(prompt) /\ Len(prompt) <= ctx - 2
          /\ Hist(rows) = SubSeq(prompt, 1, Len(rows))
      BY <1>1 DEF Inv, Synced
    <2>3. prompt \in Seq(Tokens) /\ rows = RowsOf(Hist(rows))
      BY <1>1 DEF Typed
    <2>4. rows = RowsOf(SubSeq(prompt, 1, Len(rows)))
      BY <2>2, <2>3
    <2> QED BY <2>1, <2>2, <2>3, <2>4
  <1>3. rows' = RowsOf(prompt)
    BY <1>2, RowsOfTheRest DEF Prefill
  <1>4. \A i \in 1..Len(rows) : rows'[i] = rows[i]
    <2>1. SubSeq(RowsOf(prompt), 1, Len(rows)) = rows
      BY <1>2, RowsOfPrefix
    <2>2. RowsOf(prompt) \in Seq(Seq(Tokens)) /\ Len(RowsOf(prompt)) = Len(prompt)
      BY <1>2, RowsOfProperties
    <2>3. \A i \in 1..Len(rows) : SubSeq(RowsOf(prompt), 1, Len(rows))[i] = RowsOf(prompt)[i]
      BY <1>2, <2>2, SubSeqProperties
    <2> QED BY <1>3, <2>1, <2>3
  <1> QED BY <1>1, <1>2, <1>3, <1>4, GrownRows

\* One more token is computed.
LEMMA DecodeInv ==
    ASSUME Inv, NEW t \in Tokens, Decode(t)
    PROVE  Inv'
  <1>1. /\ Typed /\ UNCHANGED <<file, layout, ctx, diskNrec, prompt, at>>
        /\ pc = "decode" /\ pc' = "decode" /\ Len(rows) < ctx - 2
    BY DEF Inv, Decode
  <1>2. PICK h \in Seq(Tokens) :
          /\ h = Append(Hist(rows), t) /\ Len(h) = Len(rows) + 1
          /\ Len(rows) \in Nat /\ ctx \in Nat
    BY <1>1, Facts, AppendProperties DEF Typed
  <1>3. rows' = RowsOf(h)
    BY <1>1, <1>2, RowsOfAppend DEF Typed, Decode
  <1>4. \A i \in 1..Len(rows) : rows'[i] = rows[i]
    BY <1>1, <1>2, AppendProperties DEF Typed, Decode
  <1>5. Len(rows) <= Len(h) /\ Len(h) <= ctx - 2
    BY <1>1, <1>2
  <1> QED BY <1>1, <1>3, <1>4, <1>5, GrownRows

----------------------------------------------------------------------------
(* kv_disk_append.                                                         *)
LEMMA FinishInv ==
    ASSUME Inv, Finish
    PROVE  Inv'
  <1>1. /\ Typed /\ UNCHANGED <<file, layout, ctx, rows, diskNrec, prompt>>
        /\ pc = "decode" /\ at' = diskNrec * W
        /\ pc' = IF Len(rows) <= diskNrec THEN "ready" ELSE IF exists THEN "rows" ELSE "create"
    BY DEF Inv, Finish, W
  <1>2. /\ Len(rows) \in Nat /\ diskNrec \in Nat /\ diskNrec * W \in Nat
        /\ diskNrec <= Len(rows) /\ diskNrec * W <= Len(rows) * W
        /\ Holds(rows, diskNrec * W) /\ (nrec = diskNrec \/ (diskNrec = 0 /\ ~Loadable))
    <2>1. diskNrec <= Len(rows) /\ Holds(rows, diskNrec * W)
           /\ (nrec = diskNrec \/ (diskNrec = 0 /\ ~Loadable))
      BY <1>1 DEF Inv, Synced
    <2>2. W \in Nat \ {0} /\ Len(rows) \in Nat /\ diskNrec \in Nat
      BY <1>1, Facts DEF Typed
    <2> QED BY <2>1, <2>2, MoreRecords
  <1>3. FileIsWhole' /\ W' = W /\ Loadable' = Loadable
    BY <1>1, FileKept
  <1>4. Typed'
    BY <1>1, <1>2 DEF Typed, file
  <1>5. Made'
    BY <1>1 DEF Inv, Made, file
  <1>6. Holds(rows, diskNrec * W)' /\ Holds(rows, at)'
    BY <1>1, <1>2, <1>3 DEF Holds, CellOf, W, file
  <1>7. Synced'
    BY <1>1, <1>2, <1>3, <1>6 DEF Synced, file
  <1> QED BY <1>3, <1>4, <1>5, <1>7 DEF Inv

\* fopen makes a file without a header, which nobody loads.
LEMMA CreateFileInv ==
    ASSUME Inv, CreateFile
    PROVE  Inv'
  <1>1. /\ Typed /\ UNCHANGED <<header, nrec, cells, layout, ctx, rows, diskNrec, prompt, at>>
        /\ pc = "create" /\ pc' = "create_header" /\ exists' = TRUE
    BY DEF Inv, CreateFile, process
  <1>2. header = NoHeader /\ diskNrec = 0
    BY <1>1 DEF Inv, Made, Typed
  <1>3. ~Loadable'
    BY <1>1, <1>2, Facts DEF Loadable
  <1>4. Typed' /\ Made'
    BY <1>1, <1>2 DEF Typed, Made
  <1>5. FileIsWhole'
    BY <1>3 DEF FileIsWhole
  <1>6. Synced'
    BY <1>1, <1>2, <1>3 DEF Inv, Synced, Holds, CellOf, W
  <1> QED BY <1>4, <1>5, <1>6 DEF Inv

\* The header of a file that was just made counts no record.
LEMMA CreateHeaderInv ==
    ASSUME Inv, CreateHeader
    PROVE  Inv'
  <1>1. /\ Typed /\ UNCHANGED <<exists, cells, layout, ctx, rows, diskNrec, prompt, at>>
        /\ pc = "create_header" /\ pc' = "rows" /\ header' = layout /\ nrec' = 0
    BY DEF Inv, CreateHeader, process
  <1>2. exists /\ diskNrec = 0
    BY <1>1 DEF Inv, Made
  <1>3. ~Loadable'
    BY <1>1 DEF Loadable
  <1>4. Typed' /\ Made'
    BY <1>1, <1>2 DEF Typed, Made
  <1>5. FileIsWhole'
    BY <1>3 DEF FileIsWhole
  <1>6. Synced'
    BY <1>1, <1>2, <1>3 DEF Inv, Synced, Holds, CellOf, W
  <1> QED BY <1>4, <1>5, <1>6 DEF Inv

\* One more cell: it is beyond the records that the header counts.
LEMMA WriteCellInv ==
    ASSUME Inv, WriteCell
    PROVE  Inv'
  <1>1. /\ Typed /\ pc = "rows" /\ at < Len(rows) * W /\ at' = at + 1
        /\ UNCHANGED <<exists, header, nrec, pc, layout, ctx, rows, diskNrec, prompt>>
        /\ cells' = IF at < Len(cells) THEN [cells EXCEPT ![at + 1] = CellOf(rows, at)]
                    ELSE Append(cells, CellOf(rows, at))
    BY DEF Inv, WriteCell, CellOf, W
  <1>2. /\ W \in Nat \ {0} /\ Len(rows) \in Nat /\ Len(cells) \in Nat /\ at \in Nat
        /\ diskNrec \in Nat /\ diskNrec * W \in Nat /\ Len(rows) * W \in Nat
    <2>1. /\ W \in Nat \ {0} /\ Len(rows) \in Nat /\ Len(cells) \in Nat
          /\ at \in Nat /\ diskNrec \in Nat
      BY <1>1, Facts DEF Typed
    <2> QED BY <2>1, MoreRecords
  <1>3. /\ diskNrec * W <= at /\ Holds(rows, at) /\ at <= Len(cells)
        /\ diskNrec <= Len(rows) /\ (nrec = diskNrec \/ (diskNrec = 0 /\ ~Loadable))
    BY <1>1 DEF Inv, Synced, Holds
  <1>4. CellOf(rows, at) \in [layout : Layouts, row : Seq(Tokens), part : Nat]
    <2>1. at \div W \in 0..(Len(rows) - 1) /\ at % W \in 0..(W - 1)
      <3>1. at \in 0..(Len(rows) * W - 1)
        BY <1>1, <1>2
      <3> QED BY <1>2, <3>1, RecordOfACell
    <2>2. rows[(at \div W) + 1] \in Seq(Tokens)
      <3>1. (at \div W) + 1 \in 1..Len(rows)
        BY <1>2, <2>1
      <3> QED BY <1>1, <3>1, ElementOfSeq DEF Typed
    <2> QED BY <1>1, <1>2, <2>1, <2>2 DEF CellOf, Cell, Typed
  <1>5. /\ cells' \in Seq([layout : Layouts, row : Seq(Tokens), part : Nat])
        /\ Len(cells') >= at + 1
        /\ \A i \in 0..(at - 1) : cells'[i + 1] = cells[i + 1]
        /\ cells'[at + 1] = CellOf(rows, at)
    <2>1. cells \in Seq([layout : Layouts, row : Seq(Tokens), part : Nat])
      BY <1>1 DEF Typed
    <2>2. PICK cell \in [layout : Layouts, row : Seq(Tokens), part : Nat] :
            /\ cell = CellOf(rows, at)
            /\ cells' = IF at < Len(cells) THEN [cells EXCEPT ![at + 1] = cell]
                        ELSE Append(cells, cell)
      BY <1>1, <1>4
    <2>3. CASE at < Len(cells)
      <3>1. at + 1 \in 1..Len(cells)
        BY <1>2, <2>3
      <3>2. cells' = [cells EXCEPT ![at + 1] = cell]
        BY <2>2, <2>3
      <3>3. \A i \in 0..(at - 1) : i + 1 \in 1..Len(cells) /\ i + 1 # at + 1
        BY <1>2, <2>3
      <3>4. /\ cells' \in Seq([layout : Layouts, row : Seq(Tokens), part : Nat])
            /\ Len(cells') = Len(cells)
            /\ \A j \in 1..Len(cells) : cells'[j] = IF j = at + 1 THEN cell ELSE cells[j]
        BY <2>1, <3>1, <3>2, ExceptSeq
      <3> QED BY <1>2, <2>2, <2>3, <3>1, <3>3, <3>4
    <2>4. CASE ~(at < Len(cells))
      <3>1. at = Len(cells) /\ cells' = Append(cells, cell)
        BY <1>2, <1>3, <2>2, <2>4
      <3>2. \A i \in 0..(at - 1) : i + 1 \in 1..Len(cells)
        BY <1>2, <3>1
      <3>3. /\ cells' \in Seq([layout : Layouts, row : Seq(Tokens), part : Nat])
            /\ Len(cells') = Len(cells) + 1 /\ cells'[Len(cells) + 1] = cell
            /\ \A j \in 1..Len(cells) : cells'[j] = cells[j]
        BY <2>1, <3>1, AppendProperties
      <3> QED BY <1>2, <2>2, <3>1, <3>2, <3>3
    <2> QED BY <2>3, <2>4
  <1>6. Holds(rows, at)' /\ W' = W /\ Loadable' = Loadable
    <2>1. ASSUME NEW i \in 0..at
          PROVE  cells'[i + 1] = CellOf(rows, i)
      <3>1. CASE i = at
        BY <1>5, <3>1
      <3>2. CASE i # at
        <4>1. i \in 0..(at - 1)
          BY <1>2, <3>2
        <4> QED BY <1>3, <1>5, <4>1 DEF Holds
      <3> QED BY <3>1, <3>2
    <2>2. Len(cells') \in Nat
      BY <1>5, LenProperties
    <2>3. W' = W /\ Loadable' = Loadable
      BY <1>1 DEF W, Loadable
    <2>4. \A i \in 0..at : CellOf(rows, i)' = CellOf(rows, i)
      BY <1>1, <2>3 DEF CellOf
    <2>5. at' - 1 = at /\ at' <= Len(cells')
      BY <1>1, <1>2, <1>5, <2>2
    <2>6. \A i \in 0..(at' - 1) : cells'[i + 1] = CellOf(rows, i)'
      BY <2>1, <2>4, <2>5
    <2> QED BY <2>3, <2>5, <2>6 DEF Holds
  <1>7. ASSUME NEW rs, Holds(rs, diskNrec * W)
        PROVE  Holds(rs, diskNrec * W)'
    <2>1. Len(cells') \in Nat /\ diskNrec * W <= Len(cells')
      BY <1>2, <1>3, <1>5, LenProperties
    <2>2. \A i \in 0..(diskNrec * W - 1) : cells'[i + 1] = cells[i + 1]
      <3>1. ASSUME NEW i \in 0..(diskNrec * W - 1)
            PROVE  i \in 0..(at - 1)
        BY <1>2, <1>3
      <3> QED BY <1>5, <3>1
    <2> QED BY <1>1, <1>7, <2>1, <2>2 DEF Holds, CellOf, W
  <1>8. FileIsWhole'
    <2>1. CASE Loadable
      <3>1. nrec = diskNrec /\ \E h \in Seq(Tokens) : Len(h) = nrec /\ Holds(RowsOf(h), nrec * W)
        BY <1>3, <2>1 DEF Inv, FileIsWhole
      <3>2. PICK h \in Seq(Tokens) : Len(h) = nrec /\ Holds(RowsOf(h), diskNrec * W)
        BY <3>1
      <3>3. Holds(RowsOf(h), diskNrec * W)'
        BY <1>7, <3>2
      <3> QED BY <1>1, <3>1, <3>2, <3>3 DEF FileIsWhole
    <2> QED BY <1>6, <2>1 DEF FileIsWhole
  <1>9. Holds(rows, diskNrec * W)'
    <2>1. Holds(rows, diskNrec * W)
      BY <1>2, <1>3, FewerCells
    <2>2. PICK rs : rs = rows
      OBVIOUS
    <2> QED BY <1>1, <1>7, <2>1, <2>2
  <1>10. Typed'
    BY <1>1, <1>2, <1>5 DEF Typed
  <1>11. Made'
    BY <1>1 DEF Inv, Made
  <1>12. Synced'
    BY <1>1, <1>2, <1>3, <1>6, <1>9 DEF Synced
  <1> QED BY <1>8, <1>10, <1>11, <1>12 DEF Inv

\* The count follows the last row.
LEMMA WriteNrecInv ==
    ASSUME Inv, WriteNrec
    PROVE  Inv'
  <1>1. /\ Typed /\ UNCHANGED <<exists, header, cells, layout, ctx, rows, prompt, at>>
        /\ pc = "rows" /\ pc' = "ready" /\ at = Len(rows) * W
        /\ nrec' = Len(rows) /\ diskNrec' = Len(rows)
    BY DEF Inv, WriteNrec, W
  <1>2. exists /\ Holds(rows, Len(rows) * W) /\ Len(rows) \in Nat
    BY <1>1, Facts DEF Inv, Made, Synced
  <1>3. Typed' /\ Made'
    BY <1>1, <1>2 DEF Inv, Typed, Made
  <1>4. Holds(rows, Len(rows) * W)'
    BY <1>1, <1>2 DEF Holds, CellOf, W
  <1>5. FileIsWhole'
    <2>1. Hist(rows) \in Seq(Tokens) /\ rows = RowsOf(Hist(rows)) /\ Len(Hist(rows)) = Len(rows)
      BY <1>1, Facts DEF Typed
    <2> QED BY <1>1, <1>4, <2>1 DEF FileIsWhole
  <1>6. Synced'
    BY <1>1, <1>2, <1>4 DEF Synced
  <1> QED BY <1>3, <1>5, <1>6 DEF Inv

\* A crash leaves the file as it is.
LEMMA CrashInv ==
    ASSUME Inv, Crash
    PROVE  Inv'
  <1>1. UNCHANGED <<file, process>> /\ pc' = "down"
    BY DEF Crash
  <1>2. FileIsWhole'
    BY <1>1, FileKept DEF process
  <1>3. Typed' /\ Made' /\ Synced'
    BY <1>1 DEF Inv, Typed, Made, Synced, file, process
  <1> QED BY <1>2, <1>3 DEF Inv

LEMMA NextInv ==
    ASSUME Inv, OneProcess, [Next]_vars
    PROVE  Inv'
  <1>1. CASE \E l \in Layouts, c \in Contexts : Start(l, c)
    BY <1>1, StartInv
  <1>2. CASE pc = "ready" /\ turns < MaxTurns /\ \E p \in Histories(ctx) : Submit(p)
    BY <1>2, SubmitInv
  <1>3. CASE Truncate
    BY <1>3, TruncateInv
  <1>4. CASE Prefill
    BY <1>4, PrefillInv
  <1>5. CASE Finish
    BY <1>5, FinishInv
  <1>6. CASE CreateFile
    BY <1>6, CreateFileInv
  <1>7. CASE CreateHeader
    BY <1>7, CreateHeaderInv
  <1>8. CASE \E t \in Tokens : Decode(t)
    BY <1>8, DecodeInv
  <1>9. CASE WriteCell
    BY <1>9, WriteCellInv
  <1>10. CASE WriteNrec
    BY <1>10, WriteNrecInv
  <1>11. CASE Crash
    BY <1>11, CrashInv
  <1>12. CASE UNCHANGED vars
    <2>1. UNCHANGED <<file, process, pc>>
      BY <1>12 DEF vars
    <2>2. FileIsWhole'
      BY <2>1, FileKept DEF process
    <2>3. Typed' /\ Made' /\ Synced'
      BY <2>1 DEF Inv, Typed, Made, Synced, Holds, CellOf, W, Loadable, file, process
    <2> QED BY <2>2, <2>3 DEF Inv
  <1> QED BY <1>1, <1>2, <1>3, <1>4, <1>5, <1>6, <1>7, <1>8, <1>9, <1>10, <1>11, <1>12 DEF Next

LEMMA Invariance ==
    ASSUME OneProcess
    PROVE  Spec => []Inv
  <1>1. Inv /\ [Next]_vars => Inv'
    BY NextInv
  <1> QED BY InitInv, <1>1, PTL DEF Spec

----------------------------------------------------------------------------
(* What a process would load at this moment.                               *)
LEMMA LoadIsAPrefix ==
    ASSUME Inv, pc \notin {"down", "truncate"}
    PROVE  /\ ~Loadable => Load(layout, ctx) = <<>>
           /\ Loadable => /\ Load(layout, ctx) \in Seq(Seq(Tokens))
                          /\ Len(Load(layout, ctx)) = diskNrec
                          /\ \A p \in 1..diskNrec : Load(layout, ctx)[p] = rows[p]
           /\ diskNrec <= Len(rows)
  <1>1. /\ Typed /\ diskNrec \in Nat /\ diskNrec <= Len(rows) /\ Holds(rows, diskNrec * W)
        /\ (nrec = diskNrec \/ (diskNrec = 0 /\ ~Loadable))
    BY DEF Inv, Typed, Synced
  <1>2. CASE Loadable
    <2>1. nrec = diskNrec /\ \E h \in Seq(Tokens) : Len(h) = nrec /\ Holds(RowsOf(h), nrec * W)
      BY <1>1, <1>2 DEF Inv, FileIsWhole
    <2>2. PICK h \in Seq(Tokens) : Len(h) = nrec /\ Holds(RowsOf(h), nrec * W)
      BY <2>1
    <2>3. Load(layout, ctx) = RowsOf(h)
      BY <1>1, <1>2, <2>2, LoadedRows
    <2>4. \A p \in 1..diskNrec : RowsOf(h)[p] = rows[p]
      BY <1>1, <2>1, <2>2, RecordIsIntact
    <2> QED BY <1>1, <1>2, <2>1, <2>2, <2>3, <2>4, RowsOfProperties
  <1>3. CASE ~Loadable
    BY <1>1, <1>3, NothingLoaded
  <1> QED BY <1>2, <1>3

\* Types are kept; a memory never exceeds the context of its process.
THEOREM TypeCorrect ==
    ASSUME OneProcess
    PROVE  Spec => []TypeOK
  <1>1. ASSUME Inv PROVE TypeOK
    <2>1. Typed /\ Len(rows) \in Nat /\ ctx \in Nat /\ Len(Hist(rows)) = Len(rows)
      BY <1>1, Facts DEF Inv
    <2>2. ASSUME NEW p \in 1..Len(rows)
          PROVE  rows[p] \in Histories(ctx)
      <3>1. rows[p] = SubSeq(Hist(rows), 1, p)
        BY <2>1, RowsOfProperties DEF Typed
      <3>2. rows[p] \in Seq(Tokens) /\ Len(rows[p]) = p
        BY <2>1, <3>1, SubSeqProperties DEF Typed
      <3>3. rows[p] \in [1..p -> Tokens]
        BY <3>2, LenProperties
      <3>4. p \in 0..ctx
        <4>1. rows # <<>> => Len(rows) <= ctx - 2
          BY <2>1 DEF Typed
        <4>2. rows # <<>>
          BY EmptySeq
        <4> QED BY <2>1, <4>1, <4>2
      <3> QED BY <3>3, <3>4 DEF Histories
    <2> QED BY <2>1, <2>2 DEF Typed, TypeOK
  <1> QED BY Invariance, <1>1, PTL

(* What a process works on is one conversation: after a restart, the rows  *)
(* of the file are the prefixes of one history (kv_disk_load, and the      *)
(* "crash-safe: nrec last" of kv_persist.h).                               *)
THEOREM MemoryIsOneConversation ==
    ASSUME OneProcess
    PROVE  Spec => []RowsAreOneConversation
  <1>1. ASSUME Inv PROVE RowsAreOneConversation
    BY <1>1 DEF Inv, Typed, RowsAreOneConversation, Sound
  <1> QED BY Invariance, <1>1, PTL

(* A crash at any point of a turn leaves a prefix of the memory in the     *)
(* file, and a turn that has ended is in it (kv_disk_append).              *)
THEOREM SavedTurns ==
    ASSUME OneProcess
    PROVE  Spec => []TurnIsSaved
  <1>1. ASSUME Inv PROVE CrashKeepsAPrefix
    <2> SUFFICES ASSUME pc \notin {"down", "truncate"}
                 PROVE  IsPrefix(Load(layout, ctx), rows)
      BY DEF CrashKeepsAPrefix
    <2>1. Typed /\ Len(rows) \in Nat /\ diskNrec \in Nat /\ rows \in Seq(Seq(Tokens))
      BY <1>1, Facts DEF Inv, Typed
    <2>2. CASE Loadable
      <3>1. PICK ls : ls = Load(layout, ctx)
        OBVIOUS
      <3>2. /\ ls \in Seq(Seq(Tokens)) /\ Len(ls) = diskNrec /\ diskNrec <= Len(rows)
            /\ \A p \in 1..diskNrec : ls[p] = rows[p]
        BY <1>1, <2>2, <3>1, LoadIsAPrefix
      <3>3. SubSeq(ls, 1, diskNrec) = SubSeq(rows, 1, diskNrec)
        <4>1. SubSeq(ls, 1, diskNrec) = ls
          BY <3>2, SubSeqFull
        <4>2. /\ SubSeq(rows, 1, diskNrec) \in Seq(Seq(Tokens))
              /\ Len(SubSeq(rows, 1, diskNrec)) = diskNrec
              /\ \A p \in 1..diskNrec : SubSeq(rows, 1, diskNrec)[p] = rows[p]
          BY <2>1, <3>2, SubSeqProperties
        <4> QED BY <3>2, <4>1, <4>2, SeqEqual
      <3> QED BY <3>1, <3>2, <3>3 DEF IsPrefix
    <2>3. CASE ~Loadable
      <3>1. Load(layout, ctx) = <<>>
        BY <2>3, NothingLoaded
      <3> QED BY <2>1, <3>1, SubSeqEmpty, EmptySeq DEF IsPrefix
    <2> QED BY <2>2, <2>3
  <1>2. ASSUME OneProcess, Inv, pc = "ready", header # NoHeader,
               Len(rows) >= 1, Len(rows) + Margin < ctx
        PROVE  Load(layout, ctx) = rows
    <2>1. Typed /\ diskNrec = Len(rows) /\ nrec = diskNrec /\ exists
          /\ rows \in Seq(Seq(Tokens))
      BY <1>2 DEF Inv, Typed, Synced, Made
    <2>2. Loadable
      BY <1>2, <2>1 DEF Loadable, Typed, OneProcess
    <2> QED BY <1>2, <2>1, <2>2, LoadIsAPrefix, SeqEqual
  <1>3. ASSUME OneProcess, Inv PROVE TurnIsSaved
    BY <1>1, <1>2, <1>3 DEF TurnIsSaved
  <1> QED BY Invariance, <1>3, PTL
=============================================================================
