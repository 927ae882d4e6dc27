------------------------------- MODULE Kernels -------------------------------
(***************************************************************************)
(* c/quant.h: rows of quantised weights and every arm of the kernels that  *)
(* read them, with the row readers and the format resolution of            *)
(* c/colibri.c.  A byte is a number, a row or a byte string a function     *)
(* from 0, a vector register a function on 0..15.  A kernel over floats is *)
(* the <<weight, scale>> each activation meets: neither the order of a sum *)
(* nor its rounding is modelled, which weight meets which activation is.   *)
(***************************************************************************)
EXTENDS Integers, Sequences, FiniteSets, TLC

Builds == {"avx512", "vnni", "avx2", "sdot", "neon", "vsx", "scalar"}
Intel == {"avx512", "vnni", "avx2"}
Arm == {"sdot", "neon"}

Sum(n, term(_)) == LET s[k \in 0..n] == IF k = 0 THEN 0 ELSE s[k - 1] + term(k - 1) IN s[n]
Ceil(a, b) == (a + b - 1) \div b
Lesser(a, b) == IF a < b THEN a ELSE b
Size(a) == IF a < 0 THEN -a ELSE a
Count(row) == Cardinality(DOMAIN row)
Whole(n, block) == IF block = 0 THEN 0 ELSE n - (n % block)

\* Two's complement, and maddubs, which saturates instead.
Wrap(v, bits) == ((v + 2 ^ (bits - 1)) % 2 ^ bits) - 2 ^ (bits - 1)
Saturate(v) == IF v > 32767 THEN 32767 ELSE IF v < -32768 THEN -32768 ELSE v

----------------------------------------------------------------------------
(* Quantising and packing.  A row of floats is a row of numbers: only      *)
(* their ratios to the largest matter.                                     *)
RoundEven(a, b) ==
    LET f == a \div b
        r == a % b
    IN IF 2 * r < b \/ (2 * r = b /\ f % 2 = 0) THEN f ELSE f + 1

Largest(x) == CHOOSE a \in {Size(x[i]) : i \in DOMAIN x} : \A i \in DOMAIN x : Size(x[i]) <= a

\* A row of zeros has the least scale, and zeros.
Scaled(x, qmax) ==
    LET amax == Largest(x) IN [i \in DOMAIN x |-> IF amax = 0 THEN 0 ELSE RoundEven(x[i] * qmax, amax)]

\* Mutant: the whole range of a byte, as if it were symmetric.
QRowWide(x) == [i \in DOMAIN x |-> Lesser(Scaled(x, 128)[i], 127)]
QRow(x) == LET s == Scaled(x, 127) IN [i \in DOMAIN x |-> Wrap(s[i], 8)]

Quantised(x, qmax) ==
    LET s == Scaled(x, qmax)
    IN [i \in DOMAIN x |-> IF s[i] > qmax THEN qmax ELSE IF s[i] < -qmax - 1 THEN -qmax - 1 ELSE s[i]]

\* Int4: two to a byte, an odd row ends with a zero.
PackInt4(v) ==
    LET Nibble(i) == 8 + (IF i < Count(v) THEN v[i] ELSE 0)
    IN [c \in 0..(Ceil(Count(v), 2) - 1) |-> Nibble(2 * c) + 16 * Nibble(2 * c + 1)]

PackInt2(v) ==
    [c \in 0..(Ceil(Count(v), 4) - 1) |->
        Sum(4, LAMBDA k : IF 4 * c + k < Count(v) THEN (v[4 * c + k] + 2) * 4 ^ k ELSE 0)]

\* Int3: per 64 weights sixteen bytes of low bits, then eight of high bits.
PackInt3(v) ==
    LET U(i) == IF i < Count(v) THEN v[i] + 4 ELSE 0
    IN [b \in 0..(24 * Ceil(Count(v), 64) - 1) |->
           LET at == 64 * (b \div 24)
               c == b % 24
           IN IF c < 16 THEN Sum(4, LAMBDA k : (U(at + 4 * c + k) % 4) * 4 ^ k)
                        ELSE Sum(8, LAMBDA k : (U(at + 8 * (c - 16) + k) \div 4) * 2 ^ k)]

\* One weight, as the scalar loops read it.
LowNibble(w, i) == (w[i \div 2] % 16) - 8
HighNibble(w, i) == w[i \div 2] \div 16 - 8
Int4At(w, i) == IF i % 2 = 0 THEN LowNibble(w, i) ELSE HighNibble(w, i)
Int2At(w, i) == ((w[i \div 4] \div 4 ^ (i % 4)) % 4) - 2
HighBit(w, at, k) == (w[at + 16 + k \div 8] \div 2 ^ (k % 8)) % 2
Int3At(w, i) ==
    LET at == 24 * (i \div 64)
        k == i % 64
    IN ((w[at + k \div 4] \div 4 ^ (k % 4)) % 4) + 4 * HighBit(w, at, k) - 4

----------------------------------------------------------------------------
(* Vector registers.                                                       *)
Load(w, at, n) == [c \in 0..15 |-> IF c < n THEN w[at + c] ELSE 0]

\* Intel shifts pairs of bytes: bits of the upper byte come down into the
\* lower one, and the mask takes them off.
Field(build, r, s, m) ==
    LET Pair(c) == r[c - (c % 2)] + 256 * r[c - (c % 2) + 1]
    IN [c \in 0..15 |-> (IF build \in Intel THEN (Pair(c) \div 2 ^ s) \div 256 ^ (c % 2) ELSE r[c] \div 2 ^ s) % m]

\* unpacklo, unpackhi, vzip, vec_merge: units of a and of b in turn, from the
\* lower or the upper half of both.
Unpack(a, b, unit, half) ==
    [k \in 0..15 |->
        LET u == k \div unit
        IN (IF u % 2 = 0 THEN a ELSE b)[8 * half + unit * (u \div 2) + (k % unit)]]

\* Sixteen int4 weights of a register, and sixteen fields of two bits.
Nibbles(build, r, half) == Unpack(Field(build, r, 0, 16), Field(build, r, 4, 16), 1, half)
Pairs(build, r, half, quarter) ==
    Unpack(Unpack(Field(build, r, 0, 4), Field(build, r, 2, 4), 1, half),
           Unpack(Field(build, r, 4, 4), Field(build, r, 6, 4), 1, half), 2, quarter)

----------------------------------------------------------------------------
(* Integer dots: int8 activations by int8 or int4 weights.                 *)
Int8Block == [b \in Builds |-> CASE b = "avx512" -> 64 [] b = "avx2" -> 32 [] b = "scalar" -> 0 [] OTHER -> 16]
Int4Block == [b \in Builds |-> CASE b = "avx512" -> 64 [] b = "scalar" -> 0 [] OTHER -> 32]

\* An unsigned weight by an activation with the weight's sign, negated in
\* eight bits, where the instruction takes only that.
Product(build, w, x) ==
    IF build \in Intel \cup {"vsx"} THEN Size(w) * (IF w < 0 THEN Wrap(-x, 8) ELSE x) ELSE w * x

\* The accumulators: neighbours are added with saturation, or products eight
\* apart in sixteen bits; the others add in 32 bits, which no row overflows.
Lanes(build, p) ==
    CASE build = "avx2" -> Sum(Count(p) \div 2, LAMBDA k : Saturate(p[2 * k] + p[2 * k + 1]))
      [] build = "neon" ->
             Sum(Count(p) \div 2, LAMBDA k : LET j == 16 * (k \div 8) + (k % 8) IN Wrap(p[j] + p[j + 8], 16))
      [] OTHER -> Sum(Count(p), LAMBDA k : p[k])

DotInt8(build, w, x) ==
    LET full == Whole(Count(x), Int8Block[build])
    IN Lanes(build, [k \in 0..(full - 1) |-> Product(build, w[k], x[k])])
       + Sum(Count(x) - full, LAMBDA k : w[full + k] * x[full + k])

\* AVX-512 unpacks its two lanes of sixteen bytes apart, and brings the
\* activations, eight bytes at a time, into that order.
Qwords == <<0, 1, 4, 5, 2, 3, 6, 7>>
VectorWeight(build, w, k) ==
    IF build = "avx512"
    THEN Nibbles(build, Load(w, 32 * (k \div 64) + 16 * ((k % 32) \div 16), 16), (k % 64) \div 32)[k % 16] - 8
    ELSE Nibbles(build, Load(w, 16 * (k \div 32), 16), (k % 32) \div 16)[k % 16] - 8
VectorInput(build, x, k) ==
    IF build = "avx512" THEN x[64 * (k \div 64) + 8 * Qwords[1 + ((k % 64) \div 8)] + (k % 8)] ELSE x[k]

DotInt4(build, w, x) ==
    LET full == Whole(Count(x), Int4Block[build])
    IN Lanes(build, [k \in 0..(full - 1) |-> Product(build, VectorWeight(build, w, k), VectorInput(build, x, k))])
       + Sum(Count(x) - full, LAMBDA k : Int4At(w, full + k) * x[full + k])

\* vmmla: lane 2i + j is weight row i by activation row j.
Smmla(w0, w1, x0, x1) ==
    [l \in 0..3 |-> Sum(Count(x0), LAMBDA k : (IF l < 2 THEN w0 ELSE w1)[k] * (IF l % 2 = 0 THEN x0 ELSE x1)[k])]

\* The tiles of two outputs by two rows; an odd last one goes by dots.
Tiled(w, x) ==
    LET O == Count(w)
        S == Count(x)
    IN [s \in 0..(S - 1) |-> [o \in 0..(O - 1) |->
           IF o >= O - (O % 2) \/ s >= S - (S % 2) THEN DotInt8("sdot", w[o], x[s])
           ELSE LET i == o - (o % 2)
                    j == s - (s % 2)
                IN Smmla(w[i], w[i + 1], x[j], x[j + 1])[2 * (o % 2) + (s % 2)]]]

----------------------------------------------------------------------------
(* Kernels over floats: the weight and the scale of each activation.       *)
ByRow(build, w, n, full, vector(_), scalar(_)) ==
    [i \in 0..(n - 1) |-> << IF i < full THEN vector(i) ELSE scalar(i), 0 >>]

Int8Row(w, n) == [i \in 0..(n - 1) |-> <<w[i], 0>>]

\* matmul_i4, its pair and the axpy: AVX-512 takes sixteen bytes at once,
\* AVX2 and NEON eight, and a row may end between them.
Int4Row(build, w, n) ==
    LET block == CASE build = "avx512" -> 32 [] build \in {"avx2", "vnni"} \cup Arm -> 16 [] OTHER -> 0
    IN ByRow(build, w, n, Whole(n, block),
             LAMBDA i : Nibbles(build, Load(w, (block \div 2) * (i \div block), block \div 2),
                                (i % block) \div 16)[i % 16] - 8,
             LAMBDA i : Int4At(w, i))

Int2Row(build, w, n) ==
    ByRow(build, w, n, IF build \in Intel \cup Arm THEN Whole(n, 16) ELSE 0,
          LAMBDA i : Pairs(build, Load(w, 4 * (i \div 16), 4), 0, 0)[i % 16] - 2,
          LAMBDA i : Int2At(w, i))

\* Grouped int4: within a group sixteen at a time, then by pairs, the first
\* of a pair from the low half of its byte.
GroupedRow(build, w, n, gs) ==
    [i \in 0..(n - 1) |->
        LET base == gs * (i \div gs)
            j == i - base
            full == IF build \in Intel THEN Whole(Lesser(gs, n - base), 16) ELSE 0
        IN << CASE j < full -> Nibbles(build, Load(w, (base + 16 * (j \div 16)) \div 2, 8), 0)[j % 16] - 8
                [] j >= full /\ (j - full) % 2 = 0 -> LowNibble(w, i)
                [] OTHER -> HighNibble(w, i - 1),
              i \div gs >>]

\* Int3: whole groups of 64 at once, or sixteen at a time.
Int3Row(build, w, n) ==
    [i \in 0..(n - 1) |->
        LET at == 24 * (i \div 64)
            k == i % 64
            whole == n - 64 * (i \div 64) >= 64
        IN << CASE whole /\ build = "avx512" ->
                       Pairs(build, Load(w, at, 16), k \div 32, (k \div 16) % 2)[k % 16] + 4 * HighBit(w, at, k) - 4
                [] whole /\ build \in Arm ->
                       Pairs(build, Load(w, at + 4 * (k \div 16), 4), 0, 0)[k % 16] + 4 * HighBit(w, at, k) - 4
                [] OTHER -> Int3At(w, i),
              i \div 64 >>]

\* fp8: a byte by the scale of its block of 128 rows by 128 columns.
Fp8Row(w, n, o) == [i \in 0..(n - 1) |-> <<w[i], (o \div 128) * Ceil(n, 128) + i \div 128>>]

----------------------------------------------------------------------------
(* MXFP4: nibbles that stand for e2m1 numbers, here doubled, in groups of  *)
(* 32 with a scale each.                                                   *)
Doubled == <<0, 1, 2, 3, 4, 6, 8, 12, 0, -1, -2, -3, -4, -6, -8, -12>>
Mx4At(w, i) == Doubled[1 + Int4At(w, i) + 8]
Mx4Vector(build, w, i) == Doubled[1 + Nibbles(build, Load(w, 16 * (i \div 32), 16), (i % 32) \div 16)[i % 16]]
Mx4Row(build, w, n) ==
    [i \in 0..(n - 1) |->
        << IF build \in Intel /\ n % 32 = 0 THEN Mx4Vector(build, w, i) ELSE Mx4At(w, i), i \div 32 >>]

\* The integer dot of a group, for rows of whole groups.
Mx4Dot(build, w, x, g) ==
    IF build \in Intel
    THEN Lanes("avx2", [k \in 0..31 |-> Product("avx2", Mx4Vector(build, w, 32 * g + k), x[32 * g + k])])
    ELSE Sum(32, LAMBDA k : Mx4At(w, 32 * g + k) * x[32 * g + k])

----------------------------------------------------------------------------
(* E8: seven stored signs of every eight, the last makes them even.        *)
Bit(v, j) == (v \div 2 ^ j) % 2
Parity(v, n) == Sum(n, LAMBDA j : Bit(v, j)) % 2
E8Signs(build, seven) ==
    IF build \in Intel
    THEN LET eight == seven + 128 * Parity(seven, 7) IN [j \in 0..7 |-> Bit(eight, j) = 1]
    ELSE LET par[j \in 0..7] == IF j = 0 THEN 0 ELSE (par[j - 1] + Bit(seven, j - 1)) % 2
         IN [j \in 0..7 |-> IF j < 7 THEN Bit(seven, j) = 1 ELSE par[7] = 1]

\* The weight at i of a row of super-blocks, each [index, seven, sub]: the
\* place in the grid, whether negated, and the scale of its 32.
E8Row(build, blocks, n) ==
    [i \in 0..(n - 1) |->
        LET b == blocks[i \div 256]
            lane == (i % 256) \div 8
            j == i % 8
            arm == IF 256 * (i \div 256) + 256 <= n THEN build ELSE "scalar"
        IN << b.index[2 * lane + j \div 4], j % 4, E8Signs(arm, b.seven[lane])[j], b.sub[lane \div 4] >>]

\* e8_rot_rows: the blocks of a row, each as long as the lowest bit of what
\* is left, halved to the room of the sign buffer.
LowestBit(v) == CHOOSE b \in {2 ^ k : k \in 0..20} : v % b = 0 /\ (v \div b) % 2 = 1
RotationBlocks(dim, room) ==
    LET f[left \in 0..dim] ==
            IF left = 0 THEN <<>>
            ELSE LET b == CHOOSE c \in {LowestBit(left) \div 2 ^ k : k \in 0..20} :
                              c >= 1 /\ c <= room /\ (c = LowestBit(left) \/ 2 * c > room)
                 IN <<b>> \o f[left - b]
    IN f[dim]

\* e8_fwht, before its scale: signs, then butterflies of twice the length.
Fwht(a, n, flip) ==
    LET h[len \in {2 ^ k : k \in 0..10}] ==
            IF len = 1 THEN [i \in 0..(n - 1) |-> IF flip[i] THEN -a[i] ELSE a[i]]
            ELSE LET p == h[len \div 2]
                     d == len \div 2
                 IN [i \in 0..(n - 1) |-> IF (i \div d) % 2 = 0 THEN p[i] + p[i + d] ELSE p[i - d] - p[i]]
    IN h[n]

----------------------------------------------------------------------------
(* c/colibri.c: which arm a matrix goes to, and rows read one at a time.   *)

\* c: the switches that are on, and the least rows a batch has for each.
Kernel(fmt, S, c) ==
    CASE /\ {"metal", "pinned", "nested"} \cap c.on = {"metal"}
         /\ S >= c.gemm /\ fmt \in {1, 2, 4} -> "metal"
      [] {"cuda", "nested"} \cap c.on = {"cuda"} /\ fmt \notin {5, 8} -> "cuda"
      [] fmt \notin {4, 6} /\ {"allow", "idot"} \subseteq c.on
             /\ (fmt = 1 \/ (fmt = 2 /\ (IF "pinned" \in c.on THEN c.i4s <= 1 ELSE S >= c.i4s))) -> "integer"
      [] OTHER -> "float"

Refused == <<>>

\* embed_row takes whatever it does not know for int2.
EmbedRow(fmt, w, n, gs) ==
    CASE fmt = 4 -> GroupedRow("scalar", w, n, gs)
      [] fmt = 1 -> Int8Row(w, n)
      [] fmt = 2 -> Int4Row("scalar", w, n)
      [] fmt = 5 -> Int3Row("scalar", w, n)
      [] OTHER -> Int2Row("scalar", w, n)

\* qt_addrow goes through a grouped row by pairs from its start.
AddRow(build, fmt, w, n, gs) ==
    CASE fmt = 4 -> [i \in 0..(n - 1) |-> <<Int4At(w, i), i \div gs>>]
      [] fmt = 5 -> Int3Row("scalar", w, n)
      [] fmt = 1 -> Int8Row(w, n)
      [] fmt = 2 -> Int4Row(IF build = "avx512" THEN build ELSE "scalar", w, n)
      [] fmt = 3 -> Int2Row("scalar", w, n)
      [] OTHER -> Refused

MatvecRow(build, fmt, w, n, gs) ==
    CASE fmt = 4 -> GroupedRow("scalar", w, n, gs)
      [] fmt = 1 -> Int8Row(w, n)
      [] fmt = 2 -> Int4Row(IF build = "avx512" /\ n % 32 = 0 THEN build ELSE "scalar", w, n)
      [] fmt = 5 -> Int3Row("scalar", w, n)
      [] fmt = 3 -> Int2Row("scalar", w, n)
      [] OTHER -> Refused

----------------------------------------------------------------------------
(* The format of a tensor of O rows and I columns: 1 int8, 2 int4, 3 int2, *)
(* 4 grouped int4, 5 int3, 6 E8, 8 fp8 by blocks.  A container gives its   *)
(* bytes, those of its scales, and sometimes a stamp.                      *)
NoStamp == -2
NoFormat == -1
Formats == {1, 2, 3, 4, 5, 6, 8}
GroupSizes == {16, 32, 48, 64, 96, 128, 192, 256}

Blocks(O, I) == Ceil(O, 128) * Ceil(I, 128)
WeightBytes(fmt, O, I) ==
    O * (CASE fmt \in {1, 8} -> I
           [] fmt \in {2, 4} -> Ceil(I, 2)
           [] fmt = 3 -> Ceil(I, 4)
           [] fmt = 5 -> 24 * Ceil(I, 64)
           [] fmt = 6 -> 98 * Ceil(I, 256))
ScaleBytes(fmt, gs, O, I) ==
    4 * (CASE fmt = 4 -> O * Ceil(I, gs)
           [] fmt = 5 -> O * Ceil(I, 64)
           [] fmt = 6 -> 1
           [] fmt = 8 -> Blocks(O, I)
           [] OTHER -> O)

\* The format qt_alloc gives a tensor that is quantised on loading.
AllocFormat(bits, nopack) ==
    CASE bits >= 16 -> 0
      [] bits \in 5..15 \/ (nopack /\ bits < 5) -> 1
      [] bits = 4 -> 2
      [] bits = 3 -> 5
      [] OTHER -> 3

\* Mutant: grouped int4 is probed from the coarsest size.
GroupSizeCoarse(O, I, ns) ==
    LET fits == {g \in GroupSizes : g <= I /\ ns = 4 * O * Ceil(I, g)}
    IN IF ns <= 4 * O \/ fits = {} THEN 0 ELSE CHOOSE g \in fits : \A h \in fits : g >= h

\* detect_group_size: the finest that fits, none for a scale a row.
GroupSize(O, I, ns) ==
    LET fits == {g \in GroupSizes : g <= I /\ ns = 4 * O * Ceil(I, g)}
    IN IF ns <= 4 * O \/ fits = {} THEN 0 ELSE CHOOSE g \in fits : \A h \in fits : g <= h

\* The four bytes of the scales of an E8 tensor, and what else they may be.
TaggedFormat(O, I, nb, stamp) ==
    LET Raw(blocks) == nb = O * I /\ Blocks(O, I) = blocks
        row == nb = O * I /\ O = 1
    IN CASE ~(Raw(1) \/ Raw(4) \/ row) \/ stamp = 6 -> 6
         [] stamp = 8 /\ Raw(1) -> 8
         [] stamp = 1 /\ row -> 1
         [] OTHER -> NoFormat

\* A byte a weight: a scale a row, or a block, or a byte a block.
RawFormat(O, I, ns, stamp) ==
    LET row == ns = 4 * O
        block == ns = 4 * Blocks(O, I)
    IN CASE row /\ block -> IF stamp \in {1, 8} THEN stamp ELSE IF stamp = NoStamp THEN 1 ELSE NoFormat
         [] ns = Blocks(O, I) /\ ~(row /\ block) -> IF stamp = 1 /\ row THEN 1 ELSE NoFormat
         [] block /\ ~row /\ ns # Blocks(O, I) -> 8
         [] OTHER -> 1

\* qt_resolve_fmt: by the bytes of the weights, rows first.
Resolved(O, I, nb, ns, stamp) ==
    LET fits == {f \in {1, 2, 3, 5} : nb = WeightBytes(f, O, I)}
        first == CHOOSE f \in fits : \A g \in fits : f <= g
        gs == IF fits # {} /\ first = 2 THEN GroupSize(O, I, ns) ELSE 0
        fmt == CASE fits = {} -> NoFormat
                 [] first = 1 -> RawFormat(O, I, ns, stamp)
                 [] gs > 0 -> 4
                 [] OTHER -> first
    IN CASE ns = 4 /\ nb = WeightBytes(6, O, I) -> <<TaggedFormat(O, I, nb, stamp), 0>>
         [] fmt = NoFormat \/ ns # ScaleBytes(fmt, gs, O, I) -> <<NoFormat, 0>>
         [] OTHER -> <<fmt, gs>>

\* qt_from_disk: what a stamp says must be what the bytes say.
Loaded(O, I, nb, ns, stamp) ==
    LET r == Resolved(O, I, nb, ns, stamp) IN IF stamp \in {NoStamp, r[1]} THEN r ELSE <<NoFormat, 0>>

----------------------------------------------------------------------------
(* The properties.                                                         *)

(* qrow_i8, quantize_rows, pack_*: every number becomes the nearest        *)
(* multiple of its row's scale, and none leaves the range of its width.    *)
QuantisedIsNearest(x) ==
    \A qmax \in {1, 3, 7, 127} :
        LET v == IF qmax = 127 THEN QRow(x) ELSE Quantised(x, qmax)
            amax == Largest(x)
        IN \A i \in DOMAIN x : v[i] \in -qmax..qmax /\ 2 * Size(v[i] * amax - x[i] * qmax) <= amax

(* dot_i8i8, dot_i4i8 and the tiles of the matrix instructions: whatever   *)
(* the build and the length, the integer dot is exact.  The sums of two    *)
(* products in sixteen bits have room only because qrow_i8 leaves out -128 *)
(* (q is a row it quantised).                                              *)
IntegerDotsAreExact(w, q) ==
    LET n == Count(q)
        low == [i \in DOMAIN w |-> (w[i] % 16) - 8]
        Plain(v) == Sum(n, LAMBDA k : v[k] * q[k])
        back == [i \in DOMAIN w |-> w[n - 1 - i]]
        rows == (0 :> w) @@ (1 :> back) @@ (2 :> low)
        inputs == (0 :> q) @@ (1 :> [i \in DOMAIN q |-> -q[i]]) @@ (2 :> q)
    IN /\ \A b \in Builds : DotInt8(b, w, q) = Plain(w) /\ DotInt4(b, PackInt4(low), q) = Plain(low)
       /\ \A s, o \in 0..2 :
              Tiled(rows, inputs)[s][o] = Sum(n, LAMBDA k : rows[o][k] * inputs[s][k])

(* matmul_*, the row readers: every arm multiplies each activation by the  *)
(* weight that was packed for it, and by the scale of that weight's group, *)
(* wherever the row ends; a reader that has no case for a format refuses.  *)
RowsAreReadAsPacked(v, gs) ==
    LET n == Count(v)
        Cut(q) == [i \in DOMAIN v |-> IF v[i] > q THEN q ELSE IF v[i] < -q - 1 THEN -q - 1 ELSE v[i]]
        Packed == [f \in 1..5 |-> CASE f = 1 -> v [] f \in {2, 4} -> PackInt4(Cut(7))
                                    [] f = 3 -> PackInt2(Cut(1)) [] f = 5 -> PackInt3(Cut(3))]
        Group == [f \in 1..5 |-> CASE f = 4 -> gs [] f = 5 -> 64 [] OTHER -> n]
        Meant(f) == LET u == CASE f = 1 -> v [] f \in {2, 4} -> Cut(7) [] f = 3 -> Cut(1) [] f = 5 -> Cut(3)
                    IN [i \in DOMAIN v |-> <<u[i], i \div Group[f]>>]
    IN /\ \A b \in Builds :
              /\ Int4Row(b, Packed[2], n) = Meant(2) /\ GroupedRow(b, Packed[4], n, gs) = Meant(4)
              /\ Int2Row(b, Packed[3], n) = Meant(3) /\ Int3Row(b, Packed[5], n) = Meant(5)
              /\ \A f \in 1..5 : AddRow(b, f, Packed[f], n, gs) = Meant(f)
                                 /\ MatvecRow(b, f, Packed[f], n, gs) = Meant(f)
       /\ \A f \in 1..5 : EmbedRow(f, Packed[f], n, gs) = Meant(f)
       /\ \A f \in {6, 8}, b \in Builds : AddRow(b, f, v, n, gs) = Refused /\ MatvecRow(b, f, v, n, gs) = Refused
       /\ \A o \in {0, 127, 128} : \A i \in DOMAIN v : Fp8Row(v, n, o)[i][2] \in 0..(Blocks(o + 1, n) - 1)

(* matmul_mxfp4 and its integer twin: the arms meet the same e2m1 weights. *)
Mx4ArmsAgree(v, q) ==
    LET n == Count(v)
        w == PackInt4([i \in DOMAIN v |-> (v[i] % 16) - 8])
    IN \A b \in Builds :
           /\ Mx4Row(b, w, n) = [i \in DOMAIN v |-> <<Doubled[1 + (v[i] % 16)], i \div 32>>]
           /\ \A g \in 0..(n \div 32 - 1) :
                  Mx4Dot(b, w, q, g) = Sum(32, LAMBDA k : Mx4At(w, 32 * g + k) * q[32 * g + k])

(* matmul_e8 and e8_expand_sub: every arm gives a weight the same place in *)
(* the grid, scale and sign, and of every eight an even number is negated. *)
E8ArmsAgree(blocks, n) ==
    /\ \A b \in Builds : E8Row(b, blocks, n) = E8Row("scalar", blocks, n)
    /\ \A k \in 0..(n \div 8 - 1) :
           Cardinality({i \in (8 * k)..(8 * k + 7) : E8Row("scalar", blocks, n)[i][3]}) % 2 = 0

(* e8_rot_rows: the blocks of a row are powers of two, fit the sign buffer *)
(* and cover the row.  Rotating both sides multiplies a dot by the length, *)
(* which the scale takes off twice.                                        *)
RotationIsOrthogonal(a, b, n, flip) ==
    Sum(n, LAMBDA i : Fwht(a, n, flip)[i] * Fwht(b, n, flip)[i]) = n * Sum(n, LAMBDA i : a[i] * b[i])
RotationCovers(dim, room) ==
    LET blocks == RotationBlocks(dim, room)
    IN /\ Sum(Len(blocks), LAMBDA k : blocks[k + 1]) = dim
       /\ \A k \in 1..Len(blocks) : blocks[k] <= room /\ LowestBit(blocks[k]) = blocks[k]

(* matmul_qt_ex: under SPEC_PIN a batch of drafts goes through the kernel  *)
(* a single token goes through, and no format meets a kernel without it.   *)
PinnedKernelsAgree(c) ==
    \A fmt \in Formats, S \in 1..8 :
        /\ "pinned" \in c.on => Kernel(fmt, S, c) = Kernel(fmt, 1, c)
        /\ (fmt = 8 => Kernel(fmt, S, c) = "float") /\ (fmt = 4 => Kernel(fmt, S, c) # "integer")

(* qt_resolve_fmt: a tensor that says what it is is read as that or        *)
(* refused.  Without a stamp too, when it has more than one row and more   *)
(* than 144 columns; and what this engine's tools write is not refused.    *)
FormatsAreToldApart(O, I, fmt, gs) ==
    LET nb == WeightBytes(fmt, O, I)
        ns == ScaleBytes(fmt, gs, O, I)
        Same(r) == r = <<fmt, gs>> \/ (fmt = 4 /\ gs = I /\ r = <<2, 0>>)
        written == CASE fmt = 4 -> I % gs = 0 [] fmt = 6 -> I % 256 = 0 [] fmt = 8 -> Blocks(O, I) # O
                     [] OTHER -> TRUE
    IN written =>
           /\ LET r == Loaded(O, I, nb, ns, fmt) IN Same(r) \/ r[1] = NoFormat
           /\ O > 1 /\ I > 144 =>
                  LET r == Loaded(O, I, nb, ns, NoStamp) IN Same(r) \/ (O <= 32 /\ r[1] = NoFormat)
=============================================================================
