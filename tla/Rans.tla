-------------------------------- MODULE Rans --------------------------------
(***************************************************************************)
(* The entropy coder of c/rans.h: streams, chunk records, and the decoders *)
(* of a record.  The sizes are constants: a state of Digits digits to the  *)
(* base Radix (4 bytes) from L upwards (1 << 23), symbols 0..A-1 (nibbles),*)
(* M slots (1 << scale_bits), group widths.  A shift is a multiplication   *)
(* or a division by a power.  A blob is a sequence of cells: an integer of *)
(* the header is one cell, a byte of the payload another.                  *)
(***************************************************************************)
EXTENDS Integers, Sequences, FiniteSets, SequencesExt, FiniteSetsExt

CONSTANTS Radix, Digits, L, A, M,
          Align,                   \* 16
          Narrow, Wide             \* RANS_G_SCALAR; RANS_G_NEON and RANS_G_AVX512

RansAssumption ==
    /\ L % M = 0 /\ L * Radix <= Radix ^ Digits
    /\ Narrow % 2 = 0 /\ Wide % 2 = 0

Symbols == 0..(A - 1)
Failed == <<-1>>                    \* a decoder's refusal
Refused == [n |-> 0, offsets |-> <<>>, payload |-> <<>>]    \* the parser's

\* rans_table_init accepts frequencies and the tables that follow from them.
StartOf(freq) == [s \in Symbols |-> FoldSet(LAMBDA r, sum : sum + freq[r], 0, 0..(s - 1))]
SlotsOf(freq) == [i \in 0..(M - 1) |-> CHOOSE s \in Symbols :
                     i >= StartOf(freq)[s] /\ i < StartOf(freq)[s] + freq[s]]
TableOf(freq) == [freq |-> freq, start |-> StartOf(freq), symbol |-> SlotsOf(freq)]

\* What rans_table_init refuses.
TableRefused(t) ==
    \/ \E s \in Symbols : t.start[s] # FoldSet(LAMBDA r, sum : sum + t.freq[r], 0, 0..(s - 1))
    \/ FoldSet(LAMBDA r, sum : sum + t.freq[r], 0, Symbols) # M
    \/ \E i \in 0..(M - 1) : LET s == t.symbol[i]
                            IN s \notin Symbols \/ i < t.start[s] \/ i >= t.start[s] + t.freq[s]
----------------------------------------------------------------------------
(* A stream.                                                               *)

\* Mutant: the state may grow to the bound and beyond it.
RoomLate(f) == (L \div M) * Radix * f + 1

Room(f) == (L \div M) * Radix * f

\* One symbol, before those that are encoded already.
Encoded(s, e, t) ==
    LET k == Min({j \in 0..Digits : e.x \div Radix ^ j < Room(t.freq[s])})
        x == e.x \div Radix ^ k
        low == [i \in 1..k |-> (e.x \div Radix ^ (k - i)) % Radix]
    IN [x |-> (x \div t.freq[s]) * M + (x % t.freq[s]) + t.start[s], out |-> low \o e.out]

\* rans_encode_stream, from the last symbol to the first.
EncodeStream(symbols, t) ==
    LET e == FoldRight(LAMBDA s, acc : Encoded(s, acc, t), symbols, [x |-> L, out |-> <<>>])
    IN [i \in 1..Digits |-> (e.x \div Radix ^ (Digits - i)) % Radix] \o e.out

\* The state a stream begins with; c counts the digits that are consumed.
Begun(stream) == [x |-> FoldLeft(LAMBDA x, d : x * Radix + d, 0, SubSeq(stream, 1, Digits)),
                  c |-> Digits, out |-> <<>>]

Stepped(x, t) == LET slot == x % M
                     s == t.symbol[slot]
                 IN [x |-> t.freq[s] * (x \div M) + slot - t.start[s], s |-> s]

\* The renormalisation, digit by digit while there are any.
LoopCount(x, left) == Min({j \in 0..left : x * Radix ^ j >= L} \cup {left})

\* Mutant: the closed form counts one digit at most.
ClosedCountOne(x, left) == IF x < L /\ left > 0 THEN 1 ELSE 0

\* The same in closed form: one comparison for each digit.
ClosedCount(x, left) ==
    LET k == Cardinality({j \in 0..(Digits - 2) : x < L \div Radix ^ j})
    IN IF left < k THEN left ELSE k

Refilled(x, c, k, stream) ==
    [x |-> FoldLeft(LAMBDA y, d : y * Radix + d, x, SubSeq(stream, c + 1, c + k)), c |-> c + k]

\* A symbol of a lane; renorm names the form of the refill.
Lane(d, stream, t, renorm) ==
    LET step == Stepped(d.x, t)
        left == Len(stream) - d.c
        k == IF renorm = "loop" THEN LoopCount(step.x, left) ELSE ClosedCount(step.x, left)
        refilled == Refilled(step.x, d.c, k, stream)
    IN [x |-> refilled.x, c |-> refilled.c, out |-> Append(d.out, step.s)]

Decoded(stream, n, t, renorm) ==
    FoldLeft(LAMBDA d, i : Lane(d, stream, t, renorm), Begun(stream), [i \in 1..n |-> i])

\* rans_decode_stream.
DecodeStream(stream, n, t) ==
    IF Len(stream) < Digits THEN Failed ELSE Decoded(stream, n, t, "loop").out

\* rans_decode_stream_checked.
DecodeChecked(stream, n, t) ==
    LET d == Decoded(stream, n, t, "loop")
        sealed == Begun(stream).x >= L /\ d.c = Len(stream) /\ d.x = L
    IN IF Len(stream) < Digits THEN Failed ELSE IF sealed THEN d.out ELSE Failed
----------------------------------------------------------------------------
(* A record.                                                               *)

Rounded(n) == ((n + Align - 1) \div Align) * Align
HeaderCells(streams) == Rounded(2 + streams + 1)
PackedCells(n) == (n + 1) \div 2
Zeros(n) == [i \in 1..n |-> 0]

\* The symbols of stream i: every streams-th, from the i-th on.
SubStream(symbols, i, streams) ==
    LET n == Len(symbols)
        size == IF n <= i THEN 0 ELSE (n - i - 1) \div streams + 1
    IN [k \in 1..size |-> symbols[i + 1 + (k - 1) * streams]]

\* rans_record_encode.
RecordOf(symbols, t, streams) ==
    LET parts == [i \in 1..streams |-> EncodeStream(SubStream(symbols, i - 1, streams), t)]
        offsets == [i \in 1..(streams + 1) |->
                       FoldLeft(LAMBDA sum, p : sum + Len(p), 0, SubSeq(parts, 1, i - 1))]
        payload == FlattenSeq(parts)
        head == <<Len(symbols), PackedCells(Len(symbols))>> \o offsets
    IN IF streams = 0 THEN "n_streams"
       ELSE IF symbols = <<>> THEN "empty"
       ELSE IF \E j \in DOMAIN symbols : symbols[j] \notin Symbols THEN "uncodable"
       ELSE IF \E j \in DOMAIN symbols : t.freq[symbols[j]] = 0 THEN "uncodable"
       ELSE head \o Zeros(HeaderCells(streams) - Len(head))
            \o payload \o Zeros(Rounded(Len(payload)) - Len(payload))

\* Mutant: a stream without its state is accepted.
OffsetsInOrder(off) == \A i \in 2..Len(off) : off[i] >= off[i - 1]

OffsetsAreSound(off) == \A i \in 2..Len(off) : off[i] >= off[i - 1] /\ off[i] - off[i - 1] >= Digits

\* rans_record_parse: a record, or a refusal.  Most bounds a stream's symbols.
RecordAt(blob, streams, Most) ==
    LET head == HeaderCells(streams)
        off == SubSeq(blob, 3, 3 + streams)
        size == off[streams + 1]
        Sound == /\ blob[1] # 0 /\ blob[2] = PackedCells(blob[1])
                 /\ off[1] = 0 /\ OffsetsAreSound(off)
                 /\ Len(blob) = head + Rounded(size) /\ blob[1] <= size * Most
                 /\ \A i \in (3 + streams + 1)..head : blob[i] = 0
                 /\ \A i \in (head + size + 1)..Len(blob) : blob[i] = 0
    IN IF streams = 0 \/ Len(blob) < head THEN Refused
       ELSE IF ~Sound THEN Refused
       ELSE [n |-> blob[1], offsets |-> off, payload |-> SubSeq(blob, head + 1, head + size)]

StreamOf(rec, i) == SubSeq(rec.payload, rec.offsets[i + 1] + 1, rec.offsets[i + 2])
----------------------------------------------------------------------------
(* The decoders of a record.  An output cell holds two symbols.            *)

Packed(lo, hi) == lo + A * hi

\* rans_record_decode_nibbles, and the packing of its scratch.
DecodeGeneric(rec, t, streams) ==
    LET lane == [i \in 0..(streams - 1) |->
                    Decoded(StreamOf(rec, i), Len(SubStream(Zeros(rec.n), i, streams)), t, "loop").out]
        nibble(j) == IF j < rec.n THEN lane[j % streams][j \div streams + 1] ELSE 0
    IN [k \in 0..(PackedCells(rec.n) - 1) |-> Packed(nibble(2 * k), nibble(2 * k + 1))]

\* Mutant: a round is complete when its first lane is.
FullRoundsEarly(n, streams, b, width) == IF n <= b THEN 0 ELSE (n - b - 1) \div streams + 1

FullRounds(n, streams, b, width) == IF n < b + width THEN 0 ELSE (n - b - width) \div streams + 1

\* The lanes of group g: rounds that all take part in, in the form of the
\* kernel, and a tail by the loop for those that have one symbol more.
GroupCells(rec, t, streams, width, renorm, g) ==
    LET b == g * width
        R == FullRounds(rec.n, streams, b, width)
        rest == rec.n - (R * streams + b)
        tail == IF rest <= 0 THEN 0 ELSE IF rest < width THEN rest ELSE width
        lane == [l \in 0..(width - 1) |->
                    (LET More(main) == IF l < tail THEN Lane(main, StreamOf(rec, b + l), t, "loop") ELSE main
                     IN More(Decoded(StreamOf(rec, b + l), R, t, renorm))).out]
        cell(r, i) == (r * streams + b) \div 2 + i
        full == {<<r, i>> : r \in 0..(R - 1), i \in 0..(width \div 2 - 1)}
        last == {<<R, i>> : i \in 0..(tail \div 2 - 1)}
    IN [k \in {cell(p[1], p[2]) : p \in full \cup last} |->
           LET p == CHOOSE q \in full \cup last : cell(q[1], q[2]) = k
           IN Packed(lane[2 * p[2]][p[1] + 1], lane[2 * p[2] + 1][p[1] + 1])]

\* The kernels.
KernelScalar(rec, t, streams, g) == GroupCells(rec, t, streams, Narrow, "loop", g)
KernelScalarBf(rec, t, streams, g) == GroupCells(rec, t, streams, Narrow, "closed", g)
KernelNeon(rec, t, streams, g) == GroupCells(rec, t, streams, Wide, "closed", g)
KernelAvx512(rec, t, streams, g) == GroupCells(rec, t, streams, Wide, "closed", g)

Paths == {"scalar", "scalar_bf", "neon", "avx512"}
GroupWidth(path) == IF path \in {"neon", "avx512"} THEN Wide ELSE Narrow
Groups(rec, streams, path) ==
    IF streams % GroupWidth(path) # 0 \/ rec.n % 2 # 0 THEN 0 ELSE streams \div GroupWidth(path)

Kernel(rec, t, streams, path, g) ==
    CASE path = "scalar" -> KernelScalar(rec, t, streams, g)
      [] path = "scalar_bf" -> KernelScalarBf(rec, t, streams, g)
      [] path = "neon" -> KernelNeon(rec, t, streams, g)
      [] path = "avx512" -> KernelAvx512(rec, t, streams, g)

\* rans_record_decode_packed: the groups may run side by side, so no two
\* of them may write one cell.
DecodePacked(rec, t, streams, path) ==
    LET Joined(parts) == IF \A g, h \in parts : g # h => DOMAIN g \cap DOMAIN h = {}
                         THEN FoldSet(LAMBDA part, all : part @@ all, <<>>, parts) ELSE Failed
    IN IF Groups(rec, streams, path) = 0 THEN DecodeGeneric(rec, t, streams)
       ELSE Joined({Kernel(rec, t, streams, path, g) : g \in 0..(Groups(rec, streams, path) - 1)})

\* rans_path_select: built are the arms of this build and processor, off those
\* switched off, good those whose first use gave back what was encoded.
Available(path, built, off, good) == path \in {"scalar", "scalar_bf"} \/ path \in (built \ off) \cap good
PathOf(asked, built, off, good) ==
    IF asked = "" THEN IF Available("avx512", built, off, good) THEN "avx512"
                       ELSE IF Available("neon", built, off, good) THEN "neon" ELSE "scalar_bf"
    ELSE IF asked \in Paths /\ Available(asked, built, off, good) THEN asked ELSE "invalid"
----------------------------------------------------------------------------
\* A stream gives its symbols back and ends where its encoder began; one that
\* was cut short or lengthened is refused.
StreamRoundTrips(symbols, t) ==
    LET stream == EncodeStream(symbols, t)
    IN /\ DecodeChecked(stream, Len(symbols), t) = symbols
       /\ DecodeStream(stream, Len(symbols), t) = symbols
       /\ \A k \in 0..(Len(stream) - 1) :
              DecodeChecked(SubSeq(stream, 1, k), Len(symbols), t) = Failed
       /\ \A d \in 0..(Radix - 1) : DecodeChecked(Append(stream, d), Len(symbols), t) = Failed

\* A record is accepted as it was written, and every arm gives the same
\* packed bytes.
RecordRoundTrips(symbols, t, streams) ==
    LET nibble(j) == IF j < Len(symbols) THEN symbols[j + 1] ELSE 0
        packed == [k \in 0..(PackedCells(Len(symbols)) - 1) |-> Packed(nibble(2 * k), nibble(2 * k + 1))]
    IN \A rec \in {RecordAt(RecordOf(symbols, t, streams), streams, 8 * M)} :
           /\ rec # Refused
           /\ \A p \in Paths : DecodePacked(rec, t, streams, p) = packed

\* Of any blob: what is accepted keeps every stream, with its state, inside.
AcceptedIsInside(blob, streams) ==
    LET rec == RecordAt(blob, streams, 8 * M)
    IN rec # Refused =>
           \A i \in 0..(streams - 1) :
               /\ Len(StreamOf(rec, i)) >= Digits
               /\ rec.offsets[i + 2] <= Len(rec.payload)
=============================================================================
