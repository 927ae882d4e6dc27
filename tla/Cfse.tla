-------------------------------- MODULE Cfse --------------------------------
(***************************************************************************)
(* The container's coder, c/fse_coli.h: two interleaved states, symbols at *)
(* even places through one and at odd places through the other, in a frame *)
(* that falls back to the bytes themselves.  The sizes are constants, as   *)
(* in Rans; a byte of the input is a pair <<low nibble, high nibble>>, a   *)
(* byte of the payload a digit, and the header is two fields of a record.  *)
(***************************************************************************)
EXTENDS Integers, Sequences, FiniteSets, SequencesExt, FiniteSetsExt

CONSTANTS Radix, Digits, L, A, Scale,
          Table,        \* cells of the frequency table: 32
          Slack         \* room of the output beyond its input: 64

CfseAssumption == L % Scale = 0 /\ L * Radix <= Radix ^ Digits /\ Radix ^ 2 >= Scale /\ Slack > Table

Symbols == 0..(A - 1)
Failed == << <<-1, -1>> >>

SumOf(f, S) == FoldSet(LAMBDA s, sum : sum + f[s], 0, S)
Nibbles(bytes) == FlattenSeq(bytes)
Counts(bytes) == [s \in Symbols |-> Cardinality({i \in 1..(2 * Len(bytes)) : Nibbles(bytes)[i] = s})]
----------------------------------------------------------------------------
Share(count, total, used) ==
    IF count = 0 THEN 0 ELSE Min({Max({1, (count * Scale) \div total}), Scale - (used - 1)})

\* The rest of the rounding goes to the largest share.
Settled(f, used) ==
    LET last == Max(used)
        above == {s \in used : f[s] > f[last]}
        big == IF above = {} THEN last ELSE CHOOSE s \in above : \A r \in above : f[r] < f[s] \/ (f[r] = f[s] /\ s <= r)
        rest == Scale - SumOf(f, Symbols)
    IN IF f[big] + rest < 1 THEN <<>> ELSE [f EXCEPT ![big] = @ + rest]

\* cfse_normalize.
Normalize(count) ==
    LET used == {s \in Symbols : count[s] > 0}
    IN IF used = {} THEN <<>>
       ELSE Settled([s \in Symbols |-> Share(count[s], SumOf(count, Symbols), Cardinality(used))], used)

StartOf(f, s) == SumOf(f, 0..(s - 1))

\* A symbol before those that are encoded; lane is the state it belongs to.
Encoded(e, s, lane, f) ==
    LET top == (L \div Scale) * Radix * f[s]
        k == Min({j \in 0..Digits : e[lane] \div Radix ^ j < top})
        x == e[lane] \div Radix ^ k
        low == [i \in 1..k |-> (e[lane] \div Radix ^ (k - i)) % Radix]
    IN [e EXCEPT ![lane] = (x \div f[s]) * Scale + (x % f[s]) + StartOf(f, s), !.out = low \o @]

LowFirst(x) == [i \in 1..Digits |-> (x \div Radix ^ (i - 1)) % Radix]

\* A frame; in mode 0 it holds the bytes themselves: where there is no room
\* for the payload, and where it is not worth it.
Framed(bytes, f, payload, cap) ==
    LET n == Len(bytes)
    IN IF f = <<>> \/ Len(payload) > cap - Table \/ Table + Len(payload) >= n
       THEN [mode |-> 0, n |-> n, freq |-> <<>>, body |-> bytes]
       ELSE [mode |-> 1, n |-> n, freq |-> f, body |-> payload]

EncodedAll(nibbles, f) ==
    FoldRight(LAMBDA i, acc : Encoded(acc, nibbles[i], IF i % 2 = 1 THEN "a" ELSE "b", f),
              [i \in DOMAIN nibbles |-> i], [a |-> L, b |-> L, out |-> <<>>])
PayloadOf(e) == LowFirst(e.a) \o LowFirst(e.b) \o e.out

\* cfse_compress.
CompressWith(bytes, f, cap) ==
    IF cap < Len(bytes) + Slack THEN [mode |-> -1, n |-> Len(bytes), freq |-> <<>>, body |-> bytes]
    ELSE Framed(bytes, f, IF f = <<>> THEN <<>> ELSE PayloadOf(EncodedAll(Nibbles(bytes), f)), cap)
Compress(bytes, cap) == CompressWith(bytes, IF bytes = <<>> THEN <<>> ELSE Normalize(Counts(bytes)), cap)
----------------------------------------------------------------------------
Value(digits) == FoldRight(LAMBDA d, x : x * Radix + d, digits, 0)

SymbolAt(f, slot) == CHOOSE s \in Symbols : slot >= StartOf(f, s) /\ slot < StartOf(f, s) + f[s]
Stepped(x, f) == LET s == SymbolAt(f, x % Scale)
                 IN [x |-> f[s] * (x \div Scale) + (x % Scale) - StartOf(f, s), s |-> s]

\* Refills of one state: at most two without a look at the end; with one they
\* end at the state's range, or fail.
FastRefills(x) == IF x >= L THEN 0 ELSE IF x * Radix >= L THEN 1 ELSE 2
CheckedRefills(x) == Min({j \in 0..Digits : x * Radix ^ j >= L})

\* A state after its step is refilled; outside says that a read went past
\* the end.
Refilled(d, lane, step, body, fast) ==
    LET k == IF fast THEN FastRefills(step.x) ELSE CheckedRefills(step.x)
    IN IF d.p + k > Len(body)
       THEN [d EXCEPT !.outside = @ \/ fast, !.failed = TRUE]
       ELSE [d EXCEPT ![lane] = FoldLeft(LAMBDA x, c : x * Radix + c, step.x, SubSeq(body, d.p + 1, d.p + k)),
                      !.p = @ + k, !.out = Append(@, step.s)]

\* One nibble.
Lane(d, lane, f, body, fast) == Refilled(d, lane, Stepped(d[lane], f), body, fast)

\* Mutant: two bytes are kept for a pair.
SafePairsTwo(left) == left \div 2

SafePairs(left) == left \div 4

\* The pairs: a stretch that cannot reach the end runs unchecked, and at its
\* end one pair runs checked.
Pair(d, j, n, f, body) ==
    LET safe == SafePairs(Len(body) - d.p)
        stop == IF j < d.stop THEN d.stop ELSE j + Min({n - j, safe})
        fast == j < stop
        first == Lane([d EXCEPT !.stop = stop], "a", f, body, fast)
    IN IF d.failed THEN d ELSE IF first.failed THEN first ELSE Lane(first, "b", f, body, fast)

Sealed(d, body) == d.p = Len(body) /\ d.a = L /\ d.b = L

\* cfse_decompress, into room for cap bytes.
Decoded(frame, cap) ==
    LET begun == [a |-> Value(SubSeq(frame.body, 1, Digits)),
                  b |-> Value(SubSeq(frame.body, Digits + 1, 2 * Digits)),
                  p |-> 2 * Digits, out |-> <<>>, stop |-> 0, failed |-> FALSE, outside |-> FALSE]
    IN FoldLeft(LAMBDA d, j : Pair(d, j - 1, frame.n, frame.freq, frame.body), begun,
                [j \in 1..frame.n |-> j])

Begins(frame) == /\ frame.n > 0 /\ Len(frame.body) >= 2 * Digits
                 /\ SumOf(frame.freq, Symbols) = Scale
                 /\ Value(SubSeq(frame.body, 1, Digits)) >= L
                 /\ Value(SubSeq(frame.body, Digits + 1, 2 * Digits)) >= L

Decompress(frame, cap) ==
    IF frame.n > cap \/ frame.mode \notin {0, 1} THEN Failed
    ELSE IF frame.mode = 0 THEN IF Len(frame.body) = frame.n THEN frame.body ELSE Failed
    ELSE IF ~Begins(frame) THEN Failed
    ELSE LET d == Decoded(frame, cap)
         IN IF d.failed THEN Failed
            ELSE IF ~Sealed(d, frame.body) THEN Failed
            ELSE [j \in 1..frame.n |-> <<d.out[2 * j - 1], d.out[2 * j]>>]
----------------------------------------------------------------------------
\* What is compressed comes back, is never larger than the bytes themselves,
\* and comes back from no frame that was cut short, lengthened, or whose
\* length was changed.
FrameIsSound(frame, bytes) ==
    LET right == [frame |-> frame, cap |-> Len(bytes)]
        cut == {SubSeq(frame.body, 1, k) : k \in 0..(Len(frame.body) - 1)}
        longer == IF frame.mode = 1 THEN {Append(frame.body, d) : d \in 0..(Radix - 1)} ELSE {}
        wrong == {[right EXCEPT !.cap = @ - 1]} \cup {[right EXCEPT !.frame.body = b] : b \in cut \cup longer}
    IN /\ frame.mode >= 0 /\ (frame.mode = 1 => Table + Len(frame.body) < Len(bytes))
       /\ \A try \in {right} \cup wrong :
              Decompress(try.frame, try.cap) = IF try = right THEN bytes ELSE Failed
FrameRoundTrips(bytes) == FrameIsSound(Compress(bytes, Len(bytes) + Slack), bytes)

\* Of any frame: no read passes the end of the input.
ReadsStayInside(frame) == Begins(frame) => ~Decoded(frame, frame.n).outside
=============================================================================
