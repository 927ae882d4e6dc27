----------------------------- MODULE ChunkForward -----------------------------
(***************************************************************************)
(* The forwards of c/kimi_k3.c (step_chunk) and c/inkling.c (step): a      *)
(* chunk of positions goes through the stack layer by layer, while what is *)
(* sequential in a layer (convolution windows, the delta rule's state, the *)
(* rows of the cache) advances position by position inside it.             *)
(* A vector is a number modulo a prime, a matrix product an affine map, a  *)
(* softmax its unnormalised weights: two results agree when the same reads *)
(* and writes were done in the same order.                                 *)
(***************************************************************************)
EXTENDS Integers, Sequences, SequencesExt

CONSTANTS Prime,       \* the modulus
          Taps,        \* conv_k: the width of the convolutions
          Kinds,       \* K3's layers: "kda" or "mla"
          BlockSize,   \* res_bs: layers between two snapshots of the residual
          Locals,      \* Inkling's layers: whether the window is local
          Window, Extent   \* the window; the distances with a bias

ChunkForwardAssumption ==
    /\ Prime \in Nat \ {0} /\ Taps \in Nat \ {0, 1} /\ BlockSize \in Nat \ {0}
    /\ Kinds \in Seq({"kda", "mla"}) /\ Locals \in Seq(BOOLEAN)
    /\ Window \in Nat \ {0} /\ Extent \in Nat

Affine(a, x) == (a * x + 1) % Prime
SumOf(s) == FoldLeft(LAMBDA a, b : (a + b) % Prime, 0, s)
Zeros(n) == [i \in 1..n |-> 0]
Evaluated(s) == s \o <<>>          \* s itself: TLC computes its elements once

----------------------------------------------------------------------------
(* kda_forward: three windows of Taps inputs each, and a state.            *)
Slid(win, x) == Append(Tail(win), x)
Convolved(win) == SumOf([j \in 1..Taps |-> (j + 1) * win[j]])

Delta(s, q, k, v, alpha, beta) ==
    LET decayed == (alpha * s) % Prime
        next == (decayed + k * (((v - k * decayed) % Prime) * beta)) % Prime
    IN [state |-> next, out |-> (q * next) % Prime]

KdaStep(a, x) ==
    LET wq == Slid(a.st.q, Affine(2, x)) wk == Slid(a.st.k, Affine(3, x)) wv == Slid(a.st.v, Affine(5, x))
        d == Delta(a.st.s, Convolved(wq), Convolved(wk), Convolved(wv), Affine(7, x), Affine(11, x))
    IN [st |-> [q |-> wq, k |-> wk, v |-> wv, s |-> d.state],
        out |-> Append(a.out, (d.out * Affine(13, x)) % Prime)]

KdaForward(st, xs) == FoldLeft(KdaStep, [st |-> st, out |-> <<>>], xs)

\* mla_forward: the whole chunk's rows first, then position by position.
\* Mutant: a position sees the chunk's later rows.
VisibleAll(pos0, t, n) == pos0 + n

Visible(pos0, t, n) == pos0 + t

Attend(q, rows, n) == SumOf([t \in 1..n |-> ((q * rows[t] + 1) * rows[t]) % Prime])

MlaForward(st, xs, pos0) ==
    LET rows == SubSeq(st.rows, 1, pos0) \o [t \in DOMAIN xs |-> Affine(17, xs[t])] IN
    [st |-> [rows |-> rows],
     out |-> Evaluated([t \in DOMAIN xs |->
                 (Attend(Affine(19, xs[t]), rows, Visible(pos0, t, Len(xs))) * Affine(23, xs[t])) % Prime])]

Layer(kind, st, xs, pos0) == IF kind = "kda" THEN KdaForward(st, xs) ELSE MlaForward(st, xs, pos0)

\* res_mix, over the snapshots and what was added since the last.
Mixed(prefix, kept, w) == SumOf([e \in 1..(Len(kept) + 1) |->
    LET v == IF e > Len(kept) THEN prefix ELSE kept[e] IN (v * (w * v + 1)) % Prime])

\* moe_forward, dense_forward: position by position (KimiExperts).
Mlp(i, x) == (x * x + i) % Prime

----------------------------------------------------------------------------
(* step_chunk.  kept: per position, the residuals at the block boundaries. *)
Snap(i) == (i - 1) % BlockSize = 0

AfterLayer(f, i, xs, att) ==
    LET kept == Evaluated([t \in DOMAIN xs |-> IF Snap(i) THEN Append(f.kept[t], f.hidden[t]) ELSE f.kept[t]])
        p == Evaluated([t \in DOMAIN xs |-> IF Snap(i) THEN att.out[t] ELSE (f.hidden[t] + att.out[t]) % Prime])
    IN [st |-> [f.st EXCEPT ![i] = att.st], kept |-> kept,
        hidden |-> Evaluated([t \in DOMAIN xs |-> (p[t] + Mlp(i, Mixed(p[t], kept[t], 29))) % Prime])]

LayerInput(f, t) == IF f.kept[t] = <<>> THEN f.hidden[t] ELSE Mixed(f.hidden[t], f.kept[t], 31)

ThroughLayer(f, i, pos0, xs) == AfterLayer(f, i, xs, Layer(Kinds[i], f.st[i], xs, pos0))

StepChunk(st, ids, pos0) ==
    LET f == FoldLeft(LAMBDA g, i : ThroughLayer(g, i, pos0, Evaluated([t \in DOMAIN ids |-> LayerInput(g, t)])),
                      [st |-> st, kept |-> [t \in DOMAIN ids |-> <<>>], hidden |-> ids],
                      [i \in DOMAIN Kinds |-> i])
    IN [st |-> f.st, logits |-> Mixed(f.hidden[Len(ids)], f.kept[Len(ids)], 37)]

\* model_state_reset.
KimiReset == [i \in DOMAIN Kinds |->
    IF Kinds[i] = "kda" THEN [q |-> Zeros(Taps), k |-> Zeros(Taps), v |-> Zeros(Taps), s |-> 0]
    ELSE [rows |-> <<>>]]

----------------------------------------------------------------------------
(* sconv_apply: the history is the Taps - 1 raw inputs before the chunk,   *)
(* and becomes those before the next, which a short chunk leaves in part.  *)
\* Mutant: the history is the tail of the chunk alone.
HistoryOfChunk(hist, xs) ==
    IF Len(xs) < Taps - 1 THEN SubSeq(hist, 1, Taps - 1 - Len(xs)) \o xs
    ELSE SubSeq(xs, Len(xs) - Taps + 2, Len(xs))

HistoryAfter(hist, xs) == SubSeq(hist \o xs, Len(xs) + 1, Len(xs) + Taps - 1)

ShortConv(hist, xs, w) ==
    Evaluated([t \in DOMAIN xs |->
                  (SumOf([j \in 1..Taps |-> (w + j) * (hist \o xs)[t + j - 1]]) + xs[t]) % Prime])

\* attention of Inkling: rows of K and V, a window on local layers, a bias by distance.
FirstSeen(local, pos) == IF local /\ pos - Window + 1 > 1 THEN pos - Window + 1 ELSE 1

InklingAttend(local, k, v, x, pos) ==
    SumOf([d \in 1..(pos - FirstSeen(local, pos) + 1) |->
              LET t == FirstSeen(local, pos) + d - 1 dist == pos - t IN
              (((Affine(2, x) * k[t] + (IF dist < Extent THEN (dist + 1) * Affine(3, x) ELSE 0))
                * (IF local THEN 1 ELSE pos)) * v[t]) % Prime])

Rows(old, pos0, new) == SubSeq(old, 1, pos0) \o new
Added(a, b) == Evaluated([t \in DOMAIN a |-> (a[t] + b[t]) % Prime])

InklingAttention(st, local, xs, pos0, k, v) ==
    LET rk == Rows(st.rk, pos0, k) rv == Rows(st.rv, pos0, v) IN
    [rk |-> rk, rv |-> rv, 
     out |-> Evaluated([s \in DOMAIN xs |-> InklingAttend(local, rk, rv, xs[s], pos0 + s)])]

\* One layer: attention, its convolution, the experts, their convolution.
WithExperts(st, x, tmp) ==
    [x |-> Added(x, ShortConv(st.m, tmp, 13)), st |-> [st EXCEPT !.m = HistoryAfter(@, tmp)]]
WithAttention(st, x, att, i) ==
    LET y == Added(x, ShortConv(st.a, att.out, 11)) IN
    WithExperts([st EXCEPT !.a = HistoryAfter(@, att.out), !.rk = att.rk, !.rv = att.rv],
                y, Evaluated([t \in DOMAIN y |-> Mlp(i, y[t])]))

InklingLayer(st, x, i, pos0, kraw, vraw) ==
    WithAttention([st EXCEPT !.k = HistoryAfter(@, kraw), !.v = HistoryAfter(@, vraw)], x,
                  InklingAttention(st, Locals[i], x, pos0, ShortConv(st.k, kraw, 5), ShortConv(st.v, vraw, 7)), i)

InklingThrough(f, i, pos0) ==
    LET r == InklingLayer(f.st[i], f.x, i, pos0, Evaluated([t \in DOMAIN f.x |-> Affine(17, f.x[t])]),
                          Evaluated([t \in DOMAIN f.x |-> Affine(19, f.x[t])]))
    IN [x |-> r.x, st |-> [f.st EXCEPT ![i] = r.st]]

Step(st, ids, pos0) ==
    LET f == FoldLeft(LAMBDA g, i : InklingThrough(g, i, pos0), [st |-> st, x |-> ids],
                      [i \in DOMAIN Locals |-> i])
    IN [st |-> f.st, logits |-> Affine(37, Last(f.x))]

\* state_reset; the rows are not cleared, each is written before it is read.
InklingReset == [i \in DOMAIN Locals |->
    [k |-> Zeros(Taps - 1), v |-> Zeros(Taps - 1), a |-> Zeros(Taps - 1), m |-> Zeros(Taps - 1),
     rk |-> <<>>, rv |-> <<>>]]

----------------------------------------------------------------------------
(* A prompt is forwarded in chunks of at most n positions; a reply token   *)
(* by token.                                                               *)
Chunk(ids, n, c) == SubSeq(ids, (c - 1) * n + 1, IF c * n < Len(ids) THEN c * n ELSE Len(ids))
ChunksOf(ids, n) == [c \in 1..((Len(ids) + n - 1) \div n) |-> Chunk(ids, n, c)]

KimiRun(ids, n) ==
    FoldLeft(LAMBDA r, chunk : [pos |-> r.pos + Len(chunk), f |-> StepChunk(r.f.st, chunk, r.pos)],
             [pos |-> 0, f |-> [st |-> KimiReset, logits |-> 0]], ChunksOf(ids, n)).f
InklingRun(ids, n) ==
    FoldLeft(LAMBDA r, chunk : [pos |-> r.pos + Len(chunk), f |-> Step(r.f.st, chunk, r.pos)],
             [pos |-> 0, f |-> [st |-> InklingReset, logits |-> 0]], ChunksOf(ids, n)).f

(* step_chunk's comment: sequential state advances per token inside each   *)
(* layer, so a chunk's results are those of one position at a time: the    *)
(* logits and everything the next token will read, for both engines.       *)
ChunksAreInvisible(ids, n) ==
    /\ KimiRun(ids, n) = KimiRun(ids, 1)
    /\ InklingRun(ids, n) = InklingRun(ids, 1)
=============================================================================
