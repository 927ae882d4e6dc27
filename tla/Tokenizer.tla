------------------------------ MODULE Tokenizer ------------------------------
(***************************************************************************)
(* c/tok.h: text to token ids and back.  The text is cut at the added      *)
(* tokens; each stretch between them is cut into pieces by hand-written    *)
(* code that stands for a regular expression (one per family of models);   *)
(* each piece becomes tokens by byte-pair merges.                          *)
(*                                                                         *)
(* A text is a sequence of bytes.  Reference is the regular expression     *)
(* itself, matched by backtracking as a regex engine does.                 *)
(***************************************************************************)
EXTENDS Integers, Sequences, FiniteSets, SequencesExt

CONSTANTS Class,    \* code point -> "upper", "lower", "other", "han", "number", "space"
                    \* or "mark" (tok_unicode.h); the rest are punctuation
          Vocab,    \* piece of text -> id
          Merges,   \* pairs of pieces, the best first; <<>>: the vocabulary ranks
          Added     \* added tokens: [text, id]

----------------------------------------------------------------------------
(* UTF-8, and the map from bytes to printable code points.                 *)

Bits(c, shift, width) == (c \div (2 ^ shift)) % (2 ^ width)

\* u8_next: the code point at i and its length; an invalid byte stands alone.
U8Next(s, i) ==
    LET c == s[i]
        tail(k) == s[i + k] % 64
    IN CASE c \div 32 = 6 /\ i + 1 <= Len(s) -> [cp |-> (c % 32) * 64 + tail(1), n |-> 2]
         [] c \div 16 = 14 /\ i + 2 <= Len(s) -> [cp |-> (c % 16) * 4096 + tail(1) * 64 + tail(2), n |-> 3]
         [] c \div 8 = 30 /\ i + 3 <= Len(s) ->
                [cp |-> (c % 8) * 262144 + tail(1) * 4096 + tail(2) * 64 + tail(3), n |-> 4]
         [] OTHER -> [cp |-> c, n |-> 1]

U8Put(c) ==
    CASE c < 128 -> <<c>>
      [] c >= 128 /\ c < 2048 -> <<192 + c \div 64, 128 + Bits(c, 0, 6)>>
      [] c >= 2048 /\ c < 65536 -> <<224 + c \div 4096, 128 + Bits(c, 6, 6), 128 + Bits(c, 0, 6)>>
      [] OTHER -> <<240 + c \div 262144, 128 + Bits(c, 12, 6), 128 + Bits(c, 6, 6), 128 + Bits(c, 0, 6)>>

\* The code points of a stretch of bytes, each with the bytes it came from.
CodePoints[s \in Seq(0..255)] ==
    IF s = <<>> THEN <<>>
    ELSE LET next == U8Next(s, 1)
         IN <<[cp |-> next.cp, bytes |-> SubSeq(s, 1, next.n)]>> \o CodePoints[SubSeq(s, next.n + 1, Len(s))]

\* tk_build_bytemap and its inverse.
IsPrintable(b) == b \in 33..126 \union 161..172 \union 174..255
ByteToCp(b) == IF IsPrintable(b) THEN b ELSE 256 + Cardinality({x \in 0..(b - 1) : ~IsPrintable(x)})
CpToByte(c) == CHOOSE b \in 0..255 : ByteToCp(b) = c

----------------------------------------------------------------------------
(* The classes.                                                            *)

Of(c, classes) == c \in DOMAIN Class /\ Class[c] \in classes
IsL(c) == Of(c, {"upper", "lower", "other", "han"})
IsN(c) == Of(c, {"number"})
IsS(c) == Of(c, {"space"})
IsHan(c) == Of(c, {"han"})
IsNewline(c) == c \in {10, 13}
IsPunct(c) == ~IsS(c) /\ ~IsL(c) /\ ~IsN(c)

\* S1 and S2: letters that may come before, and in, the lower-case run.
MayLead(c, family) == Of(c, {"upper", "other", "han", "mark"}) /\ (family = "kimi" => ~IsHan(c))
MayFollow(c, family) == Of(c, {"lower", "other", "han", "mark"}) /\ (family = "kimi" => ~IsHan(c))

Lower(c) == IF c \in 65..90 THEN c + 32 ELSE c

----------------------------------------------------------------------------
(* The hand-written matchers.  t is a sequence of code points; a matcher   *)
(* gives the place after its match at i, or i when it does not match.      *)

\* The first place from i on that does not satisfy P.
RunEnd(t, i, P(_)) ==
    CHOOSE j \in i..(Len(t) + 1) :
        /\ j = Len(t) + 1 \/ ~P(t[j])
        /\ \A k \in i..(j - 1) : P(t[k])

\* 's 't 're 've 'm 'll 'd in any case.
Contraction(t, k) ==
    IF k + 1 > Len(t) \/ t[k] # 39 THEN k
    ELSE LET d == Lower(t[k + 1])
             pair == IF k + 2 <= Len(t) THEN <<d, Lower(t[k + 2])>> ELSE <<>>
         IN IF pair \in {<<114, 101>>, <<118, 101>>, <<108, 108>>} THEN k + 3
            ELSE IF d \in {115, 116, 109, 100} THEN k + 2 ELSE k

\* cl100k: one character that is neither a letter, a digit nor a newline may
\* come before the letters.
LettersCl100k(t, i) ==
    LET j == IF IsL(t[i]) THEN i
             ELSE IF ~IsNewline(t[i]) /\ ~IsN(t[i]) /\ i + 1 <= Len(t) THEN i + 1 ELSE 0
    IN IF j # 0 /\ IsL(t[j]) THEN RunEnd(t, j, IsL) ELSE i

\* o2_letters and km_letters: both branches with and without the prefix; the
\* first gives back leading letters until one can follow.
MayPrefix(t, i) == ~IsNewline(t[i]) /\ ~IsL(t[i]) /\ ~IsN(t[i]) /\ i + 1 <= Len(t)
Starts(t, i) == IF MayPrefix(t, i) THEN <<i + 1, i>> ELSE <<i>>

BranchA(t, j, family) ==
    LET lead == RunEnd(t, j, LAMBDA c : MayLead(c, family))
        turns == {s \in j..lead : s <= Len(t) /\ MayFollow(t[s], family)}
    IN IF turns = {} THEN 0
       ELSE Contraction(t, RunEnd(t, CHOOSE s \in turns : \A u \in turns : s >= u,
                                  LAMBDA c : MayFollow(c, family)))

BranchB(t, j, family) ==
    LET lead == RunEnd(t, j, LAMBDA c : MayLead(c, family))
    IN IF lead = j THEN 0
       ELSE Contraction(t, RunEnd(t, lead, LAMBDA c : MayFollow(c, family)))

\* The first end that is past the place i, or what there is otherwise.
FirstPast(ends, i, otherwise) == Head(SelectSeq(ends, LAMBDA e : e > i) \o <<otherwise>>)

Branches(t, starts, i, family) ==
    FirstPast([k \in DOMAIN starts |-> BranchA(t, starts[k], family)]
              \o [k \in DOMAIN starts |-> BranchB(t, starts[k], family)], 0, i)

LettersCased(t, i, family) == Branches(t, Starts(t, i), i, family)

Numbers(t, i) ==
    LET r == RunEnd(t, i, IsN) IN IF r > i + 3 THEN i + 3 ELSE r

Punctuation(t, i, tail(_)) ==
    LET j == IF t[i] = 32 /\ i + 1 <= Len(t) /\ IsPunct(t[i + 1]) THEN i + 1 ELSE i
    IN IF IsPunct(t[j]) THEN RunEnd(t, RunEnd(t, j, IsPunct), tail) ELSE i

\* Mutant: a run of spaces never leaves its last one to what follows.
WholeSpaces(t, i) ==
    LET r == RunEnd(t, i, IsS)
        newlines == {j \in i..(r - 1) : IsNewline(t[j])}
    IN IF newlines # {} THEN (CHOOSE j \in newlines : \A k \in newlines : j >= k) + 1 ELSE r

\* A run of spaces ends after its last newline, or before the character that
\* goes with what follows.
Spaces(t, i) ==
    LET r == RunEnd(t, i, IsS)
        newlines == {j \in i..(r - 1) : IsNewline(t[j])}
    IN IF r = i THEN i
       ELSE IF newlines # {} THEN (CHOOSE j \in newlines : \A k \in newlines : j >= k) + 1
       ELSE IF r <= Len(t) /\ r - 1 > i THEN r - 1
       ELSE IF r <= Len(t) THEN i + 1 ELSE r

\* The alternatives of each family, in their order.
Matches(t, i, family) ==
    CASE family = "cl100k" -> <<Contraction(t, i), LettersCl100k(t, i), Numbers(t, i),
                                Punctuation(t, i, IsNewline), Spaces(t, i)>>
      [] family = "o200k" -> <<LettersCased(t, i, family), Numbers(t, i),
                               Punctuation(t, i, LAMBDA c : IsNewline(c) \/ c = 47), Spaces(t, i)>>
      [] family = "kimi" -> <<RunEnd(t, i, IsHan), LettersCased(t, i, family), Numbers(t, i),
                              Punctuation(t, i, IsNewline), Spaces(t, i)>>

PieceEnd(t, i, family) == FirstPast(Matches(t, i, family), i, i + 1)

Follow(e, from) == <<e>> \o from[e]

\* pretok_chunk: where the pieces of a text end.
PieceEnds(t, family) ==
    LET from[i \in 1..(Len(t) + 1)] ==
            IF i = Len(t) + 1 THEN <<>>
            ELSE Follow(PieceEnd(t, i, family), from)
    IN from[1]

----------------------------------------------------------------------------
(* Byte-pair merges.  A symbol is a stretch of the piece's bytes: the map   *)
(* to printable code points is one to one, so the vocabulary is over bytes. *)

NoRank == 1000

Rank(left, right) ==
    IF Merges = <<>>
    THEN IF left \o right \in DOMAIN Vocab THEN Vocab[left \o right] ELSE NoRank
    ELSE IF \E k \in DOMAIN Merges : Merges[k] = <<left, right>>
         THEN CHOOSE k \in DOMAIN Merges : Merges[k] = <<left, right>>
         ELSE NoRank

\* The place of the pair to merge: the best rank, the leftmost among equals.
BestPair(parts) ==
    LET ranks == [k \in 1..(Len(parts) - 1) |-> Rank(parts[k], parts[k + 1])]
    IN CHOOSE k \in DOMAIN ranks :
           \A j \in DOMAIN ranks : ranks[k] < ranks[j] \/ (ranks[k] = ranks[j] /\ k <= j)

Merged[parts \in Seq(Seq(0..255))] ==
    IF Len(parts) < 2 THEN parts
    ELSE LET k == BestPair(parts)
         IN IF Rank(parts[k], parts[k + 1]) = NoRank THEN parts
            ELSE Merged[SubSeq(parts, 1, k - 1) \o <<parts[k] \o parts[k + 1]>>
                        \o SubSeq(parts, k + 2, Len(parts))]

\* bpe_piece: a piece that is a token is not merged; a symbol without an id
\* is dropped.
BpePiece(piece) ==
    IF piece \in DOMAIN Vocab THEN <<Vocab[piece]>>
    ELSE LET known == SelectSeq(Merged[[k \in DOMAIN piece |-> <<piece[k]>>]],
                                LAMBDA p : p \in DOMAIN Vocab)
         IN [k \in DOMAIN known |-> Vocab[known[k]]]

----------------------------------------------------------------------------
(* tok_encode and tok_decode.                                              *)

\* The pieces of a stretch without added tokens, as bytes.
Cps(chars) == [k \in DOMAIN chars |-> chars[k].cp]
BytesOf(chars) == FlattenSeq([k \in DOMAIN chars |-> chars[k].bytes])
Cut(chars, ends) ==
    [k \in DOMAIN ends |-> BytesOf(SubSeq(chars, IF k = 1 THEN 1 ELSE ends[k - 1], ends[k] - 1))]

Ids(pieces) == FlattenSeq([k \in DOMAIN pieces |-> BpePiece(pieces[k])])
Chunk(s, family) == Ids(Cut(CodePoints[s], PieceEnds(Cps(CodePoints[s]), family)))

AddedAt(s, j) == {a \in Added : /\ j + Len(a.text) - 1 <= Len(s)
                                /\ SubSeq(s, j, j + Len(a.text) - 1) = a.text}

\* The first place where an added token stands, and the longest one there.
Hits(s) == {j \in DOMAIN s : AddedAt(s, j) # {}}
LongestAt(s, j) == CHOOSE a \in AddedAt(s, j) : \A b \in AddedAt(s, j) : Len(a.text) >= Len(b.text)

Encoded(s, family) ==
    LET from[i \in 1..(Len(s) + 1)] ==
            LET hits == {j \in Hits(s) : j >= i}
                j == CHOOSE j \in hits : \A k \in hits : j <= k
            IN Chunk(SubSeq(s, i, IF hits = {} THEN Len(s) ELSE j - 1), family)
               \o (IF hits = {} THEN <<>>
                   ELSE <<LongestAt(s, j).id>> \o from[j + Len(LongestAt(s, j).text)])
    IN from[1]

\* out holds at most max ids; the rest is dropped, one id at a time.
Upto(ids, max) == SubSeq(ids, 1, IF Len(ids) < max THEN Len(ids) ELSE max)
Encode(s, family, max) == Upto(Encoded(s, family), max)

TextOf(id) ==
    IF \E a \in Added : a.id = id THEN (CHOOSE a \in Added : a.id = id).text
    ELSE IF \E p \in DOMAIN Vocab : Vocab[p] = id THEN CHOOSE p \in DOMAIN Vocab : Vocab[p] = id
    ELSE <<>>

Decode(ids) == FlattenSeq([k \in DOMAIN ids |-> TextOf(ids[k])])

----------------------------------------------------------------------------
(* The reference: the regular expressions the comments of tok.h quote, and *)
(* the ends of a match in the order a backtracking engine tries them.      *)

In(test(_), codes) == [op |-> "in", set |-> {c \in codes : test(c)}]
Many(r, least, most) == [op |-> "many", of |-> r, least |-> least, most |-> most]
Then(a, b) == [op |-> "seq", a |-> a, b |-> b]
Or(a, b) == [op |-> "or", a |-> a, b |-> b]
NotBeforeText == [op |-> "not before text"]
Optional(r) == Many(r, 0, 1)
Unbounded == 99

RECURSIVE Ends(_, _, _)
Ends(r, t, i) ==
    LET after(ends, next) == FlattenSeq([k \in DOMAIN ends |-> Ends(next, t, ends[k])])
    IN CASE r.op = "in" -> IF i <= Len(t) /\ t[i] \in r.set THEN <<i + 1>> ELSE <<>>
         [] r.op = "or" -> Ends(r.a, t, i) \o Ends(r.b, t, i)
         [] r.op = "seq" -> after(Ends(r.a, t, i), r.b)
         [] r.op = "many" ->
                (IF r.most = 0 THEN <<>>
                 ELSE after(Ends(r.of, t, i),
                            Many(r.of, IF r.least = 0 THEN 0 ELSE r.least - 1, r.most - 1)))
                \o (IF r.least = 0 THEN <<i>> ELSE <<>>)
         [] r.op = "not before text" -> IF i > Len(t) \/ IsS(t[i]) THEN <<i>> ELSE <<>>

Letter(c, codes) == In(LAMBDA x : Lower(x) = c, codes)
Contractions(codes) ==
    LET pair(a, b) == Then(Letter(a, codes), Letter(b, codes))
        ends == Or(Letter(115, codes), Or(Letter(116, codes), Or(pair(114, 101), Or(pair(118, 101),
                Or(Letter(109, codes), Or(pair(108, 108), Letter(100, codes)))))))
    IN Then(In(LAMBDA x : x = 39, codes), ends)

Regex(family, codes) ==
    LET prefix == Optional(In(LAMBDA x : ~IsNewline(x) /\ ~IsL(x) /\ ~IsN(x), codes))
        lead == In(LAMBDA x : MayLead(x, family), codes)
        follow == In(LAMBDA x : MayFollow(x, family), codes)
        newline == In(IsNewline, codes)
        space == In(IsS, codes)
        tail == IF family = "o200k" THEN In(LAMBDA x : IsNewline(x) \/ x = 47, codes) ELSE newline
        a == Then(prefix, Then(Many(lead, 0, Unbounded),
                  Then(Many(follow, 1, Unbounded), Optional(Contractions(codes)))))
        b == Then(prefix, Then(Many(lead, 1, Unbounded),
                  Then(Many(follow, 0, Unbounded), Optional(Contractions(codes)))))
        words == CASE family = "cl100k" ->
                          Or(Contractions(codes), Then(prefix, Many(In(IsL, codes), 1, Unbounded)))
                   [] family = "o200k" -> Or(a, b)
                   [] family = "kimi" -> Or(Many(In(IsHan, codes), 1, Unbounded), Or(a, b))
        rest == Or(Many(In(IsN, codes), 1, 3),
                Or(Then(Optional(In(LAMBDA x : x = 32, codes)),
                        Then(Many(In(IsPunct, codes), 1, Unbounded), Many(tail, 0, Unbounded))),
                Or(Then(Many(space, 0, Unbounded), Many(newline, 1, Unbounded)),
                Or(Then(Many(space, 1, Unbounded), NotBeforeText),
                   Many(space, 1, Unbounded)))))
    IN Or(words, rest)

EndsBy(r, t) ==
    LET from[i \in 1..(Len(t) + 1)] ==
            IF i = Len(t) + 1 THEN <<>> ELSE Follow(Head(Ends(r, t, i)), from)
    IN from[1]

RegexEnds(t, family) == EndsBy(Regex(family, Range(t)), t)

----------------------------------------------------------------------------

\* The pieces a hand-written matcher cuts (with its order of alternatives,
\* its give-back of upper-case letters and of the last space) are the pieces
\* of the regular expression the model was trained with.
PiecesAreTheRegex(s, family) ==
    \E t \in {Cps(CodePoints[s])} : PieceEnds(t, family) = RegexEnds(t, family)

\* Encoding loses nothing: the ids decode to the text, also when it is not
\* valid UTF-8; an output that is too small keeps the first ids.
EncodingIsExact(s, family) ==
    \E ids \in {Encode(s, family, Len(s))} :
        /\ Decode(ids) = s
        /\ \A max \in 0..Len(ids) : IsPrefix(Encode(s, family, max), ids)

\* Every code point in a text's byte image comes back.
BytesRoundTrip(codes) ==
    /\ \A c \in codes : U8Next(U8Put(c), 1) = [cp |-> c, n |-> Len(U8Put(c))]
    /\ LET image == {ByteToCp(b) : b \in 0..255}
       IN Cardinality(image) = 256 /\ image \subseteq 0..1023
=============================================================================
