---------------------------- MODULE ReplyStream ----------------------------
(***************************************************************************)
(* What a client sees of a reply that arrives in pieces                    *)
(* (c/openai_server.py): the incremental decoder of Engine.generate, then  *)
(* StopFilter, then ThinkingStreamSplit or InklingStreamSplit, then the    *)
(* buffer that keeps tool calls out of the content.                        *)
(*                                                                         *)
(* Text is a sequence of characters.  E1 and E2 are the two bytes of the   *)
(* character E; the engine's frames may part them.                         *)
(***************************************************************************)
EXTENDS Naturals, Sequences, SequencesExt, FiniteSetsExt

CONSTANTS Open, Close,      \* <think>, </think>
          InkThink, InkText, InkEnd,  \* the markers of Inkling; InkEnd, any other
          Box,              \* <tool_call>
          Space, E, E1, E2, Bad,
          Requests,         \* records [kind, stops, ignore, thinking]
          Replies,          \* what the engine may say, for each kind
          MaxChunk          \* bytes of a DATA frame

VARIABLE reply

vars == <<reply>>

Init ==
    \E req \in Requests : \E bytes \in Replies[req.kind] :
        reply = [req |-> req, bytes |-> bytes, at |-> 0, over |-> FALSE,
                 half |-> FALSE,                                      \* decoder
                 pending |-> <<>>, matched |-> FALSE, useful |-> FALSE, \* StopFilter
                 buf |-> <<>>, thinking |-> req.thinking,               \* splitter
                 held |-> <<>>, tool |-> FALSE, raw |-> <<>>,           \* tool buffer
                 reasoning |-> <<>>, content |-> <<>>,                  \* sent
                 visible |-> <<>>]                                      \* history

From(text, i) == SubSeq(text, i, Len(text))
Starts(text, i, m) == i + Len(m) - 1 <= Len(text) /\ SubSeq(text, i, i + Len(m) - 1) = m
Hits(text, ms) == {<<i, m>> \in (1..Len(text)) \X ms : Starts(text, i, m)}
FirstHit(text, ms) == CHOOSE h \in Hits(text, ms) : \A g \in Hits(text, ms) : h[1] <= g[1]
IsBlank(text) == \A i \in DOMAIN text : text[i] = Space

\* Mutant: half a marker is shown.
HoldNothing(text, ms) == 0

\* The longest proper prefix of a marker that the text ends in.
Hold(text, ms) ==
    Max({0} \cup {n \in 1..Len(text) : \E m \in ms :
                    n < Len(m) /\ IsPrefix(SubSeq(text, Len(text) - n + 1, Len(text)), m)})

\* Mutant: the held tail is one shorter.
FeedShort(r, piece) ==
    LET text == r.held \o piece
        flush == Max({0, Len(text) - (Len(Box) - 2)})
        said == [r EXCEPT !.raw = @ \o piece]
    IN IF r.req.kind # "tools" THEN [r EXCEPT !.content = @ \o piece]
       ELSE IF r.tool THEN said
       ELSE IF Hits(text, {Box}) # {}
       THEN [said EXCEPT !.content = @ \o SubSeq(text, 1, FirstHit(text, {Box})[1] - 1),
                         !.held = <<>>, !.tool = TRUE]
       ELSE [said EXCEPT !.content = @ \o SubSeq(text, 1, flush), !.held = From(text, flush + 1)]

----------------------------------------------------------------------------
(* The tool buffer (feed_content): a marker's length less one is held.     *)
Feed(r, piece) ==
    LET text == r.held \o piece
        flush == Max({0, Len(text) - (Len(Box) - 1)})
        said == [r EXCEPT !.raw = @ \o piece]
    IN IF r.req.kind # "tools" THEN [r EXCEPT !.content = @ \o piece]
       ELSE IF r.tool THEN said
       ELSE IF Hits(text, {Box}) # {}
       THEN [said EXCEPT !.content = @ \o SubSeq(text, 1, FirstHit(text, {Box})[1] - 1),
                         !.held = <<>>, !.tool = TRUE]
       ELSE [said EXCEPT !.content = @ \o SubSeq(text, 1, flush), !.held = From(text, flush + 1)]

RECURSIVE Without(_, _)
Without(text, m) ==
    IF Hits(text, {m}) = {} THEN text
    ELSE LET i == FirstHit(text, {m})[1]
         IN SubSeq(text, 1, i - 1) \o Without(From(text, i + Len(m)), m)

\* _emit of both splitters.
Emit(r, piece) ==
    LET text == IF r.req.kind = "inkling" THEN Without(piece, InkEnd) ELSE piece
    IN IF text = <<>> THEN r
       ELSE IF r.thinking THEN [r EXCEPT !.reasoning = @ \o text]
       ELSE Feed(r, text)

Markers(r) == IF r.req.kind = "inkling" THEN {InkThink, InkText} ELSE {Open, Close}

Thinking(r, m) ==
    IF r.req.kind = "inkling" THEN m = InkThink ELSE r.thinking /\ m # Close

RECURSIVE Split(_)
Split(r) ==
    LET hit == FirstHit(r.buf, Markers(r))
        flush == Len(r.buf) - Hold(r.buf, Markers(r))
    IN IF Hits(r.buf, Markers(r)) = {}
       THEN [Emit(r, SubSeq(r.buf, 1, flush)) EXCEPT !.buf = From(@, flush + 1)]
       ELSE Split([Emit(r, SubSeq(r.buf, 1, hit[1] - 1)) EXCEPT
                     !.buf = From(@, hit[1] + Len(hit[2])), !.thinking = Thinking(r, hit[2])])

SplitFeed(r, piece) ==
    IF r.req.kind = "plain" THEN Feed(r, piece) ELSE Split([r EXCEPT !.buf = @ \o piece])

SplitFinish(r) == [Emit(r, r.buf) EXCEPT !.buf = <<>>]

----------------------------------------------------------------------------
(* StopFilter.                                                             *)

Show(r, piece) ==
    IF piece = <<>> THEN r
    ELSE SplitFeed([r EXCEPT !.useful = @ \/ ~IsBlank(piece), !.visible = @ \o piece], piece)

Stops(r) == ToSet(r.req.stops)

RECURSIVE StopFeed(_, _)
StopFeed(r, text) ==
    LET hits == Hits(text, Stops(r))
        i == FirstHit(text, Stops(r))[1]
        \* of two that start together, the one listed first
        stop == r.req.stops[Min({n \in DOMAIN r.req.stops : <<i, r.req.stops[n]>> \in hits})]
        before == SubSeq(text, 1, i - 1)
        flush == Len(text) - Hold(text, Stops(r))
    IN IF hits = {}
       THEN [Show(r, SubSeq(text, 1, flush)) EXCEPT !.pending = From(text, flush + 1)]
       ELSE IF r.req.ignore /\ ~r.useful /\ IsBlank(before)
       THEN LET after == From(text, i + Len(stop)) IN IF after = <<>> THEN r ELSE StopFeed(r, after)
       ELSE [Show(r, before) EXCEPT !.matched = TRUE]

OnText(r, text) ==
    IF text = <<>> \/ r.matched THEN r ELSE StopFeed([r EXCEPT !.pending = <<>>], r.pending \o text)

StopFinish(r) ==
    [(IF r.matched THEN r ELSE Show(r, r.pending)) EXCEPT !.pending = <<>>]

----------------------------------------------------------------------------
(* Engine.generate: the incremental decoder, and the frames.               *)

RECURSIVE Decode(_, _)
Decode(half, bytes) ==
    IF bytes = <<>> THEN [text |-> <<>>, half |-> half]
    ELSE LET b == Head(bytes)
             rest == Decode(b = E1, From(bytes, 2))
             lead == IF half /\ b # E2 THEN <<Bad>> ELSE <<>>
             char == IF b = E1 THEN <<>> ELSE IF b # E2 THEN <<b>>
                     ELSE IF half THEN <<E>> ELSE <<Bad>>
         IN [rest EXCEPT !.text = lead \o char \o @]

Data(n) ==
    /\ ~reply.over /\ reply.at + n <= Len(reply.bytes)
    /\ LET decoded == Decode(reply.half, SubSeq(reply.bytes, reply.at + 1, reply.at + n))
           next == [reply EXCEPT !.at = @ + n]
       \* once a stop is matched, STOP is sent and the data that still comes is dropped
       IN reply' = IF reply.matched THEN next
                   ELSE OnText([next EXCEPT !.half = decoded.half], decoded.text)

\* The end of the pipeline, in the order the handler calls it.
Done ==
    /\ ~reply.over /\ reply.at = Len(reply.bytes)
    /\ LET tail == OnText(reply, IF reply.half THEN <<Bad>> ELSE <<>>)
           stopped == StopFinish(tail)
           split == IF reply.req.kind = "plain" THEN stopped ELSE SplitFinish(stopped)
       IN reply' = [split EXCEPT !.over = TRUE, !.content = @ \o split.held, !.held = <<>>]

Next == Done \/ \E n \in 1..MaxChunk : Data(n)

Spec == Init /\ [][Next]_vars

----------------------------------------------------------------------------
TypeOK ==
    /\ reply.at \in 0..Len(reply.bytes)
    /\ reply.useful => reply.visible # <<>>

\* The whole reply, read at once.
Whole == LET d == Decode(FALSE, reply.bytes) IN d.text \o (IF d.half THEN <<Bad>> ELSE <<>>)

RECURSIVE Trim(_)
Trim(text) == IF text # <<>> /\ Head(text) = Space THEN Trim(From(text, 2)) ELSE text

RECURSIVE DropLeading(_)
DropLeading(text) ==
    LET t == Trim(text)
        lead == {n \in DOMAIN reply.req.stops : Starts(t, 1, reply.req.stops[n])}
    IN IF ~reply.req.ignore \/ lead = {} THEN text
       ELSE DropLeading(From(t, 1 + Len(reply.req.stops[Min(lead)])))

Same(a, b) == IF reply.req.ignore THEN Trim(a) = Trim(b) ELSE a = b

(* All of the reply is shown when no stop is matched; else what comes      *)
(* before one.  No stop is ever shown, however it was cut into frames.     *)
StopsAreExact ==
    LET body == DropLeading(Whole) IN
    /\ Hits(reply.visible, Stops(reply)) = {}
    /\ reply.over =>
        IF reply.matched
        THEN \E h \in Hits(body, Stops(reply)) : Same(reply.visible, SubSeq(body, 1, h[1] - 1))
        ELSE Same(reply.visible, body)

\* The reasoning and the answer of a text, a character at a time.
RECURSIVE Reference(_, _)
Reference(thinking, text) ==
    LET all == Markers(reply) \cup (IF reply.req.kind = "inkling" THEN {InkEnd} ELSE {})
        here == {m \in all : Starts(text, 1, m)}
        m == CHOOSE x \in here : TRUE
    IN IF text = <<>> THEN <<<<>>, <<>>>>
       ELSE IF here # {}
       THEN Reference(IF m = InkEnd THEN thinking ELSE Thinking([reply EXCEPT !.thinking = thinking], m),
                      From(text, 1 + Len(m)))
       ELSE LET rest == Reference(thinking, From(text, 2))
            IN IF thinking THEN <<<<Head(text)>> \o rest[1], rest[2]>>
                           ELSE <<rest[1], <<Head(text)>> \o rest[2]>>

UpToBox(text) ==
    IF Hits(text, {Box}) = {} THEN text ELSE SubSeq(text, 1, FirstHit(text, {Box})[1] - 1)

Unmarked(text) == IF reply.req.kind = "inkling" THEN Without(text, InkEnd) ELSE text

(* The streamed reply is split as the whole text would be.  A marker of    *)
(* Inkling other than those of the split may show when it was cut, and is  *)
(* disregarded here.                                                       *)
SplitIsExact ==
    reply.over =>
        LET parts == IF reply.req.kind = "plain" THEN <<<<>>, reply.visible>>
                     ELSE Reference(reply.req.thinking, reply.visible)
        IN /\ Unmarked(reply.reasoning) = parts[1]
           /\ IF reply.req.kind = "tools"
              THEN reply.raw = parts[2] /\ reply.content = UpToBox(parts[2])
              ELSE Unmarked(reply.content) = parts[2]

ReplyIsWhole == StopsAreExact /\ SplitIsExact
=============================================================================
