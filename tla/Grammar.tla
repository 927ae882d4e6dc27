------------------------------- MODULE Grammar -------------------------------
(***************************************************************************)
(* c/grammar.h and c/schema_gbnf.h: drafts from a grammar.  A GBNF text    *)
(* (here: its tokens) is parsed into rules, alternates and symbols; a      *)
(* walker follows the reply byte by byte with a set of stacks, and         *)
(* proposes the bytes that must come next.                                 *)
(*                                                                         *)
(* A grammar is given by its syntax tree, printed to tokens and parsed as  *)
(* the code does; the reference is the language of the tree (Language).    *)
(***************************************************************************)
EXTENDS Integers, Sequences, FiniteSets, SequencesExt, FiniteSetsExt

CONSTANTS Bytes,
          Sources,     \* sequence of [tokens, language, wellformed, followed]: a text, its
                       \* meaning, and the beginnings of replies that are followed
          MaxRules, MaxStacks, MaxDepth, MaxNesting, MaxDraft

VARIABLE walk    \* source, grammar, stacks, alive, text, last

----------------------------------------------------------------------------
(* Rules.  A symbol is a class of bytes, or a reference when ref # 0.      *)

Class(bytes) == [ref |-> 0, bytes |-> bytes]
Reference(rule) == [ref |-> rule, bytes |-> {}]

NoGrammar == [names |-> <<>>, alts |-> <<>>]
RuleOf(g, name) == {r \in DOMAIN g.names : g.names[r] = name /\ name # "$"}
WithRule(g, name) == [names |-> Append(g.names, name), alts |-> Append(g.alts, <<>>)]
IsFull(g) == Len(g.names) >= MaxRules

NewAlternate(g, r) == [g EXCEPT !.alts[r] = Append(@, <<>>)]
Current(g, r) == Last(g.alts[r])
PushAll(g, r, symbols) == [g EXCEPT !.alts[r] = Front(@) \o <<Last(@) \o symbols>>]
Push(g, r, symbol) == PushAll(g, r, <<symbol>>)

\* gr__postfix: the item becomes a rule, its repetition a second one.
Repeated(g, r, item, op) ==
    LET whole == Current(g, r)
        symbols == SubSeq(whole, item + 1, Len(whole))
        once == Len(g.names) + 1
        again == once + 1
        made == WithRule(WithRule([g EXCEPT !.alts[r] = Front(@) \o <<SubSeq(whole, 1, item)>>], "$"), "$")
        more == <<Reference(once)>> \o (IF op = "?" THEN <<>> ELSE <<Reference(again)>>)
        done == IF op = "+" THEN <<Reference(once)>> ELSE <<>>
    IN Push([made EXCEPT !.alts[once] = <<symbols>>, !.alts[again] = <<more, done>>],
            r, Reference(again))

----------------------------------------------------------------------------
(* gr_parse.  The open rule and groups are a stack, the innermost last;    *)
(* item is where the last item began, -1 when no postfix may follow.       *)

Fresh == [g |-> NoGrammar, open |-> <<>>, item |-> -1, error |-> FALSE]
Failed(p) == [p EXCEPT !.error = TRUE]

BeginRule(p, name) ==
    LET known == RuleOf(p.g, name)
        g == IF known = {} THEN WithRule(p.g, name) ELSE p.g
        r == IF known = {} THEN Len(g.names) ELSE CHOOSE x \in known : TRUE
    IN IF Len(p.open) > 1 \/ (known = {} /\ IsFull(p.g)) \/ (known # {} /\ g.alts[r] # <<>>)
       THEN Failed(p)
       ELSE [p EXCEPT !.g = NewAlternate(g, r), !.open = <<r>>, !.item = -1]

Item(p, g, symbols) ==
    LET r == Last(p.open)
    IN [p EXCEPT !.g = PushAll(g, r, symbols), !.item = Len(Current(p.g, r))]

Mention(p, name) ==
    LET known == RuleOf(p.g, name)
    IN IF known # {} THEN Item(p, p.g, <<Reference(CHOOSE x \in known : TRUE)>>)
       ELSE IF IsFull(p.g) THEN Failed(p)
       ELSE Item(p, WithRule(p.g, name), <<Reference(Len(p.g.names) + 1)>>)

OpenGroup(p) ==
    LET r == Len(p.g.names) + 1
    IN IF IsFull(p.g) \/ Len(p.open) > MaxNesting THEN Failed(p)
       ELSE [p EXCEPT !.g = NewAlternate(WithRule(p.g, "$"), r), !.open = Append(@, r), !.item = -1]

CloseGroup(p) ==
    IF Len(p.open) < 2 THEN Failed(p)
    ELSE Item([p EXCEPT !.open = Front(@)], p.g, <<Reference(Last(p.open))>>)

Postfix(p, op) ==
    LET r == Last(p.open)
    IN CASE p.item = -1 -> Failed(p)
         [] p.item # -1 /\ Len(Current(p.g, r)) = p.item -> [p EXCEPT !.item = -1]
         [] p.item # -1 /\ Len(Current(p.g, r)) # p.item ->
                IF Len(p.g.names) + 2 > MaxRules THEN Failed(p)
                ELSE [p EXCEPT !.g = Repeated(p.g, r, p.item, op), !.item = -1]

Token(p, token) ==
    IF p.error \/ (p.open = <<>> /\ token[1] # "rule") THEN Failed(p)
    ELSE CASE token[1] = "rule" -> BeginRule(p, token[2])
           [] token[1] = "ref" -> Mention(p, token[2])
           [] token[1] = "lit" -> Item(p, p.g, [k \in DOMAIN token[2] |-> Class({token[2][k]})])
           [] token[1] = "cls" -> Item(p, p.g, <<Class(token[2])>>)
           [] token[1] = "(" -> OpenGroup(p)
           [] token[1] = ")" -> CloseGroup(p)
           [] token[1] = "|" -> [p EXCEPT !.g = NewAlternate(@, Last(p.open)), !.item = -1]
           [] token[1] = "post" -> Postfix(p, token[2])

Parse(tokens) ==
    LET p == FoldLeft(Token, Fresh, tokens)
    IN IF \/ Len(p.open) > 1
          \/ RuleOf(p.g, "root") = {}
          \/ \E r \in DOMAIN p.g.alts : p.g.alts[r] = <<>>
       THEN Failed(p) ELSE p

----------------------------------------------------------------------------
(* The walker.  A stack is a sequence of places <<rule, alternate, symbol>>*)
(* the innermost last.                                                     *)

At(g, place) == g.alts[place[1]][place[2]]
SymbolAt(g, place) == At(g, place)[place[3]]
Stepped(stack) == Front(stack) \o <<<<Last(stack)[1], Last(stack)[2], Last(stack)[3] + 1>>>>

\* What a stack that went too deep is replaced by.
Overflow == <<<<0, 0, 0>>>>

\* Mutant: an exhausted alternate ends the parse, as if nothing was below it.
RECURSIVE NormalTop(_, _, _)
NormalTop(g, stack, depth) ==
    IF stack = <<>> \/ Last(stack)[3] > Len(At(g, Last(stack))) THEN {<<>>}
    ELSE IF SymbolAt(g, Last(stack)).ref = 0 THEN {stack}
    ELSE IF depth >= MaxDepth \/ Len(stack) >= MaxDepth THEN {Overflow}
    ELSE LET rule == SymbolAt(g, Last(stack)).ref
         IN UNION {NormalTop(g, Append(Stepped(stack), <<rule, a, 1>>), depth + 1) :
                       a \in DOMAIN g.alts[rule]}

\* gr__normalize: on top of every stack is a class of bytes, or it is empty.
RECURSIVE Normal(_, _, _)
Normal(g, stack, depth) ==
    IF stack = <<>> THEN {<<>>}
    ELSE IF Last(stack)[3] > Len(At(g, Last(stack))) THEN Normal(g, Front(stack), depth)
    ELSE IF SymbolAt(g, Last(stack)).ref = 0 THEN {stack}
    ELSE IF depth >= MaxDepth \/ Len(stack) >= MaxDepth THEN {Overflow}
    ELSE LET rule == SymbolAt(g, Last(stack)).ref
         IN UNION {Normal(g, Append(Stepped(stack), <<rule, a, 1>>), depth + 1) :
                       a \in DOMAIN g.alts[rule]}

Fits(stacks) == Overflow \notin stacks /\ Cardinality(stacks) <= MaxStacks
NormalAll(g, stacks) == UNION {Normal(g, k, 0) : k \in stacks}

\* gr_state_init
Start(g) ==
    LET root == CHOOSE r \in RuleOf(g, "root") : TRUE
        normal == NormalAll(g, {<<<<root, a, 1>>>> : a \in DOMAIN g.alts[root]})
    IN IF Fits(normal) THEN [alive |-> TRUE, stacks |-> normal] ELSE [alive |-> FALSE, stacks |-> {}]

Allows(g, stack) == IF stack = <<>> THEN {} ELSE SymbolAt(g, Last(stack)).bytes

\* gr_accept: a byte that no stack allows leaves the walker as it was; an
\* overflow turns it off.
After(g, w, normal) ==
    CASE ~Fits(normal) -> [w |-> [w EXCEPT !.alive = FALSE], result |-> "off"]
      [] normal = {} -> [w |-> w, result |-> "refused"]
      [] OTHER -> [w |-> [w EXCEPT !.stacks = normal], result |-> "taken"]
Accepted(g, w, b) ==
    IF ~w.alive THEN [w |-> w, result |-> "off"]
    ELSE After(g, w, NormalAll(g, {Stepped(k) : k \in {k \in w.stacks : b \in Allows(g, k)}}))

\* gr_admissible
Admissible(g, w) == UNION {Allows(g, k) : k \in w.stacks}
CanEnd(w) == <<>> \in w.stacks

\* Mutant: a draft goes on where the reply may end.
ForcedPastTheEnd(g, w, max) ==
    LET go[n \in 0..max] ==
            LET from == IF n = 0 THEN [w |-> w, out |-> <<>>, on |-> w.alive] ELSE go[n - 1]
                next == Admissible(g, from.w)
                b == CHOOSE b \in next : TRUE
                step == Accepted(g, from.w, b)
            IN IF n = 0 \/ ~from.on THEN from
               ELSE IF Cardinality(next) # 1 THEN [from EXCEPT !.on = FALSE]
               ELSE IF step.result # "taken" THEN [from EXCEPT !.on = FALSE]
               ELSE [w |-> step.w, out |-> Append(from.out, b), on |-> TRUE]
    IN go[max].out

\* gr_forced: while there is one byte to choose and the reply may not end.
Forced(g, w, max) ==
    LET go[n \in 0..max] ==
            LET from == IF n = 0 THEN [w |-> w, out |-> <<>>, on |-> w.alive] ELSE go[n - 1]
                next == Admissible(g, from.w)
                b == CHOOSE b \in next : TRUE
                step == Accepted(g, from.w, b)
            IN IF n = 0 \/ ~from.on THEN from
               ELSE IF Cardinality(next) # 1 \/ CanEnd(from.w) THEN [from EXCEPT !.on = FALSE]
               ELSE IF step.result # "taken" THEN [from EXCEPT !.on = FALSE]
               ELSE [w |-> step.w, out |-> Append(from.out, b), on |-> TRUE]
    IN go[max].out

----------------------------------------------------------------------------
(* Steps: a grammar was loaded, or refused; then a reply is followed.      *)

Source == Sources[walk.source]
Walker == [alive |-> walk.alive, stacks |-> walk.stacks]

Loaded(source) ==
    LET p == Parse(Sources[source].tokens)
        start == IF p.error THEN [alive |-> FALSE, stacks |-> {}] ELSE Start(p.g)
    IN [source |-> source, loaded |-> ~p.error, g |-> IF p.error THEN NoGrammar ELSE p.g,
        alive |-> start.alive, stacks |-> start.stacks, text |-> <<>>]

Init == walk \in {Loaded(source) : source \in DOMAIN Sources}

Feed(b) ==
    /\ walk.alive
    /\ LET step == Accepted(walk.g, Walker, b)
       IN /\ step.result = "taken" => Append(walk.text, b) \in Source.followed
          /\ walk' = [walk EXCEPT !.alive = step.w.alive, !.stacks = step.w.stacks,
                                  !.text = IF step.result = "taken" THEN Append(@, b) ELSE @]

Next == \E b \in Bytes : Feed(b)

Spec == Init /\ [][Next]_walk

----------------------------------------------------------------------------

TypeOK ==
    /\ walk.source \in DOMAIN Sources /\ walk.loaded \in BOOLEAN /\ walk.alive \in BOOLEAN
    /\ walk.text \in Seq(Bytes)
    /\ Cardinality(walk.stacks) <= MaxStacks
    /\ \A k \in walk.stacks : Len(k) <= MaxDepth

StartsWith(w, start) == Len(w) >= Len(start) /\ SubSeq(w, 1, Len(start)) = start

\* What the sentences that begin with the text go on with.
Onward ==
    {SubSeq(w, Len(walk.text) + 1, Len(w)) :
        w \in {w \in Source.language : StartsWith(w, walk.text)}}

\* While the walker is on it knows the grammar exactly: the bytes it allows
\* after the text are those that some sentence has there, the text may end
\* iff it is a sentence; and every sentence goes on with the bytes of the
\* draft, so a draft is refused only when the reply leaves the grammar.
FollowsTheGrammar ==
    walk.alive =>
        LET onward == Onward
            draft == Forced(walk.g, Walker, MaxDraft)
        IN /\ Admissible(walk.g, Walker) = {w[1] : w \in onward \ {<<>>}}
           /\ CanEnd(Walker) <=> <<>> \in onward
           /\ \A w \in onward : StartsWith(w, draft)

\* A grammar that means nothing (a rule without a body, a bracket left open,
\* a repetition of nothing) is refused, one that means something is loaded.
OnlyGrammarsLoad ==
    walk.loaded <=> Source.wellformed

DraftsFollowTheGrammar == FollowsTheGrammar /\ OnlyGrammarsLoad
=============================================================================
