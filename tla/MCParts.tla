------------------------------- MODULE MCParts -------------------------------
(* Parts of the program that share no state while they are modelled here,  *)
(* the ring of prefetch hints, batches of reads, decoding, the hot store   *)
(* and the balancer by extension and each other part on an instance of its *)
(* own.  The initial state chooses one part; the variables of the others   *)
(* stay as they are.                                                       *)
EXTENDS PilotRing, SpecTurns, HotStore, Balancer, UringBatch, Integers, FiniteSets, TLC

VARIABLES part,
          reply,
          env, slab, load, stopped, fault,
          walk,
          job

----------------------------------------------------------------------------
(* Expert loads, the hot store.                                            *)

Tensor(f, o, n) == [file |-> f, off |-> o, n |-> n]
TensorSets ==
    ("whole" :> [w |-> <<Tensor("A", 3, 1), Tensor("A", 4, 1), Tensor("A", 5, 1)>>,
                 q |-> <<Tensor("A", 0, 1), Tensor("A", 1, 1), Tensor("A", 2, 1)>>])
    @@ ("large" :> [w |-> <<Tensor("A", 20, 3), Tensor("A", 16, 4), Tensor("A", 13, 3)>>,
                    q |-> <<Tensor("B", 0, 1), Tensor("B", 1, 2), Tensor("B", 3, 1)>>])
    @@ ("split" :> [w |-> <<Tensor("A", 8, 1), Tensor("B", 8, 2), Tensor("B", 4, 1)>>,
                    q |-> <<Tensor("A", 12, 1), Tensor("B", 12, 1), Tensor("B", 16, 1)>>])
    @@ ("lost" :> [w |-> <<Tensor("A", 0, 1)>>, q |-> <<Tensor("A", 1, 1)>>])
    @@ ("plain" :> [w |-> <<Tensor("B", 0, 4), Tensor("B", 4, 4), Tensor("B", 8, 4)>>, q |-> <<>>])
FileSizes == ("A" :> 23) @@ ("B" :> 17)

Load == INSTANCE ExpertLoad WITH
    slot <- slab, exited <- stopped, Experts <- DOMAIN TensorSets, Layout <- TensorSets,
    FileSize <- FileSizes, Block <- 4, Slack <- 8, StripeMin <- 8, MaxCalls <- 2

OneEach == [d \in Devices |-> 1]

----------------------------------------------------------------------------
(* Turns, replies, the balancer.                                           *)

SomeTokens == {1, 2}
SomeModels == {<<{2}, {1}>>, <<{2}, {0}>>, <<{1, 2}, {0, 1}>>}
SomePrompts == {<<>>, <<1, 2>>, <<1, 2, 1>>, <<2, 1, 1>>}

Think == <<"<", "o">>
EndThink == <<"<", "c">>
ToolCall == <<"<", "b", "b">>
Marker(kind) == <<"<", "|", kind>>

Up(n, pieces) == {FlattenSeq(s) : s \in UNION {[1..k -> pieces] : k \in 0..n}}
ReplyTexts ==
    ("plain" :> Up(3, {<<"_">>, <<"E1", "E2">>, <<"E1">>, <<"<">>, EndThink, <<"x">>}))
    @@ ("think" :> Up(3, {Think, EndThink, <<"E1", "E2">>, <<"<">>, <<"x">>}))
    @@ ("tools" :> Up(3, {ToolCall, Think, EndThink, <<"<">>, <<"b">>, <<"x">>}))
    @@ ("inkling" :> Up(4, {Marker("t"), Marker("x"), Marker("e"), <<"x">>}))
Request(kind, stops, ignore, thinking) ==
    [kind |-> kind, stops |-> stops, ignore |-> ignore, thinking |-> thinking]
ReplyRequests ==
    {Request(kind, <<>>, FALSE, thinking) : kind \in {"think", "tools", "inkling"}, thinking \in BOOLEAN}
    \cup {Request("plain", stops, ignore, FALSE) :
              stops \in {<<>>, <<<<"<", "c">>, <<"x", "x">>>>, <<<<"x">>, <<"E", "_">>>>}, ignore \in BOOLEAN}

Stream == INSTANCE ReplyStream WITH
    Open <- Think, Close <- EndThink, InkThink <- Marker("t"), InkText <- Marker("x"),
    InkEnd <- Marker("e"), Box <- ToolCall, Space <- "_", E <- "E", E1 <- "E1", E2 <- "E2",
    Bad <- "?", Requests <- ReplyRequests, Replies <- ReplyTexts, MaxChunk <- 3

TwoBackends == <<"x", "y">>

----------------------------------------------------------------------------
(* Drafts from a grammar.  The texts are grammars printed from syntax      *)
(* trees or compiled from schemas, with the words they mean, and token     *)
(* strings that mean nothing.                                              *)

Schema == INSTANCE SchemaGrammar WITH MaxSchemaDepth <- 2

----------------------------------------------------------------------------
(* What a grammar means, for Grammar to be compared with.  A syntax tree   *)
(* is <<"lit", bytes>>, <<"cls", set>>, <<"ref", rule>>, <<"seq", t, t>>,  *)
(* <<"or", t, t>>, or <<op, t>> with one of the operators ?, * and +; a    *)
(* grammar is a function from the names of its rules to trees.  The words  *)
(* are those of at most n bytes.                                           *)
Short(words, n) == {w \in words : Len(w) <= n}
Joined(a, b, n) == Short({x \o y : x \in a, y \in b}, n)

RECURSIVE Closure(_, _, _)
Closure(words, unit, n) ==
    LET more == words \union Joined(words, unit, n)
    IN IF more = words THEN words ELSE Closure(more, unit, n)

RECURSIVE Words(_, _, _)
Words(tree, of, n) ==
    CASE tree[1] = "lit" -> Short({tree[2]}, n)
      [] tree[1] = "cls" -> {<<b>> : b \in tree[2]}
      [] tree[1] = "ref" -> of[tree[2]]
      [] tree[1] = "seq" -> Joined(Words(tree[2], of, n), Words(tree[3], of, n), n)
      [] tree[1] = "or" -> Words(tree[2], of, n) \union Words(tree[3], of, n)
      [] tree[1] = "?" -> Words(tree[2], of, n) \union {<<>>}
      [] tree[1] = "*" -> Closure({<<>>}, Words(tree[2], of, n), n)
      [] tree[1] = "+" -> Closure(Words(tree[2], of, n), Words(tree[2], of, n), n)

RECURSIVE Fixpoint(_, _, _)
Fixpoint(trees, of, n) ==
    LET more == [r \in DOMAIN trees |-> Words(trees[r], of, n)]
    IN IF more = of THEN of ELSE Fixpoint(trees, more, n)

Language(trees, n) == Fixpoint(trees, [r \in DOMAIN trees |-> {}], n)["root"]

\* The tokens of a tree, groups in parentheses.
RECURSIVE Printed(_)
Printed(tree) ==
    CASE tree[1] \in {"lit", "cls", "ref"} -> <<tree>>
      [] tree[1] = "seq" -> Printed(tree[2]) \o Printed(tree[3])
      [] tree[1] = "or" -> <<<<"(">>>> \o Printed(tree[2]) \o <<<<"|">>>> \o Printed(tree[3]) \o <<<<")">>>>
      [] tree[1] \in {"?", "*", "+"} ->
             <<<<"(">>>> \o Printed(tree[2]) \o <<<<")">>, <<"post", tree[1]>>>>

----------------------------------------------------------------------------

LitK == <<"lit", <<"k">>>>
LitT == <<"lit", <<"t">>>>
LitX == <<"lit", <<"x">>>>
Two(first, second) == <<"seq", first, second>>
Either(first, second) == <<"or", first, second>>
Rep(op, tree) == <<op, tree>>
Name(rule) == <<"ref", rule>>

Trees == <<
    "root" :> Two(<<"lit", <<"k", "t">>>>, Two(Rep("*", LitX), LitK)),
    "root" :> Two(Rep("+", Two(LitK, LitT)), LitX),
    "root" :> Two(Either(Two(LitK, LitT), Two(LitK, LitX)), Rep("?", LitT)),
    ("root" :> Two(LitK, Name("x"))) @@ ("x" :> Either(LitT, Two(LitX, Two(Name("x"), LitT)))),
    "root" :> Either(Two(Name("root"), LitK), LitT),
    "root" :> Two(Rep("*", LitK), Rep("*", LitK)),
    "root" :> Two(Rep("*", Rep("?", LitK)), LitT),
    "root" :> Two(Rep("?", <<"cls", {"k", "t"}>>), Two(<<"lit", <<>>>>, <<"lit", <<"x", "t", "x">>>>)),
    ("root" :> Two(Either(LitK, Two(LitK, Either(LitK, LitT))), Two(Name("y"), LitX))) @@ ("y" :> Rep("+", LitT)) >>

SourceOfTree(trees, longest) ==
    [tokens |-> FlattenSeq([k \in 1..Cardinality(DOMAIN trees) |->
                    LET name == SetToSeq(DOMAIN trees)[k]
                    IN <<<<"rule", name>>>> \o Printed(trees[name])]),
     language |-> Language(trees, longest + 8), wellformed |-> TRUE,
     followed |-> UNION {Prefixes(w) : w \in Language(trees, longest)}]

Str(raw) == [kind |-> "string", bytes |-> raw]
Boolean == [type |-> "boolean"]
Members(value) == <<<<<<"k">>, value>>>>

\* A schema, and the bytes of its longest value that is followed.
Schemas == <<
    <<[type |-> "object", properties |-> Members(Boolean)], 7>>,
    <<[type |-> "object", title |-> "t",
       properties |-> <<<<<<"k">>, [type |-> "null"]>>, <<<<"x">>, [const |-> Str(<<"Q">>)]>>>>,
       required |-> <<<<"x">>, <<"k">>>>], 16>>,
    <<[type |-> "array", items |-> [type |-> "null"]], 6>>,
    <<[type |-> "array", items |-> [type |-> "array", items |-> Boolean], minItems |-> 1], 7>>,
    <<[type |-> "object", properties |-> <<>>], 2>>,
    <<[type |-> "string"], 4>>, <<[type |-> "integer"], 3>>, <<[type |-> "number"], 4>>,
    <<[enum |-> <<Str(<<"x">>), [kind |-> "number", bytes |-> <<"1", "0">>],
                  [kind |-> "word", bytes |-> <<"n">>]>>], 3>> >>

SourceOfSchema(schema, longest) ==
    [tokens |-> Schema!Compile(schema), language |-> Schema!Conforming(schema, longest + 3, 2),
     wellformed |-> TRUE,
     followed |-> UNION {Prefixes(w) : w \in Schema!Conforming(schema, longest, 1)}]

Unsupported == <<
    [type |-> "array", items |-> Boolean, minItems |-> 2], [type |-> "object"], [type |-> "array"],
    [enum |-> <<>>], [title |-> "t"], [pattern |-> "p", type |-> "string"],
    [const |-> [kind |-> "list", bytes |-> <<>>]], [type |-> "date"],
    [type |-> "object", properties |-> Members(Boolean), required |-> <<>>],
    [type |-> "object", properties |-> Members(Boolean), required |-> <<<<"x">>>>],
    [type |-> "array", items |-> [type |-> "array", items |->
        [type |-> "array", items |-> [type |-> "array", items |-> Boolean]]]] >>

root == <<"rule", "root">>
Group(tokens) == <<<<"(">>>> \o tokens \o <<<<")">>>>
Star == <<"post", "*">>
Meaningless == <<
    <<>>, <<LitK>>, <<root, LitK, <<")">>>>, <<root, <<"(">>, LitK>>, <<root, Name("y")>>, <<<<"rule", "x">>, LitK>>,
    <<root, LitK, root, LitT>>, <<root, Star>>, <<root, LitK, Star, <<"post", "?">>>>,
    <<root, <<"(">>, LitK, root, LitT, <<")">>>>,
    <<root>> \o Group(Group(Group(Group(Group(Group(Group(<<LitK>>))))))) >>
    \o <<<<root>> \o FlattenSeq([k \in 1..30 |-> <<LitK, Star>>])>>

SourceOfTokens(tokens) ==
    [tokens |-> tokens, language |-> {}, wellformed |-> FALSE, followed |-> {}]

GrammarTexts ==
    [k \in DOMAIN Trees |-> SourceOfTree(Trees[k], IF k = 1 THEN 16 ELSE 7)]
    \o [k \in DOMAIN Schemas |-> SourceOfSchema(Schemas[k][1], Schemas[k][2])]
    \o [k \in DOMAIN Unsupported |-> SourceOfTokens(Schema!Compile(Unsupported[k]))]
    \o [k \in DOMAIN Meaningless |-> SourceOfTokens(Meaningless[k])]

----------------------------------------------------------------------------

GrammarBytes == {"{", "}", "[", "]", ",", ":", "Q", "/", " ", "0", "1", ".", "e", "+", "-",
                 "x", "k", "t", "f", "n"}

Walker == INSTANCE Grammar WITH
    Bytes <- GrammarBytes, Sources <- GrammarTexts,
    MaxRules <- 60, MaxStacks <- 6, MaxDepth <- 13, MaxNesting <- 6, MaxDraft <- 3
----------------------------------------------------------------------------
(* Pure algorithms: a job is one of them and its input.                    *)

\* "A" and "s", "R", "e", "'", e acute, a Han character, a combining mark.
Units == {<<65>>, <<115>>, <<82>>, <<101>>, <<39>>, <<195, 169>>, <<228, 184, 173>>, <<204, 129>>,
          <<49>>, <<32>>, <<10>>, <<47>>}
FewUnits == {<<65>>, <<115>>, <<32>>, <<10>>}
Classes == (65 :> "upper") @@ (82 :> "upper") @@ (115 :> "lower") @@ (101 :> "lower") @@ (233 :> "lower")
           @@ (20013 :> "han") @@ (49 :> "number") @@ (32 :> "space") @@ (10 :> "space") @@ (769 :> "mark")
SomeMerges == << <<<<195>>, <<169>>>>, <<<<65>>, <<115>>>>, <<<<32>>, <<65>>>>, <<<<115>>, <<115>>>> >>
SomeVocab == [p \in {<<x>> : x \in 0..255} |-> p[1]]
             @@ (<<195, 169>> :> 300) @@ (<<65, 115>> :> 301) @@ (<<32, 65>> :> 302)
             @@ (<<115, 115>> :> 303) @@ (<<115, 115, 115>> :> 304)
AddedTokens == {[text |-> <<47, 47>>, id |-> 400], [text |-> <<47, 47, 49>>, id |-> 401]}

Tok == INSTANCE Tokenizer WITH
    Class <- Classes, Vocab <- SomeVocab, Merges <- SomeMerges, Added <- AddedTokens

Sam == INSTANCE Sampling WITH
    Weight <- (0 :> 1) @@ (1 :> 2) @@ (2 :> 5), NaN <- 999, Infinity <- 100, MaxStops <- 5

Texts(first) ==
    {FlattenSeq(<<first>> \o rest) : rest \in UNION {[1..n -> Units] : n \in 0..1}}
    \cup (IF first \in FewUnits
          THEN {FlattenSeq(<<first>> \o rest) : rest \in [1..3 -> FewUnits]} ELSE {})
LogitValues == {0, 2, -100, 999}

\* Broken UTF-8: a lone byte of a long form, an overlong form, an end cut off.
BrokenTexts == {<<169>>, <<195>>, <<65, 228, 184>>, <<192, 128>>, <<255, 115>>, <<240, 159, 65>>}

Inputs(algorithm, first) ==
    CASE algorithm = "tokenizer" ->
             [algorithm : {algorithm}, family : {"cl100k", "o200k", "kimi"},
              text : Texts(first) \cup BrokenTexts]
      [] algorithm = "sampling" ->
             [algorithm : {algorithm}, nucleus : {0, 30, 50, 75, 100},
              logits : {<<first>> \o rest : rest \in UNION {[1..n -> LogitValues] : n \in 0..3}}]
      [] algorithm = "stops" ->
             [algorithm : {algorithm}, config : {<<>>, <<1>>, <<1, 2>>, <<3, 3>>, <<1, 2, 3>>, <<1, 2, 3, 4>>},
              eos : 0..2, special : {<<>>, <<2>>, <<4, 5>>}, batched : BOOLEAN]
      [] algorithm = "bytes" ->
             [algorithm : {algorithm}, codes : {{0, 65, 127, 128, 233, 769, 2047, 2048, 20013, 65535, 65536, 128512}}]

Firsts == [tokenizer |-> Units, sampling |-> LogitValues, stops |-> {0}, bytes |-> {0}]

AlgorithmInit == \E a \in DOMAIN Firsts : \E f \in Firsts[a] : job = [algorithm |-> "none", chosen |-> a, first |-> f]
AlgorithmNext == job.algorithm = "none" /\ job' \in Inputs(job.chosen, job.first)

----------------------------------------------------------------------------
Off(variable) == variable = "off"
RingOff == /\ ring = [q |-> <<>>, r |-> 0, w |-> 0] /\ uring = TRUE /\ pushed = <<>> /\ taken = <<>>
           /\ Off(main) /\ Off(worker)
Resting == /\ engine.loop = "serve" /\ ~engine.share /\ engine.slots = {FirstSlot}
           /\ engine.model = CHOOSE model \in Models : TRUE
ReplyOff == Off(reply)
LoadOff == Off(env) /\ Off(slab) /\ Off(load) /\ Off(stopped) /\ Off(fault)
WalkerOff == Off(walk)
AlgorithmOff == Off(job)

PartsInit ==
    /\ part \in {"ring", "turns", "reply", "load", "uring", "hot", "balancer", "grammar", "algorithm"}
    /\ IF part = "ring" THEN Init ELSE RingOff
    /\ TurnsInit /\ (part # "turns" => Resting)
    /\ IF part = "reply" THEN Stream!Init ELSE ReplyOff
    /\ IF part = "load" THEN Load!Init ELSE LoadOff
    /\ UringInit /\ (part # "uring" => ~fatal)
    /\ HotInit /\ (part # "hot" => ~gpu.has)
    /\ BalancerInit
    /\ IF part = "grammar" THEN Walker!Init ELSE WalkerOff
    /\ IF part = "algorithm" THEN AlgorithmInit ELSE AlgorithmOff

LoadVars == <<env, slab, load, stopped, fault>>

RingStep ==
    /\ part = "ring" /\ Next
    /\ UNCHANGED <<part, turnsVars, reply, LoadVars, uringVars, hotVars, balancerVars, walk, job>>
TurnsStep ==
    /\ part = "turns" /\ TurnsNext
    /\ UNCHANGED <<part, vars, reply, LoadVars, uringVars, hotVars, balancerVars, walk, job>>
ReplyStep ==
    /\ part = "reply" /\ Stream!Next
    /\ UNCHANGED <<part, vars, turnsVars, LoadVars, uringVars, hotVars, balancerVars, walk, job>>
LoadStep ==
    /\ part = "load" /\ Load!Next
    /\ UNCHANGED <<part, vars, turnsVars, reply, uringVars, hotVars, balancerVars, walk, job>>
UringStep ==
    /\ part = "uring" /\ UringNext
    /\ UNCHANGED <<part, vars, turnsVars, reply, LoadVars, hotVars, balancerVars, walk, job>>
HotStep ==
    /\ part = "hot" /\ HotNext
    /\ UNCHANGED <<part, vars, turnsVars, reply, LoadVars, uringVars, balancerVars, walk, job>>
BalancerStep ==
    /\ part = "balancer" /\ BalancerNext
    /\ UNCHANGED <<part, vars, turnsVars, reply, LoadVars, uringVars, hotVars, walk, job>>
GrammarStep ==
    /\ part = "grammar" /\ Walker!Next
    /\ UNCHANGED <<part, vars, turnsVars, reply, LoadVars, uringVars, hotVars, balancerVars, job>>
AlgorithmStep ==
    /\ part = "algorithm" /\ AlgorithmNext
    /\ UNCHANGED <<part, vars, turnsVars, reply, LoadVars, uringVars, hotVars, balancerVars, walk>>

PartsNext == \/ RingStep \/ TurnsStep \/ ReplyStep \/ LoadStep \/ UringStep \/ HotStep
             \/ BalancerStep \/ GrammarStep \/ AlgorithmStep

PartsSpec == PartsInit /\ [][PartsNext]_<<part, vars, turnsVars, reply, LoadVars, uringVars, hotVars, balancerVars, walk, job>>

ASSUME PartsAssumption ==
    Load!ExpertLoadAssumption

----------------------------------------------------------------------------
(* The properties, with the type invariant of the part each is about;      *)
(* HintsAreTakenInOrder, BatchOwnsItsReads, SpeculationIsInvisible,        *)
(* HotStoreIsSound and BalancerIsSound are of the parts extended.          *)

(* Engine.generate, StopFilter and the stream splitters: the text, the     *)
(* reasoning and the tool calls a client is sent are those of the whole    *)
(* reply, however the engine's frames cut it, and no stop is shown.        *)
ReplyIsWhole == part = "reply" => Stream!TypeOK /\ Stream!ReplyIsWhole

(* Code written by hand against a definition: what expert_load has left in *)
(* a slab, from whichever source, and the expert's bytes (besides, no read *)
(* leaves its buffer, and the process ends only when no source is left);   *)
(* the tokenizer's matcher and its regular expression, the nucleus and a   *)
(* full sort, sampling with and without a draft, the stop set, the grammar *)
(* walker and its language.                                                *)
AlgorithmsMeetTheirReferences ==
    /\ part = "load" => Load!TypeOK /\ Load!LoadIsSafe
    /\ part = "grammar" => Walker!TypeOK /\ Walker!DraftsFollowTheGrammar
    /\ part = "algorithm" =>
        CASE job.algorithm = "none" -> TRUE
          [] job.algorithm = "bytes" -> Tok!BytesRoundTrip(job.codes)
          [] job.algorithm = "tokenizer" ->
                 /\ job.text \notin BrokenTexts => Tok!PiecesAreTheRegex(job.text, job.family)
                 /\ Tok!EncodingIsExact(job.text, job.family)
          [] job.algorithm = "sampling" ->
                 /\ Sam!NucleusIsSmallest(job.logits, job.nucleus)
                 /\ \A d \in DOMAIN job.logits : Sam!SpeculationIsFair(job.logits, job.nucleus, d)
          [] job.algorithm = "stops" -> Sam!StopsAreArmed(job.config, job.eos, job.special, job.batched)
=============================================================================
