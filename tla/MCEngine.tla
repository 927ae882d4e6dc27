------------------------------ MODULE MCEngine ------------------------------
(* Parts of the engine's process and of its HTTP front end that share no   *)
(* state while they are modelled here: the file of a slot, a token's       *)
(* layers and the rows on devices by extension, and each on an instance of *)
(* its own, as in MCParts, the experts of a layer, a reply on the wire,    *)
(* the parts of the other engines, and pure algorithms.  The initial state *)
(* chooses one part; the others stay as they are.                          *)
EXTENDS KvPersist, Residual, DeviceKv, MCInputs, SequencesExt

CONSTANTS EngineParts,              \* the parts to explore
          MoeBuilds                 \* the builds and environments of moe

VARIABLES part,
          build, call, step, block, ws, loading, lru, dev, out,
          conn, where, req, reply, wire,
          job,
          \* The other engines: the experts of c/kimi_k3.c (K), of c/inkling.c (I)
          \* and of c/olmoe.c (O), and the serve loops (S).
          setupK, atK, chunkK, leftK, blockK, cacheK, ageK, wsK, poolK, workerK, tierK, outK,
          atI, slotsI, ageI, pairsI, roundI, callI, outI,
          cacheO, ageO, queuedO, hotO, ringO, mainO, todoO, slotO, workerO, tokensO,
          engineS, phaseS, reqS, queueS, convS, rowsS, rollingS, tagS, genS, stopS, framesS, readS

Moe == INSTANCE MoeCall WITH
    setup <- build, at <- step, Layers <- {1, 2}, Experts <- {"e0", "e1", "e2", "e3"}, Devices <- {1, 2},
    Home <- PinnedHome, Registry <- VulkanHome, Setups <- MoeBuilds, Routings <- UniqueLists,
    BlockSize <- 2, Cap <- 1, MaxCalls <- 2

Http == INSTANCE HttpReply WITH
    at <- where, Requests <- ClientRequests, MaxRequests <- 2, MaxChunks <- 3, MaxPings <- 1

Route == INSTANCE Routing WITH E <- 4, K <- 2
Index == INSTANCE IndexSelect
Coder == INSTANCE Rans WITH
    Radix <- 4, Digits <- 3, L <- 16, A <- 3, M <- 8, Align <- 4, Narrow <- 2, Wide <- 4
Frame == INSTANCE Cfse WITH
    Radix <- 4, Digits <- 3, L <- 16, A <- 3, Scale <- 8, Table <- 3, Slack <- 6
Kern == INSTANCE Kernels

----------------------------------------------------------------------------
(* The other engines.                                                      *)

\* Chunks of one to three positions; four experts, two in a block.
KimiRoutings == {<<<<1, 2, 3>>>>, <<<<4, 2>>>>, <<<<1, 2>>, <<2, 3>>>>, <<<<2, 4>>, <<1, 3>>, <<3, 4>>>>}

Kimi == INSTANCE KimiExperts WITH
    setup <- setupK, at <- atK, chunk <- chunkK, left <- leftK, block <- blockK, cache <- cacheK,
    age <- ageK, ws <- wsK, pool <- poolK, worker <- workerK, tier <- tierK, out <- outK,
    Experts <- 1..4, Workers <- {1, 2}, Block <- 2, Cap <- 2, Routings <- KimiRoutings,
    DiskOrder <- <<3, 1, 4, 2>>, Missing <- {}, Uploads <- 1, TierRoom <- 1, MaxCalls <- 2, NoExpert <- 0

Inkling == INSTANCE InklingExperts WITH
    at <- atI, slots <- slotsI, age <- ageI, pairs <- pairsI, round <- roundI, call <- callI,
    out <- outI,
    Experts <- 1..3, Cap <- 2, Reserve <- 1, MaxPins <- 1, MaxPositions <- 2, TopK <- 2,
    MaxCalls <- 2, NoExpert <- 0

Olmoe == INSTANCE OlmoeCache WITH
    cache <- cacheO, age <- ageO, queued <- queuedO, hot <- hotO, ring <- ringO, main <- mainO,
    todo <- todoO, slot <- slotO, worker <- workerO, tokens <- tokensO,
    Experts <- 1..3, NLayers <- 2, Cap <- 2, Size <- 1, TopK <- 1, Wide <- 1, Ahead <- 1,
    MaxPins <- 1, MaxTokens <- 2, NoExpert <- 0

Ask(p, m, k) == [prompt |-> p, max |-> m, kind |-> k]
Raws == {Ask(<<>>, 1, "raw"), Ask(<<"b">>, 1, "raw"), Ask(<<"b", "a">>, 2, "raw")}
SideAsks ==
    [kimi |-> <<{Ask(<<"b", "a">>, 2, "raw"), Ask(<<"b", "a">>, 3, "think"), Ask(<<"a">>, 3, "chat")},
                Raws \cup {Ask(<<"a">>, 1, "invalid"), Ask(<<"a", "b">>, 1, "chat")}>>,
     inkling |-> <<Raws, Raws, Raws>>,
     olmoe |-> <<Raws, Raws, Raws>>]

Serve == INSTANCE SideServe WITH
    engine <- engineS, phase <- phaseS, req <- reqS, queue <- queueS, conv <- convS, rows <- rowsS,
    rolling <- rollingS, tag <- tagS, gen <- genS, stop <- stopS, frames <- framesS, read <- readS,
    Engines <- {"kimi", "inkling", "olmoe"}, Asks <- SideAsks, Plain <- {"a", "b"}, Sampled <- {"a"},
    CtxMax <- 5, Margin <- 1, QueueMax <- 1, MaxCommands <- 3

----------------------------------------------------------------------------
(* Pure algorithms: K3's chat payload, and the forwards in chunks.         *)
Wire == INSTANCE KimiWire WITH Wide <- {"e"}
WireTexts == {<<>>, <<"e", "x">>, <<"x", "G 1", "e">>}
WireMessages ==
    [role : {"system", "developer", "user"}, text : WireTexts, reasoning : {<<>>}]
    \cup [role : {"assistant"}, text : WireTexts, reasoning : {<<>>, <<"e", "G 1">>}]

Forwards == INSTANCE ChunkForward WITH
    Prime <- 97, Taps <- 3, Kinds <- <<"kda", "kda", "mla", "kda", "mla">>, BlockSize <- 2,
    Locals <- <<TRUE, FALSE, TRUE>>, Window <- 2, Extent <- 2

----------------------------------------------------------------------------
(* Pure algorithms: a job is one of them and its input.                    *)
Inputs(algorithm, first) ==
    CASE algorithm = "rank" -> [algorithm : {algorithm}, choice : {[first EXCEPT ![0] = v] : v \in {1, 2, 3, NaN}}]
      [] algorithm = "row" ->
             [algorithm : {algorithm}, choice : {first}, logit : SomeLogits, resident : SomeResident,
              opts : RouteOptionSets]
      [] algorithm = "batch" ->
             {[algorithm |-> algorithm, opts |-> o, resident |-> r,
               rows |-> <<Route!Routed(a, first, r, o), Route!Routed(b, [e \in Four |-> 1 + (e % 2)], r, o)>>] :
                  a \in SomeLogits, b \in SomeLogits, r \in {{}, {0}, {1, 3}, {0, 1, 2}}, o \in RouteOptionSets}
      [] algorithm = "index" ->
             [algorithm : {algorithm}, scores : [0..(first - 1) -> 1..3], forced : BOOLEAN]
      [] algorithm = "stream" ->
             [algorithm : {algorithm}, freq : {first},
              symbols : {s \in UNION {[1..n -> 0..2] : n \in 0..5} : CodableIn(first, s)}]
      [] algorithm = "record" ->
             [algorithm : {algorithm}, freq : {first}, streams : {1, 2, 4, 8},
              symbols : {s \in {Spread(n, p) : n \in 1..9, p \in SymbolPatterns} : CodableIn(first, s)}]
      [] algorithm = "blob" ->
             [algorithm : {algorithm},
              blob : {Blob(first, packed, o1, o2, o3, len, last) :
                          packed \in {1, 2}, o1 \in {0, 3}, o2 \in 0..9, o3 \in 0..9, len \in 4..20,
                          last \in {0, 1}}]
      [] algorithm = "frame" -> [algorithm : {algorithm}, bytes : {Spread(first, p) : p \in BytePatterns}]
      [] algorithm = "payload" ->
             [algorithm : {algorithm},
              frame : {[mode |-> 1, n |-> n, freq |-> first, body |-> <<1, 2, 2, 0>> \o b] :
                           n \in 0..4, b \in UNION {[1..k -> {0, 1, 3}] : k \in 0..5}}]
      [] algorithm = "wire" ->
             [algorithm : {algorithm}, thinking : BOOLEAN,
              messages : {<<first>>} \cup {<<first, m>> : m \in WireMessages}]
      [] algorithm = "chunk" ->
             [algorithm : {algorithm}, ids : [1..first -> 1..3], chunk : 2..4]
      [] algorithm = "dots" ->
             {[algorithm |-> algorithm, weights |-> w, floats |-> v, inputs |-> Kern!QRow(v)] :
                  w \in WeightRows(first), v \in FloatRows(first)}
      [] algorithm = "rows" -> [algorithm : {algorithm}, weights : WeightRows(first), group : {16, 32}]
      [] algorithm = "lattice" -> [algorithm : {algorithm}, blocks : {SuperBlocks(first)}, n : {8, 256, 264, 520}]
      [] algorithm = "rotation" ->
             [algorithm : {algorithm}, dim : {first, 16 * first, 2048 + first}, room : {8, 64, 1024}]
      [] algorithm = "kernel" -> [algorithm : {algorithm}, switches : KernelSwitches(first)]
      [] algorithm = "format" ->
             [algorithm : {algorithm}, rows : {first}, columns : TensorColumns,
              fmt : ({1, 2, 3, 5, 6, 8} \X {0}) \cup ({4} \X {16, 32, 64, 128, 256})]

Firsts == [rank |-> {(0 :> 1) @@ (1 :> a) @@ (2 :> b) @@ (3 :> c) : a, b, c \in {1, 2, 3, NaN}},
           row |-> [Four -> 1..3],
           batch |-> [Four -> 1..2],
           index |-> 1..6,
           stream |-> ShareTables, record |-> ShareTables, blob |-> {1, 2, 3},
           frame |-> 0..24,
           payload |-> ShareTables \cup {(0 :> 1) @@ (1 :> 2) @@ (2 :> 4)},
           wire |-> WireMessages,
           chunk |-> 1..4,
           dots |-> RowLengths, rows |-> RowLengths, lattice |-> 0..7, rotation |-> 1..40,
           kernel |-> {1, 2, 4}, format |-> {1, 2, 3, 32, 33, 96, 128, 129, 256, 385, 512, 2048}]

AlgorithmInit ==
    \E a \in DOMAIN Firsts : \E f \in Firsts[a] : job = [algorithm |-> "none", chosen |-> a, first |-> f]
AlgorithmNext == job.algorithm = "none" /\ job' \in Inputs(job.chosen, job.first)

----------------------------------------------------------------------------
MoeVars == <<build, call, step, block, ws, loading, lru, dev, out>>
HttpVars == <<conn, where, req, reply, wire>>
KimiVars == <<setupK, atK, chunkK, leftK, blockK, cacheK, ageK, wsK, poolK, workerK, tierK, outK>>
InklingVars == <<atI, slotsI, ageI, pairsI, roundI, callI, outI>>
OlmoeVars == <<cacheO, ageO, queuedO, hotO, ringO, mainO, todoO, slotO, workerO, tokensO>>
ServeVars == <<engineS, phaseS, reqS, queueS, convS, rowsS, rollingS, tagS, genS, stopS, framesS, readS>>
SideVars == <<KimiVars, InklingVars, OlmoeVars, ServeVars>>

\* No process, no file.
KvOff == /\ exists = FALSE /\ header = NoHeader /\ nrec = 0 /\ cells = <<>> /\ pc = "down"
         /\ layout = "off" /\ ctx = 0 /\ rows = <<>> /\ diskNrec = 0 /\ prompt = <<>>
         /\ at = 0 /\ turns = 0 /\ crashes = 0
\* Nothing is read.
RowsOff == /\ setup = CHOOSE c \in Setups : TRUE
           /\ bound = CHOOSE s \in setup.slots : TRUE
           /\ hist = [s \in setup.slots |-> <<>>] /\ host = hist /\ ragged = hist
           /\ shadow = <<>> /\ mirror = <<>> /\ active = {} /\ begun = 0 /\ read = {}
MoeOff == /\ build = "off" /\ call = "off" /\ step = "off" /\ block = "off" /\ ws = "off"
          /\ loading = "off" /\ lru = "off" /\ dev = "off" /\ out = "off"
HttpOff == conn = "off" /\ where = "off" /\ req = "off" /\ reply = "off" /\ wire = "off"
KimiOff == /\ setupK = "off" /\ atK = "off" /\ chunkK = "off" /\ leftK = "off" /\ blockK = "off"
           /\ cacheK = "off" /\ ageK = "off" /\ wsK = "off" /\ poolK = "off" /\ workerK = "off"
           /\ tierK = "off" /\ outK = "off"
InklingOff == /\ atI = "off" /\ slotsI = "off" /\ ageI = "off" /\ pairsI = "off" /\ roundI = "off"
              /\ callI = "off" /\ outI = "off"
OlmoeOff == /\ cacheO = "off" /\ ageO = "off" /\ queuedO = "off" /\ hotO = "off" /\ ringO = "off"
            /\ mainO = "off" /\ todoO = "off" /\ slotO = "off" /\ workerO = "off" /\ tokensO = "off"
ServeOff == /\ engineS = "off" /\ phaseS = "off" /\ reqS = "off" /\ queueS = "off" /\ convS = "off"
            /\ rowsS = "off" /\ rollingS = "off" /\ tagS = "off" /\ genS = "off" /\ stopS = "off"
            /\ framesS = "off" /\ readS = "off"

SideParts == {"kimi", "inkling", "olmoe", "serve"}

SideInit(chosen) ==
    /\ IF chosen = "kimi" THEN Kimi!Init ELSE KimiOff
    /\ IF chosen = "inkling" THEN Inkling!Init ELSE InklingOff
    /\ IF chosen = "olmoe" THEN Olmoe!Init ELSE OlmoeOff
    /\ IF chosen = "serve" THEN Serve!Init ELSE ServeOff

EngineInit ==
    /\ part \in EngineParts
    /\ IF part = "kv" THEN Init ELSE KvOff
    /\ IF part = "rows" THEN RowsInit ELSE RowsOff
    /\ ForwardInit
    /\ IF part = "moe" THEN Moe!Init ELSE MoeOff
    /\ IF part = "http" THEN Http!Init ELSE HttpOff
    /\ IF part = "algorithm" THEN AlgorithmInit ELSE job = "off"
    /\ SideInit(part)

KvStep == /\ part = "kv" /\ Next
          /\ UNCHANGED <<part, rowsVars, forwardVars, MoeVars, HttpVars, job, SideVars>>
RowsStep == /\ part = "rows" /\ RowsNext
            /\ UNCHANGED <<part, vars, forwardVars, MoeVars, HttpVars, job, SideVars>>
StackStep == /\ part = "stack" /\ ForwardNext
             /\ UNCHANGED <<part, vars, rowsVars, MoeVars, HttpVars, job, SideVars>>
MoeStep == /\ part = "moe" /\ Moe!Next
           /\ UNCHANGED <<part, vars, rowsVars, forwardVars, HttpVars, job, SideVars>>
HttpStep == /\ part = "http" /\ Http!Next
            /\ UNCHANGED <<part, vars, rowsVars, forwardVars, MoeVars, job, SideVars>>
AlgorithmStep == /\ part = "algorithm" /\ AlgorithmNext
                 /\ UNCHANGED <<part, vars, rowsVars, forwardVars, MoeVars, HttpVars, SideVars>>

KimiNext == Kimi!Next /\ UNCHANGED <<InklingVars, OlmoeVars, ServeVars>>
InklingNext == Inkling!Next /\ UNCHANGED <<KimiVars, OlmoeVars, ServeVars>>
OlmoeNext == Olmoe!Next /\ UNCHANGED <<KimiVars, InklingVars, ServeVars>>
ServeNext == Serve!Next /\ UNCHANGED <<KimiVars, InklingVars, OlmoeVars>>

SideAssumption ==
    /\ Kimi!KimiExpertsAssumption /\ Inkling!InklingExpertsAssumption /\ Olmoe!OlmoeCacheAssumption
    /\ Serve!SideServeAssumption /\ Forwards!ChunkForwardAssumption

MainVars == <<part, vars, rowsVars, forwardVars, MoeVars, HttpVars, job>>

KimiStep == part = "kimi" /\ KimiNext /\ UNCHANGED MainVars
InklingStep == part = "inkling" /\ InklingNext /\ UNCHANGED MainVars
OlmoeStep == part = "olmoe" /\ OlmoeNext /\ UNCHANGED MainVars
ServeStep == part = "serve" /\ ServeNext /\ UNCHANGED MainVars

EngineNext ==
    \/ KvStep \/ RowsStep \/ StackStep \/ MoeStep \/ HttpStep \/ AlgorithmStep
    \/ KimiStep \/ InklingStep \/ OlmoeStep \/ ServeStep

EngineSpec == EngineInit /\ [][EngineNext]_<<MainVars, SideVars>>

ASSUME EngineAssumption ==
    /\ Setups = SoundCaches => SoundSetups
    /\ EngineParts \subseteq {"kv", "rows", "stack", "moe", "http", "algorithm"} \cup SideParts
    /\ Moe!MoeCallAssumption /\ Coder!RansAssumption /\ Frame!CfseAssumption
    /\ SideAssumption

----------------------------------------------------------------------------
(* The properties, with the type invariant of the part each is about.      *)

(* moe: every expert of the call, and the shared one when asked for, adds  *)
(* its own weights once, from the layer's slab or its device, whichever    *)
(* device fails, but for the faults that FallbacksAreExact is about.  The  *)
(* same of kimi_k3.c with its pool and its tier, and of inkling.c as long  *)
(* as a round fits.  Of olmoe.c, beside its pilot thread: the slots that   *)
(* carry a name hold that expert, marks are pending, pins hold, and the    *)
(* slot in the matmul stays while the layer has room for every hint.       *)
EveryExpertOnce ==
    /\ part = "moe" => Moe!TypeOK /\ Moe!EveryExpertOnce
    /\ part = "kimi" => Kimi!TypeOK /\ Kimi!ExpertsAreSound
    /\ part = "inkling" => Inkling!TypeOK /\ Inkling!ExpertsAreSound
    /\ part = "olmoe" => Olmoe!TypeOK /\ Olmoe!PilotIsSound

(* moe: an expert whose device failed is computed again exactly, as the    *)
(* comments of the fallbacks say.                                          *)
FallbacksAreExact == part = "moe" => Moe!FallbacksAreExact

(* APIHandler: whatever the client sends and whenever it leaves, answers   *)
(* are one status line each, requests start where the last body ended, and *)
(* the blocks of a stream open, fill and close in order. The serve loops   *)
(* of the other engines answer every request once, from its own context.   *)
ResponsesAreFramed ==
    /\ part = "http" => Http!TypeOK /\ Http!ResponsesAreFramed
    /\ part = "serve" => Serve!TypeOK /\ Serve!ServesAreSound

(* Code written by hand against a definition: the router with its cache    *)
(* and its budget, the partial selection of the indexer, the two entropy   *)
(* coders with every arm of their decoders, K3's chat payload, the         *)
(* forwards in chunks of the other engines, every arm of the kernels over  *)
(* quantised rows, the kernel a matrix goes to, and the format of a tensor *)
(* told from its bytes.                                                    *)
EngineAlgorithmsMeetTheirReferences ==
    part = "algorithm" =>
        CASE job.algorithm = "none" -> TRUE
          [] job.algorithm = "rank" -> Route!RankIsSafe(job.choice)
          [] job.algorithm = "row" -> Route!RowIsSound(job.logit, job.choice, job.resident, job.opts)
          [] job.algorithm = "batch" -> Route!BudgetIsSound(job.rows, job.resident, job.opts)
          [] job.algorithm = "index" ->
                 \A k \in 1..(Cardinality(DOMAIN job.scores) + 1) :
                     Index!SelectionIsExact(job.scores, k, job.forced)
          [] job.algorithm = "stream" -> Coder!StreamRoundTrips(job.symbols, Coder!TableOf(job.freq))
          [] job.algorithm = "record" ->
                 Coder!RecordRoundTrips(job.symbols, Coder!TableOf(job.freq), job.streams)
          [] job.algorithm = "blob" -> Coder!AcceptedIsInside(job.blob, 2)
          [] job.algorithm = "frame" -> Frame!FrameRoundTrips(job.bytes)
          [] job.algorithm = "payload" -> Frame!ReadsStayInside(job.frame)
          [] job.algorithm = "wire" ->
                 Wire!ChatRoundTrips(job.messages, job.thinking) /\ Wire!CutIsRefused(job.messages, job.thinking)
          [] job.algorithm = "chunk" -> Forwards!ChunksAreInvisible(job.ids, job.chunk)
          [] job.algorithm = "dots" ->
                 /\ Kern!QuantisedIsNearest(job.floats)
                 /\ Kern!IntegerDotsAreExact(job.weights, job.inputs)
                 /\ Kern!Mx4ArmsAgree(job.weights, job.inputs)
          [] job.algorithm = "rows" -> Kern!RowsAreReadAsPacked(job.weights, job.group)
          [] job.algorithm = "lattice" -> Kern!E8ArmsAgree(job.blocks, job.n)
          [] job.algorithm = "rotation" ->
                 /\ Kern!RotationCovers(job.dim, job.room)
                 /\ \A n \in {1, 2, 4, 8, 16} :
                        Kern!RotationIsOrthogonal(RowOf(n, <<job.dim % 7, -3, 2>>), Bumpy(n, job.dim % 3), n,
                                                  [i \in 0..(n - 1) |-> (job.dim * (i + 1)) % 3 = 0])
          [] job.algorithm = "kernel" -> Kern!PinnedKernelsAgree(job.switches)
          [] job.algorithm = "format" ->
                 Kern!FormatsAreToldApart(job.rows, job.columns, job.fmt[1], job.fmt[2])
=============================================================================
