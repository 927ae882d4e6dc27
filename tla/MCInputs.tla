------------------------------ MODULE MCInputs ------------------------------
(* The builds, environments, requests and inputs of MCEngine.              *)
EXTENDS Integers, Sequences, FiniteSets, TLC

----------------------------------------------------------------------------
(* KvPersist: cells of a record.  A row with indexer keys is wider.        *)
OneWidth == [plain |-> 2]
TwoWidths == [plain |-> 1, dsa |-> 2]

----------------------------------------------------------------------------
(* DeviceKv: which caches a process keeps beside the host's rows.          *)
Caches(slots, on) ==
    [slots |-> slots] @@ [k \in {"cuda", "pipe", "vulkan", "dsa", "projects", "share", "extends"} |-> k \in on]
OneSlot == {"s1"}
TwoSlots == {"s1", "s2"}

\* A device that keeps a copy of the rows is alone with its slot, or the slots
\* share no prefix; with a ragged cache, what is adopted is only extended.
SoundCaches == {Caches(OneSlot, {"cuda", "pipe"}), Caches(OneSlot, {"vulkan", "dsa"}),
                Caches(TwoSlots, {"cuda", "pipe", "dsa", "projects"}), Caches(TwoSlots, {"vulkan"}),
                Caches(TwoSlots, {"cuda", "projects", "share", "extends"})}

\* COLI_VULKAN with COLI_KV_SHARE, and two slots.
SharedCaches == {Caches(TwoSlots, {"vulkan", "share"})}

SomeRowPrompts == {<<1>>, <<1, 1>>, <<1, 2>>, <<1, 2, 1>>, <<1, 1, 2>>}

----------------------------------------------------------------------------
(* Residual: pipeline neighbours, a layer of the host, a device revisited. *)
LayerHomes == <<"a", "a", "b", "host", "b", "a">>

----------------------------------------------------------------------------
(* MoeCall: the builds, and where the pinned experts are.                  *)
Build(build, on) ==
    [build |-> build] @@ [k \in {"pipe", "async", "resident", "xexp", "rotated", "lossy"} |-> k \in on]

\* The Vulkan tier takes formats that need no rotation.
EveryBuild == {Build("cpu", {"pipe", "rotated"}), Build("cpu", {"xexp"}), Build("metal", {"pipe", "rotated"}),
               Build("cuda", {"pipe", "async"}), Build("cuda", {"pipe", "async", "rotated"}),
               Build("cuda", {"pipe", "resident", "rotated"}),
               Build("vulkan", {"pipe"}), Build("vulkan", {"pipe", "lossy"})}

\* The two whose fallbacks are not exact.
LostTier == {Build("vulkan", {"pipe", "lossy"})}
EarlyRotated == {Build("cuda", {"pipe", "async", "rotated"})}

\* An expert number of the tier is in both layers.
PinnedHome == << ("e1" :> 1) @@ ("e2" :> 2), ("e0" :> 0) @@ ("e1" :> 2) @@ ("e2" :> 1) >>
VulkanHome == << ("e1" :> 0) @@ ("e2" :> 1), ("e1" :> 0) @@ ("e3" :> 1) >>
UniqueLists == {<<>>, <<"e0", "e1", "e2">>, <<"e3", "e1">>, <<"e2", "e3", "e0">>}

----------------------------------------------------------------------------
(* HttpReply: what a client may send.                                      *)
Post(framing, route, on) ==
    [method |-> "POST", framing |-> framing, route |-> route]
    @@ [k \in {"allowed", "json", "valid", "stream", "tools", "think", "usage"} |-> k \in on]
Framings == {"none", "body", "chunked", "bad", "huge", "short", "stalls"}

Generations == {Post("body", route, {"allowed", "json", "valid", "stream"} \cup on) :
                    route \in {"chat", "completion", "messages"}, on \in SUBSET {"tools", "think", "usage"}}
\* Tools and reasoning belong to the chats, usage frames to two of the routes.
ServedGenerations ==
    {r \in Generations : (r.route = "completion" => ~r.tools /\ ~r.think) /\ (r.route = "messages" => ~r.usage)}
    \cup {Post("body", route, {"allowed", "json", "valid"}) : route \in {"chat", "completion", "messages"}}

ClientRequests ==
    {[Post(f, "other", {"allowed"}) EXCEPT !.method = m] : m \in {"GET", "HEAD"}, f \in {"none", "body", "chunked"}}
    \cup {Post(f, "chat", on) : f \in Framings, on \in SUBSET {"allowed", "json"}}
    \cup ServedGenerations

----------------------------------------------------------------------------
(* Algorithms: a job is one of them, and its input.                        *)
CONSTANT NaN                        \* a model value
Four == 0..3
RouteOptions(on, number) ==
    [k \in {"cached", "norm"} |-> k \in on]
    @@ [ablation |-> IF "around" \in on THEN "around" ELSE IF "swap" \in on THEN "swap" ELSE "none"]
    @@ number @@ [k \in {"window", "share", "top", "alpha", "topk", "topp", "cell", "standin", "budget"} |-> 0]
RouteOptionSets ==
    {RouteOptions({"norm"}, "budget" :> 1), RouteOptions({}, ("topk" :> 1) @@ ("budget" :> 1)),
     RouteOptions({}, ("topp" :> 60) @@ ("budget" :> 2)),
     RouteOptions({"cached", "norm"}, ("window" :> 3) @@ ("top" :> 1) @@ ("budget" :> 2)),
     RouteOptions({"cached"}, ("window" :> 4) @@ ("share" :> 70) @@ ("top" :> 1) @@ ("alpha" :> 50) @@ ("budget" :> 2)),
     RouteOptions({"cached", "norm", "around"},
                  ("window" :> 4) @@ ("alpha" :> 50) @@ ("topp" :> 60) @@ ("cell" :> 1) @@ ("budget" :> 1)),
     RouteOptions({"cached", "norm", "swap"},
                  ("window" :> 2) @@ ("top" :> 2) @@ ("cell" :> 1) @@ ("standin" :> 2) @@ ("budget" :> 1))}
SomeLogits == {(0 :> a) @@ (1 :> b) @@ (2 :> 2) @@ (3 :> 1) : a \in {1, 3}, b \in {1, 2}}
SomeResident == {{}, {0}, {3}, {1, 3}, {0, 1, 2}, Four}

\* Three symbols and eight slots; the shares are uneven, or one has them all.
ShareTables == {(0 :> 7) @@ (1 :> 1) @@ (2 :> 0), (0 :> 3) @@ (1 :> 4) @@ (2 :> 1),
                (0 :> 8) @@ (1 :> 0) @@ (2 :> 0), (0 :> 1) @@ (1 :> 2) @@ (2 :> 5)}
CodableIn(freq, symbols) == \A i \in DOMAIN symbols : freq[symbols[i]] > 0
Spread(n, pattern) == [i \in 1..n |-> pattern[1 + ((i * i) % Len(pattern))]]
SymbolPatterns == {<<0>>, <<1>>, <<0, 1>>, <<1, 0, 0>>, <<0, 0, 0, 1, 2>>}
BytePatterns == {<< <<0, 0>> >>, << <<0, 0>>, <<0, 0>>, <<0, 0>>, <<0, 1>> >>, << <<0, 1>>, <<2, 0>> >>,
                 << <<0, 1>>, <<0, 0>>, <<0, 0>>, <<0, 0>>, <<0, 0>>, <<0, 0>>, <<0, 0>> >>,
                 << <<2, 2>>, <<2, 2>>, <<2, 2>>, <<2, 2>>, <<2, 2>>, <<1, 0>> >>}
\* Headers of records of two streams, right and wrong.
Blob(n, packed, o1, o2, o3, len, last) ==
    [i \in 1..len |-> CASE i = 1 -> n [] i = 2 -> packed [] i = 3 -> o1 [] i = 4 -> o2 [] i = 5 -> o3
                       [] i = len -> last [] i > 8 /\ i < 15 -> 1 [] OTHER -> 0]

\* Kernels: rows on either side of every block, of extremes and of all sorts.
RowLengths == {1, 2, 7, 15, 16, 17, 31, 33, 48, 63, 64, 65, 97, 101}
RowOf(n, pattern) == [i \in 0..(n - 1) |-> pattern[1 + (i % Len(pattern))]]
Bumpy(n, seed) == [i \in 0..(n - 1) |-> ((i * i * seed + 7 * i + seed) % 257) - 128]
WeightRows(n) == {RowOf(n, <<-128>>), RowOf(n, <<127, -128, 5>>), Bumpy(n, 1), Bumpy(n, 2)}
FloatRows(n) == {RowOf(n, <<-128>>), RowOf(n, <<0, 0, -1>>), RowOf(n, <<0>>), RowOf(n, <<-127, 127, 127, -128, 6>>),
                 Bumpy(n, 3)}
SuperBlocks(seed) ==
    [b \in 0..2 |-> [index |-> [k \in 0..63 |-> k + 64 * b], sub |-> [k \in 0..7 |-> k + b],
                     seven |-> [k \in 0..31 |-> (k * 37 + 16 * seed + b) % 128]]]
KernelSwitches(least) ==
    [on : SUBSET {"metal", "cuda", "pinned", "nested", "idot", "allow"}, gemm : {least}, i4s : {1, 2, 5}]
TensorColumns == {1, 2, 3, 24, 47, 48, 80, 96, 98, 128, 144, 145, 192, 195, 256, 257, 384, 385, 400, 512, 700, 768,
                  1024, 2048, 16384}
=============================================================================
