# A TLA+ verification of colibri

colibri runs mixture-of-experts models that are larger than memory: a C engine
(`c/colibri.c`) streams experts from disk, and a Python gateway
(`c/openai_server.py`) serves it over HTTP. Three smaller engines
(`c/kimi_k3.c`, `c/inkling.c`, `c/olmoe.c`) run other model families over the
same pipes. This directory holds TLA+ models of these programs, the TLC runs
that check them on small instances, and proofs, for every instance, about
twelve of the models. Paths below are relative to `src/`.

## The system

| part | state | operations | talks to |
|---|---|---|---|
| `GenerationScheduler` (`c/openai_server.py` 93-195) | `queue`, `free_slots`, `active`, `closed`, five counters, under one condition variable | `admit` (a context manager), `close`, `snapshot` | called by every handler thread |
| `Engine` client (1195-1443) | `pending` (id to event queue), `closed`, `dispatcher_error`, one dispatcher thread | `generate`, `_dispatch_stdout`, `_fail_pending`, `close` | the engine, over its stdin and stdout |
| HTTP handlers (1472-2100) | one connection each; `stream_started`, the stop filter, the keep-alive pump | chat, completions, messages; errors; streaming | scheduler, then `Engine.generate` |
| stop filter and splitters (965-1190) | held-back text, mode | `push`, `finish` | the handler, between engine and client |
| mux serve loop (`c/colibri.c` 6937-7404) | `ServeReq` and `ServeCtx` per slot, `g_mux_stop`, `g_mux_cancel`, `g_intr` | `mux_submit`, `mux_ctl_poll`, `mux_done`, one decode round | the gateway; KV persistence; the forward pass |
| legacy loop (`run_serve`) | one history and its rows | a turn, `MORE`, `RESET` | a terminal or an old gateway |
| speculative decode (6065-6180) | drafts, acceptance guards | `spec_decode`, with an emit callback that polls stdin | the serve loops |
| drafts from grammars (`c/grammar.h`, `c/schema_gbnf.h`) | rules, the walker's stacks | parse, advance, draft; compile a JSON schema | speculative decode |
| sampling, tokenizer (`c/sample.h`, `c/tok.h`) | none between calls | nucleus, choice, acceptance; encode, decode | the serve loops |
| KV persistence (`c/kv_persist.h`) | `.coli_kv`: header with layout and `nrec`, rows; `disk_nrec` in memory | load, open, append, truncate | the mux loop, at start, at SUBMIT and at the end of a turn |
| KV rows on devices (`c/colibri.c`, `c/backend_cuda.cu`) | watermarks of a CUDA shadow, a Vulkan mirror, a ragged cache | upload, attention, rewind | attention |
| a token's layers (5300-5640) | the residual, on the host or resident on a device, a snapshot | `layers_forward_rows`, `pipe_layer_sparse` | devices |
| routing and `moe` (3771-4797) | the list of experts of a batch, blocks of misses, device jobs | route, resolve, load, compute, promote | cache, PIPE pool, devices |
| expert cache and pilot (1099-1115, 4961-5150, 6797-6841) | `ecache[layer]`, `ecn`, `ecap`, `g_cur_moe_layer`, `g_pilot_inflight` | `pilot_realload`, `pilot_uring_batch`, `rss_guard` | main thread and pilot threads |
| PIPE pool (2615-2769) | `cur` (generation and index), `njobs`, `layer`, `eids`, `ready`, two condition variables | `pipe_dispatch`, `pipe_worker`, `pipe_wait` | `moe` on the main thread, I/O workers |
| io_uring (2450-2610), `expert_load` | submissions, completions; a slab and its views | prepare, submit, reap; read from mirrors, RAM bank, disk | pilot, `moe` |
| pilot ring, hints (5107-5300) | `pilot_q`, `pilot_r`, `pilot_w` | push, claim | main thread to pilot threads |
| tiers, re-pinning (`c/tier.h`, 6842 on) | heat, last use, pinned sets | `pin_load`, `tier_pick_lfru`, `repin_pass` | at the safe point between forwards |
| kernels and coders (`c/quant.h`, `c/rans.h`, `c/fse_coli.h`) | none | pack, dot, matmul, encode, decode | every layer |
| other engines | an expert cache, a worker or a pool, one conversation | the same in small | the gateway |
| RAM pool, balancer (`tools/`) | leases, cached health | fetch, pick | other machines |

The rest (trace and telemetry, command line and planner, conversion tools, web
and desktop front ends) configures one process, runs offline, or is a client.
`PROJECT.json` lists every part with its status, and under `hazards` what can
go wrong in each, at its line, with the properties that would show it.

What is hard about it:

* **Threads.** Handlers race in the scheduler and with the dispatcher's death;
  PIPE workers and the main thread share a lock-free cursor; pilot threads fill
  the caches of layers that the main thread is about to enter.
* **Messages.** STOP and CANCEL cross the end of the request they name; a
  frame's place in the order decides whether a client sees an HTTP error or a
  broken stream; two parties (scheduler, engine) each keep their own idea of
  which slot is busy.
* **Failure.** The engine may be killed at any write to `.coli_kv`; reads of
  experts fail; devices fail in the middle of a layer; the client hangs up,
  even while its headers are being written.
* **Copies.** A row of the KV cache exists in up to four places, an expert in
  up to three, each with a length or a label of its own.
* **Restarts** with other settings (context size, row layout) meet old files.
* **Hand-written twins.** A regular expression, a full sort, a grammar, a dot
  product each exist a second time as fast code that must agree with it.

What makes each part correct: the scheduler loses no slot, gives none twice,
starves and overtakes nobody; the gateway tells every waiting handler how its
request ended, once, and never sends a request to a busy slot; what a client
sees does not depend on how the engine's frames cut it; drafts never show; the
file resumes only what was computed; attention reads the rows of its own
conversation, a matmul only whole, right experts, each once; no wakeup and no
barrier blocks for ever.

## Modules

A module extends nothing of the project unless said. Those marked **P** have
theorems, in `<module>Proofs`; those of `Residual`, `SpecTurns` and `DeviceKv`
are in `EngineProofs`, those of `Balancer` and `HotStore` in `PartsProofs`, and
those of `UringBatch` in `PilotRingProofs`.

| module | models | run |
|---|---|---|
| `SlotPool` | what admission promises: a slot has one owner, a request one slot | `scheduler` |
| `Scheduler` **P** | `GenerationScheduler`, one action per way through `admit` | `scheduler`, `live` |
| `Gateway` **P** | handler threads, dispatcher, two pipes, the mux loop and the speculative turn, composed | `gateway`, `live` |
| `HttpReply` | a connection: requests, bodies, streams with their pump, errors | `engine` |
| `ReplyStream` | decoder, stop filter, splitters and tool-call buffer, over every way to cut a reply | `parts` |
| `SpecTurns` **P** | `spec_decode` and the turns of both serve loops, with adopted prefixes | `parts` |
| `Grammar`, `SchemaGrammar` | the GBNF parser and walker, the schema compiler | `parts` |
| `Sampling`, `Tokenizer` | the next token; text to tokens and back | `parts` |
| `KvPersist` **P** | the file of one slot, the turns that write it, crashes and restarts | `engine`, `kv_files` |
| `DeviceKv` **P** | the copies of the KV rows on devices | `engine`, `kv_mirror` |
| `Residual` **P** | one forward over the layers, on host and devices, with failures | `engine` |
| `Routing`, `IndexSelect` | the experts of a batch; the rows a sparse attention reads | `engine` |
| `MoeCall` | `moe` from the list of experts to the output, on every build | `engine`, `moe_fallback` |
| `ExpertCache` **P** | the cross-layer handshake of `moe` and the pilot loads | `cache` |
| `PipePool` **P** | the PIPE pool, one step per access to a shared variable | `live`, `pipe_growing` |
| `PilotRing` **P** | the ring of hints, one step per access, indices that wrap | `parts` |
| `UringBatch` **P** | a batch of reads, taken piecemeal and ended in any order | `parts` |
| `ExpertLoad` | one load, from whatever source is left | `parts` |
| `HotStore` **P** | pins, tiers, and the passes that re-pin | `parts` |
| `Kernels`, `Rans`, `Cfse` | the arms of the kernels; the two entropy coders | `engine` |
| `KimiExperts`, `InklingExperts`, `OlmoeCache` | the expert caches of the other engines | `engine`, `inkling_pins` |
| `SideServe`, `KimiWire`, `ChunkForward` | their serve loops, chat payload, forwards in chunks | `engine` |
| `Balancer` **P** | `tools/cluster_lb.py` | `parts` |

How they are put together for TLC: `MCScheduler` extends `Scheduler` and reads
its state as a `SlotPool`. `MCGateway` extends `Gateway` (two slots) and
instantiates it for one; `MCLive` instantiates it for one,
and `Scheduler` beside it.
`MCEngine` extends `KvPersist`, `Residual` and `DeviceKv`; `MCParts` extends
`PilotRing`, `SpecTurns`, `HotStore`, `Balancer` and `UringBatch`; `MCLive`
extends `PipePool`; and each instantiates, beside those, the other modules of
the table. The initial state chooses one part: of the others, one that is
extended rests at an initial state of its own, and the variables of an instance
are off. These parts share state in the program (a row, a slab),
but each model takes its neighbour's promise as its environment: `PipePool`
takes a load as a step, `ExpertLoad` shows what a load reads; `Gateway` takes
admission as the slot pool that `Scheduler` implements. `MCInputs` holds the
inputs of the instances.

### Scheduler

A request is one handler thread with one call of `admit`. All state is touched
under one condition variable, so a critical section is one step: `Refuse` and
`Enter` (the entry tests, the append and the first pass of the loop, without a
wait between them), `Wake` (a later pass), `Finish` (the finally clause) and
`Close`. A pass leads to `Admit`, `Cancel`, `TimeOut` or another wait, tested
in the code's order. `wait(0.25)` and `notify_all` make every waiter look again
sooner or later, so `Wake` needs no notification. `Disconnect` and `Expire` are
the environment. `want` is the slot asked for, `None` any.

### Gateway

`hpc` follows a handler through `admit`, registration under `pending_lock`, the
write of SUBMIT under `write_lock`, and its loop on `events.get()`. The
dispatcher takes one frame a step. `Close` is three steps because `close()`
marks, fails what is pending and terminates outside one lock. The engine is
sequential: at `poll` it reads at most one line; `prefill` follows ACCEPT;
`round` decodes the active slots one by one; `spec` and `ctl` alternate between
tokens and `mux_ctl_poll`. `EngineExits` may happen at any step, with what was
written still in the pipe. A request id is the request itself: ids are never
reused. Tokens are counted, their text is left out, so a stop sequence or a
disconnect may be found at any DATA.

### HttpReply, ReplyStream, Balancer

`HttpReply` takes the requests of one keep-alive connection: how each is framed
(a length, chunks, a lie), its route, and what it asks for. `conn` is the
connection, `wire` what was written. The keep-alive pump is a second actor that
may write a ping whenever the handler holds no lock. `ReplyStream` feeds one
reply, cut into chunks in every way, through the decoder and the filters; the
reference is what the whole reply means. `Balancer` has a thread per request,
each with its own round of probes; the request it forwards is taken, answered
with an error status, refused, or broken off.

### SpecTurns, Grammar, Sampling, Tokenizer

A row of the KV cache is represented by the tokens it was computed from, and a
model by the tokens that may follow each last token, so "the rows kept are
those of the history" and "the text is one the model could have produced
without drafts" are formulas. A draft is any short sequence. In `Grammar` a
text comes from a syntax tree, whose language is the reference; in `Tokenizer`
the reference is the regular expression, matched by backtracking; in `Sampling`
a full sort, and the distribution without a draft.

### KvPersist

A KV row depends on all tokens before it, so a row *is* the prefix that ends in
it, and "these rows belong to one conversation" is a formula. A file is a
header and cells; a record takes `Width[layout]` cells, so that a record of one
layout does not line up with another's. `kv_disk_append` writes cell by cell
and then the count; `Crash` falls between any two writes. What was written
stays: the process dies, not the machine (the code flushes and does not fsync).

### DeviceKv, Residual, MoeCall, Routing

`DeviceKv` takes one layer: the host's rows, the watermarks of a CUDA shadow
and a Vulkan mirror of the bound slot, and the ragged cache of a batch; reads
are compared with the rows the history calls for. A setup is a process: what it
was built with and what its environment switches on. `SoundSetups` says which
keep their copies right; TLC explores those in `engine`, and one of the others
in `kv_mirror`. `Residual` represents a
residual by what was added to it; every device call but those the code does not
check may fail. `MoeCall` follows one call on a build of the program (CPU,
Metal, CUDA synchronous, asynchronous or resident, Vulkan, with devices that
are lost or fail) and collects the contributions of every expert: each is right,
or says what is wrong with it (another expert's weights, another layer's, an
input that was not rotated). `rotated` stands for a container whose routed
experts are all in the lattice format; with Vulkan it is left out, since the
registry of the tier takes formats 2, 4 and 5 only. `EveryExpertOnce` runs on
all these builds; two faults of two fallbacks (finding 6, and the notes after
it) are excused by name, for the experts of the device concerned on the build concerned, and
nothing else is: the same fallbacks must still add each expert once, and not
another expert. `FallbacksAreExact` excuses nothing and is violated. `Routing` and `IndexSelect` are
pure: an input, the code's steps, a definition to compare with.

### ExpertCache, PipePool, PilotRing, UringBatch, ExpertLoad, HotStore

`mpc` follows the main thread through `moe`: `EnterMoe` publishes the layer,
`PassBarrier` waits for the loads in flight on it, `Resolve` splits the routed
experts into hits and misses, `Matmul` reads the hits, `Promote` swaps misses
into the cache. A pilot load reserves a slot under the lock (`Reserve`), reads
outside it (`ReadDone`, `ReadFails`) and settles under the lock (`Settle`).
`uring` tells the two load paths apart: `expert_load` publishes the label
itself, the io_uring path only when it settles. At the safe point between two
forwards `rss_guard` may drop slots and lower the cap.

In `PipePool` and `PilotRing` each load, store and exchange of a shared
variable is a step, in program order; the two loops of `pipe_dispatch` over
`eids` and `ready` are a step each. A compare-and-swap may fail spuriously.
`block` is `PIPE_BLOCK`: the main thread then sleeps on `cv_done`, and workers
broadcast it. Indices of the ring wrap at `Wrap`, which stands for 2^32.

`UringBatch` has the kernel carry out reads in any order, short or failed. It
may take only some of the queued entries at a time: the code does not look at
how many, and the call that waits for a completion submits the rest. A broken
ring is followed to the end of its batch.
`ExpertLoad` follows one load through its sources with a slab that keeps the
bytes and views of the expert before; a byte is its file and offset.
`HotStore` has two tiers, pins and heat, an upload that may fail, and a pass.

### Kernels, Rans, Cfse

Sizes are constants (`Rans`, `Cfse`) or real (`Kernels`, whose blocks, groups
and registers have the code's widths). A kernel over floats is the
`<<weight, scale>>` each activation meets, an integer kernel its exact sum.
The property is that every arm meets the plain definition, that a blob the
parser accepts is never read outside, and that a format told from the size of a
tensor is the one it was written in.

### The other engines

`KimiExperts` has a pool without generations and a Vulkan tier; `InklingExperts`
rounds over a cache with pins; `OlmoeCache` a worker that loads into the layers
the main thread is in. Of the latter, `EveryExpertOnce` says that a slot with a
name holds that expert, that no two reads share a slot, that marks are pending
and pins hold, and that the slot in the matmul stays the expert's as long as the
layer has more unpinned slots than the worker has loads for it
(`MatmulKeepsItsSlot`); without such room it does not (see the notes).
`SideServe` has the three loops over one kind of line and frame; `KimiWire` messages framed by lengths in bytes; `ChunkForward` a
stack over residues, where chunks of any size must give one result.

## Runs

| run | instance | shows |
|---|---|---|
| `scheduler` | 4 requests, 2 slots, queue of 2, symmetric | slots, queue, fairness of the order, counters; `SlotPool` is implemented |
| `gateway` | 3 requests, 3 tokens, symmetric; 2 slots, or 1 and perhaps speculation | frame order, no orphan, late STOP, slots agree, a SUBMIT never finds the slot busy |
| `gateway_broken` | 2 requests, 1 slot, and writing headers may fail | **violates** `SlotNeverBusy` |
| `live` | 3 requests for 1 slot; 3 for 2 slots of the scheduler and a queue of 2; 2 workers and 3 batches that do not grow | every request ends, every waiter is served; right experts, no stale grab, no lost wakeup |
| `pipe_growing` | a batch larger than the one before | **violates** `NoStaleGrab` |
| `cache` | 3 experts, 2 layers of 2 slots, 2 loads | the handshake, and that its barrier opens |
| `engine` | ten parts of the engines and the front end | files, rows on devices, layers, experts, replies, kernels and coders |
| `kv_files` | two layouts and two context sizes over one file | **violates** `RowsAreOneConversation` |
| `kv_mirror` | two slots, a Vulkan mirror, adopted prefixes | **violates** `AttentionReadsHost` |
| `moe_fallback` | groups issued early to two devices, rotated weights | **violates** `FallbacksAreExact` |
| `inkling_pins` | 3 experts, 2 slots of which 1 pinned | **violates** `RoundsKeepTheirSlots` |
| `parts` | nine parts that share no state | hints, turns, replies, loads, tiers, balancer, algorithms |

Why these bounds.

* *Scheduler:* two slots are needed for head-of-line blocking, two waiters for
  overtaking, and a fourth request for a waiter that comes while both slots and
  the queue are full. For starvation three are enough: two that hold the slots
  or overtake, and one that waits. Requests differ by their names only, so
  `live` states its properties of one of them, whatever all three ask for.
* *Gateway:* with two slots one request may be cancelled while another is
  decoded and a third reuses a slot; three tokens let a control line arrive
  after the first (with fewer no batched turn outlives the round it started
  in), between two, and after the last.
* *KvPersist:* two turns are the least in which a prefix is kept, shortened or
  replaced, and two crashes let the second hit what the first left; a context
  of 6 with a margin of 2 has turns that can and that cannot be resumed.
* *ExpertCache:* with two slots and two loads a layer is full, both its slots
  may be reserved, and a third expert finds no victim; two layers separate the
  layer in possession from one ahead.
* *PipePool:* two workers compete and leave one behind; three batches give a
  straggler two generations to be late by. *PilotRing:* a ring of 2 with
  indices to 8 and four hints is full, empty and wraps.
* *DeviceKv:* three turns over two slots make a slot leave a device and return.
  *Residual:* six layers on two devices and the host have every kind of
  neighbour; a second forward starts from what the first left. *MoeCall:* two
  calls on two layers of one slot, blocks of two, three experts: a block that is
  full and one that is not, a slab used again by the next layer; one expert of
  the Vulkan tier has its number in both layers, the others in one.
* *The other engines:* four experts in blocks of two, two workers, chunks of up
  to three positions (Kimi); two calls around one pin (Inkling); two tokens over
  two layers, ahead by one (OLMoE); three commands, a queue of one (serve loops).
* *SpecTurns:* drafts of two tokens and a budget of three end a turn inside, at
  and after a draft; two turns reuse rows; a context of 8 runs out.
  *ReplyStream:* replies of up to four pieces in chunks of up to three
  characters cut every marker at every place. *HotStore:* three experts around
  one pin and one place on a device. *Balancer:* two requests, two backends, and
  time enough for a cached answer to expire.
* *Algorithms:* inputs on both sides of every block, group and word length;
  weights and activations at their extremes; tables with a symbol that has all,
  one or none of the slots; scores with ties and NaN; broken UTF-8.

Names that begin with `Max` (`MaxTurns`, `MaxCrashes`, `MaxTokens`, ...), the
lists of `BatchSizes` and the sizes of a chunk or a text bound what is unbounded
in the program. Deadlock is checked in `cache`, whose system never stops. The
others may: every request ends, every batch is done, a budget is spent.

For every property of a passing run `PROJECT.json` lists mutants, each a
plausible slip in one mapped definition that the run must catch.

### Fairness

* `Scheduler`: weak fairness of `Wake` and `Finish`. A waiter wakes every
  0.25 s at the latest; a generation is bounded by `max_tokens`.
* `Gateway`: weak fairness of every handler, the dispatcher, the steps of
  `close()` once called, and the engine: they are threads the system runs.
  Nobody has to submit, close, interrupt or crash.
* `ExpertCache`: weak fairness of a read that has started, of its settlement
  and of the main thread at an open barrier. No load has to start.
* `PipePool`: weak fairness of the main thread and of every worker, and strong
  fairness of winning a compare-and-swap, since a weak exchange does not fail
  spuriously for ever.

`MCLive` states the fairness of the first, the second and the fourth for the part that
runs.

## Findings

1. **A PIPE straggler can claim a job of a batch that is not yet published**
   (`pipe_growing`). A worker that found its batch drained at index *n* loads
   `njobs` again (`c/colibri.c` 2682); if `pipe_dispatch` has just stored a
   larger value (2732) but not yet the new generation (2737), the exchange at
   2684 wins on the old cursor, and the worker reads `layer` and `eids` while
   they are being written. The comment at 2624 rules this out. When batches do
   not grow (`live`, and `PipePoolProofs`) it cannot happen.
2. **A file of another layout is ignored, then appended to; a save refused by a
   small context keeps its count** (`kv_files`). `kv_disk_load` refuses the
   file, `kv_disk_open` (28) opens it again for writing and never rewrites the
   header, so the old layout later resumes rows of the new one; `DSA=0` is
   enough to change the layout. A save too long for the context is overwritten
   from row 0 under its old count; a crash before the count is written leaves
   old and new rows, which a larger `CTX` resumes.
3. **A failing write of the response headers frees a slot in use**
   (`gateway_broken`). `end_headers()` (`c/openai_server.py` 1949) raises
   inside `generate()`, no CANCEL is sent, the scheduler gives the slot to the
   next request, and the engine answers `SLOT_BUSY`, against the comment at
   `c/colibri.c` 6981.
4. **Rows adopted from another slot do not reach a Vulkan mirror**
   (`kv_mirror`). The copy at `c/colibri.c` 7191 is made on the host; a mirror
   of the slot that is as long keeps its own rows, and attention reads those.
5. **A round of Inkling may evict a slot it has handed out** (`inkling_pins`).
   Rounds are cut by the capacity of the layer, of which the pins hold up to
   half for good; a round with more misses than loose slots evicts its own.
6. **An early group that fails is computed from the plain input**
   (`moe_fallback`). The fallback at `c/colibri.c` 4664-4672 takes `x` and
   rotates neither it nor the input of the down projection, unlike the loop
   (4624, 4639) and the other fallback (4763, 4770), and against the comment at
   4139-4141.

Noted while modelling, each at the edge of what a property here states:

* *Gateway and front end.* When `generate()` raises after the status line,
  `ka_stop` is not set; Anthropic headers go out before ACCEPT; an unknown kind
  of line stops the dispatcher (`openai_server.py` 1335, against
  `docs/serve_protocol.md` 29). Overlapping stop sequences, leading blanks
  under `ignore_leading` and split Inkling markers make the visible text depend
  on the chunks (`ReplyStream` leaves these inputs out). `cluster_lb` writes a
  second status line into a stream that breaks, and a late probe may replace a
  newer answer.
* *Serving.* A capped legacy turn that stops right after a pick forwards its
  last token twice on `MORE` (7455, 6169); a speculative mux turn never sets
  `length_limited` (7333); `CTX` has no minimum (7248). Kimi and Inkling take an
  unread payload for commands after a bad SUBMIT, Inkling ignores STOP, and
  CANCEL of what is queued; Kimi exits on a chat prompt of more than 65536
  tokens (1300).
* *Devices.* The ragged cache is only cut when the length falls
  (`backend_cuda.cu` 1618), so rows of a history that was shortened and grown
  again stay in it; a build with CUDA's pipeline and Vulkan leaves the mirror
  stale, since `attn_pipe_prefill` (3082) cuts only the shadow; the shadow is
  as blind to adopted rows as the mirror of finding 4. `SoundSetups` excludes
  these and that finding, and nothing else. The snapshot at 5624 is restored
  even when it was not taken (5322-5346), so `ForwardIsWholeAfterSnapshots`
  excludes it; the Vulkan tier's share and fallback never rotate inputs (4536,
  4558), which would matter in a layer whose experts are of another format than
  the registry takes (a container only of whose extra layer is in the lattice
  format, not modelled); Metal takes the first expert's format for its whole
  block.
* *Fallbacks.* The buffer that serves for the experts of a lost Vulkan device is
  loaded unless its `eid` is the expert's (`c/colibri.c` 4557, 4577); the layer
  is not compared, and the buffer keeps what an earlier call left in it, so
  another layer's weights may be used. With `MoeBuilds <- LostTier` in
  `MCEngineFallbacks.cfg`, TLC finds `FallbacksAreExact` violated by this.
* *OLMoE.* The slot `expert_get` returns is neither locked nor pinned while `moe`
  multiplies with it (`c/olmoe.c` 660-668). When the others of its layer are
  pinned, or have been loaded meanwhile, it is the one `pilot_realload` takes
  (747-774), if the eviction guard is off (`PILOT_EVICT_GUARD=0`) or the hint is
  the hotter expert: the product is then made from bytes that are being replaced.
* *Expert loads.* After a failed `io_uring_enter` old entries go with the next
  batch (5085); the RAM bank's client and its Python worker route ids
  differently past 2^32; a fetch of OLMoE may repeat a load in flight.
* *Formats.* A tensor without a stamp is told from its size. One row of int4
  with 195, 196, 391, 392, 587 or 588 columns reads as lattice format; a few
  more tiny shapes are ambiguous or refused (`FormatsAreToldApart` states the
  exact conditions), and grouped rows that end inside a group do not determine
  the group. `embed_row` has no case for formats 6 and 8.

## Proofs

Each `<module>Proofs` extends its module. An invariant of the runs is seldom
inductive; each section names the strengthening `Inv` and why it is needed.

`SchedulerProofs`, for every finite set of requests, every capacity of at least
one and every bound on the queue (`SchedulerAssumption`, which is what the
constructor accepts): `TypeCorrect`, `SlotsCorrect`, `QueueCorrect`,
`QueueIsBounded`, `NoHeadOfLineBlocking`, `NobodyIsOvertaken`,
`CountersCorrect`, `SchedulerImplementsSlotPool`.
`Inv == TypeOK /\ SlotsShared /\ QueueIsWaiters`. None of its parts stands
alone: that `Admit` takes a free slot needs the queue to hold no request twice,
`active <= Capacity` needs the count of free slots (`SlotsShared`), and
`Finish` returns a slot that is not free only because `held` is injective. One
lemma per way through `admit` shows that it keeps `Inv`; they are stated for
the queue *the request is in* (`Lists`), so that the first pass and later ones
share them. Removal from the deque rests on `RemoveAtProperties`.
`NoHeadOfLineBlocking` takes, for a free slot, the first entry of the queue
that wants any free one. `CountersCorrect` adds a cardinality for each counter.
The refinement maps `holder` to the inverse of `held`, and every step to an
`Acquire`, a `Release` or a stutter.

`ExpertCacheProofs`, for any layers, experts, capacity and finite set of loads:
`TypeCorrect`, `LayerIsSafe`, `HitsAreCorrect`, `ExpertsAreUnique`,
`SlabsAreExclusive`, `MatmulIsUndisturbed` (an action property). `Inv` says who
may write which slot (`Owned`: a reserved slot has one owner, a load that reads
it or has failed on it), that the count of loads in flight is theirs
(`Counted`), where the loads are with respect to the main thread (`Placed`:
behind the barrier there are none, which is what it establishes from
`g_pilot_inflight`), and that a miss is still missing when it is promoted.
Loads are threads, hence finitely many: the count is a cardinality.

`PipePoolProofs`, for any number of workers, jobs and batches, assuming
`NeverMore`: no batch is larger than the one before. `TypeCorrect`,
`MatmulIsRight`, `GrabsAreFresh`. Without it they are false (finding 1). `Inv`
ties the cursor to the main thread's step (`Cursor`: the index is at or above
`njobs` whenever the batch is not published), every worker's copy to the cursor
(`Copies`: never ahead of it), and every claimed job to its ready flag
(`Claims`, `Results`).

`PilotRingProofs`, for any number of threads, any ring whose size divides the
range of its indices: `TypeCorrect`, `HintsAreInOrder`. The elements ever
published are numbered from 0, and an index is the number of an element seen
through the wrap. The ring has let go of the elements below some *b*; `Inv`
says that those from *b* to the last are in it, that the producer writes beside
them, and that a thread whose element is *b* has read it whole. A claim then
succeeds only for *b*, because indices do not come round while a thread sleeps:
`MaxHints < Wrap`, a bound of the model that stands for 2^32 hints.
The same module has the batches that a pilot thread makes of what it took:
`ReadsAreOwned` of `UringBatch`, for any slots, experts, reads of a load and
sizes for which the queue has room for a batch. `RingInv` says that the tags of
a batch are those of the queue, in order, behind those the kernel has taken,
each of which is in flight, completed or reaped, and in one place only; that a
load waits for exactly what is outstanding of it, and is done when nothing is;
that a cell without what its load asked for has a read under way or a short
completion, or the load an error; and that no two loads share a slot. What is
outstanding of a load then goes down by the number of its completions, which is
a bijection (`ReapedCounts`), and `done` is never early.

`GatewayProofs`, for any requests, any number of slots and of tokens, and every
interleaving of handlers, dispatcher, `close()`, a dying engine and its loop:
`TypeCorrect`, `FramesAreInOrder`, `NobodyIsOrphaned`, `LateStopsAreSilent`;
and, assuming `HeadersAreWritten`, `SlotsAgree` and `NoSubmitWhileBusy`. Both
are false without that assumption (finding 3, run `gateway_broken`); the other
four do not need it. `Inv` follows one request through both processes: while
its SUBMIT is in the pipe there is no frame for it (`Unread`); while the engine
has it there is no last frame and no NOT_FOUND (`Working`); a STOP or CANCEL
finds it in a slot, or its last frame already written (`Begun`), which is why a
late answer always comes behind that frame (`Told`). `Ordered` is frame order
over what the handler has not taken (its events, then the pipe), in a form kept
by a prefix, by a tail and by more frames: those are lemmas, so that one lemma,
`StepOfEngine`, does the work for every step of the engine, given which frames
it writes and what it read. `Exclusive` says that a slot which the engine uses,
or was told to use, belongs to no other request that may still be submitted.
Two definitions were restated for this: the order of the DONEs of a Ctrl-C is
a choice of the one enumeration of the active slots that increases, and frames
are numbered over events and pipe, so that nothing filters a sequence.

`KvPersistProofs`, for any vocabulary, width, context and number of turns and
crashes, assuming `OneProcess`: one layout and one context size. `TypeCorrect`,
`MemoryIsOneConversation`, `SavedTurns`. With two of either they are false
(finding 2). `Inv` says which cells hold which rows of the memory (as many
records as `diskNrec`, and the cells an append has written so far), and that
the header's count is `diskNrec` unless no process loads the file (`FileIsWhole`,
`Made`, `Synced`). That cells of two records do not overlap is arithmetic, in
lemmas of its own.

`EngineProofs` has three parts of the decode.

* *Residual*, for any placement of the layers on host and devices, and any
  failures: `ForwardsAreWhole`. `ForwardInv` says for every place of the code
  which sum the residual is there: the layers below this one while it moves,
  with the parts a device has added already while `pipe_layer_sparse` runs; and
  that the device's snapshot is the sum from before the layer wherever the code
  may still fall back to it. That last part is what makes a fallback in the
  middle of a layer right, and is false after an early failure (`early`).
* *SpecTurns*, for any models, prompts, slots, lengths of drafts and contexts:
  `DraftsNeverShow`. `TurnsInv` says how far the history is ahead of the rows
  that count (one token, or the drafts accepted so far), that a batch computes
  the rows of the history with the drafts not yet verified behind it
  (`Batched`), and that a token the model refused was replaced, or is excluded
  from the next pick (`Avoided`). `SpecTurnsAssumption` asks that a model gives
  every token some successor, and for room for one draft in a context.
* *DeviceKv*, for any slots, prompts and sizes: `CopiesAreTheRows`, assuming
  `SoundSetups`. `RowsInv` says that the host has the rows of every slot's
  history (`Holding`), that copies on a device are prefixes of the host's rows
  for the slot that is bound (`CopyOf`), and that a ragged entry has rows of a
  history only extended since it was filled (`SlotIsSound`). One lemma,
  `StepAllIsSound`, serves the four places from which a forward reads. Without
  the assumption the property is false (finding 4, and the notes on devices).

`PartsProofs` has two parts whose state several actors share.

* *Balancer*, for any requests and backends, any time to live and any timeout:
  `ChoicesAreSound`. `BalancerInv` follows the age of each answer a thread
  holds: stored for less than the time to live when it was taken, and one
  timeout older at most for every backend probed after it. A cache entry has the
  time its question was asked, never after its answer, so that it expires in
  time whichever thread stores last. That the head of the sort exists, and is
  the choice, is the least element of three keys in turn.
* *HotStore*, for any layers, experts, devices and room on them:
  `HotStoreStaysSound`. `HotInv` adds that the pins at places `pin_load` has
  passed can be used, that what a device holds and what `pin_load` believes it
  has left never exceed its room, and that an expert evicted and not used since
  is no hotter than any pin of its layer, which halving keeps and against which
  admission asks for more. The number of a round's end (`boot.end`) matters
  here: with one expert a round, as TLC has it, a round is a single upload.

Out of the prover's reach, and only model-checked:

* liveness under fairness: `WaitersServed`, `RequestsEnd`, `AllBatchesComplete`,
  `BarrierOpens`;
* what recursive definitions and folds compute: `ReplyIsWhole` (`ReplyStream`),
  `EngineAlgorithmsMeetTheirReferences` (`Routing`, `IndexSelect`, `Kernels`,
  `Rans`, `Cfse`, and the chunks of `ChunkForward`) and
  `AlgorithmsMeetTheirReferences` (`Grammar`, `SchemaGrammar`, `Tokenizer`,
  `Sampling`, and `ExpertLoad`, whose bytes come in the order of a sort);
* `EveryExpertOnce`: `MoeCall` and the other engines count contributions with
  folds over lists of experts; `ResponsesAreFramed` selects from the sequence on
  the wire;
* `ServerTypeOK`, the types of both instances of `Gateway` in one run: those of
  `Gateway` itself are proved.

## Not modelled

* The memory model: `PipePool` and `PilotRing` interleave sequentially
  consistent steps. The release and acquire orders are not weakened further.
* Disk full, short writes of `.coli_kv`, and a loss of power (writes reordered
  by the disk).
* In `ExpertCache`, the order of use behind LRU, the eviction guard and pinned
  experts: a victim is any slot the scan may look at. `MoeCall` has the order.
* Malformed frames, telemetry lines, an engine whose frames the gateway does
  not know; the capacities of the pipes, whose ends are each read by a thread
  that does nothing else, or that polls between tokens.
* Rounding, and the order of float sums; device code and driver calls; the
  runtime self-tests of kernels.
* Templates other than K3's, the JSON reader, the index of the tensors, the
  leases of the RAM pool: text or bookkeeping without state between calls.
* Command line, planner, conversion, evaluation, web and desktop front ends.

## Plan

1. `ExpertLoad`: that a load is whole from any source, for any number of reads;
   it needs the sort replaced by its order.
2. `MoeCall` and `HttpReply`: that every expert is added once, for any size of a
   block, and that responses are framed, with sums and selections restated as
   functions over indices.
3. Refinement: `Gateway`'s admission by `Scheduler`, composed.
4. `UringBatch` past a broken ring: what the next batch meets depends on which
   entries the kernel kept.

## Running

```
tlc -workers 2 -config MCScheduler.cfg MCScheduler
tlapm SchedulerProofs.tla
```

`PROJECT.json` lists every run with its module and configuration, the mutants,
the theorems, and for every definition the lines of the source it models.
