------------------------------ MODULE DeviceKv ------------------------------
(***************************************************************************)
(* Where attention reads its keys and values in c/colibri.c:               *)
(* attention_rows and attn_pipe_prefill over the KVState of a slot         *)
(* (always written), the CUDA shadow and the Vulkan mirror of the bound    *)
(* slot (kv_dev_valid, vk_kv_valid), and the cache that                    *)
(* coli_cuda_attention_project_ragged keeps for every slot in              *)
(* c/backend_cuda.cu.  One layer stands for all.                           *)
(*                                                                         *)
(* A row is represented by the tokens it was computed from.  The length of *)
(* a device's copy is its watermark.  The fused kernel of Metal reads the  *)
(* host's rows and is left out.                                            *)
(***************************************************************************)
EXTENDS Naturals, Sequences, FiniteSets, SequencesExt

CONSTANTS RowTokens, RowPrompts,
          Setups,    \* builds and environments to explore
          MaxRows,   \* max_t
          Small,     \* the 4 rows up to which a batch absorbs
          PipeMin,   \* the 8 rows from which a prefill goes to the device
          TopK,      \* index_topk
          MaxBegun   \* bound of the model

ASSUME DeviceKvAssumption ==
    /\ {MaxRows, Small, PipeMin, TopK, MaxBegun} \subseteq Nat
    /\ RowPrompts \subseteq Seq(RowTokens) \ {<<>>}
    /\ \A p \in RowPrompts : Len(p) < MaxRows

VARIABLES
    setup,    \* the process: its slots and what is switched on
    bound,    \* m->kv
    hist,     \* ServeCtx.hist, len tokens of it
    host,     \* Lc, Rc
    shadow,   \* kv_dev_L, kv_dev_R up to kv_dev_valid
    mirror,   \* the Vulkan cache up to vk_kv_valid
    ragged,   \* RaggedKVEntry of each slot
    active,   \* slots with a turn under way
    read,     \* what the last attention read, and what it should have read
    begun

rowsVars == <<setup, bound, hist, host, shadow, mirror, ragged, active, read, begun>>

RowsOver(tokens) == [i \in 1..Len(tokens) |-> SubSeq(tokens, 1, i)]
Upto(rows, n) == SubSeq(rows, 1, IF n < Len(rows) THEN n ELSE Len(rows))

RowsInit ==
    /\ setup \in Setups
    /\ bound \in setup.slots
    /\ hist = [s \in setup.slots |-> <<>>]
    /\ host = [s \in setup.slots |-> <<>>]
    /\ ragged = [s \in setup.slots |-> <<>>]
    /\ shadow = <<>> /\ mirror = <<>>
    /\ active = {} /\ begun = 0
    /\ read = {}

\* Rows written in place from row n on; those after them stay.
Written(rows, n, new) == Upto(rows, n) \o new \o SubSeq(rows, n + Len(new) + 1, Len(rows))

\* What a copy of the first rows must read after it was brought up to row n.
Synced(copy, rows, n) ==
    IF Len(copy) < n THEN copy \o SubSeq(rows, Len(copy) + 1, n) ELSE copy

Reading(copy, n, tokens) == [got |-> Upto(copy, n), want |-> RowsOver(SubSeq(tokens, 1, n))]

\* dsa_nsel: a long context is read through the indexer's choice of rows.
Sparse(n) == setup.dsa /\ n > TopK
----------------------------------------------------------------------------
(* One sequence: prefill, verification of drafts, single steps.            *)

\* The prefill on the device: it shortens the shadow only.
Pipe(b, n, batch, tokens) ==
    LET last == n + Len(batch)
    IN /\ setup.pipe /\ Len(batch) >= PipeMin /\ ~Sparse(last)
       /\ read' = {Reading(b.rows, last, tokens)}
       /\ shadow' = Upto(b.shadow, n) /\ mirror' = b.mirror

\* Mutant: a rewrite that leaves the rows of the shadow.
FromHostKeepsShadow(b, n, batch, tokens) ==
    /\ read' = {Reading(b.rows, n + Len(batch), tokens)}
    /\ shadow' = b.shadow /\ mirror' = Upto(b.mirror, n)

\* The host's rows, by the CPU or copied for one call of a CUDA kernel.
FromHost(b, n, batch, tokens) ==
    /\ read' = {Reading(b.rows, n + Len(batch), tokens)}
    /\ shadow' = Upto(b.shadow, n) /\ mirror' = Upto(b.mirror, n)

\* kv_dev_sync, row by row: only when the output projection is elsewhere.
FromShadow(b, n, batch, tokens) ==
    LET copy == Synced(Upto(b.shadow, n), b.rows, n + Len(batch))
    IN /\ setup.cuda /\ setup.pipe /\ ~setup.projects /\ Len(batch) <= Small
       /\ ~Sparse(n + Len(batch))
       /\ read' = {Reading(copy, n + Len(batch), tokens)}
       /\ shadow' = copy /\ mirror' = Upto(b.mirror, n)

\* The mirror keeps the new rows even when the kernel fails afterwards.
FromMirror(b, n, batch, tokens) ==
    LET copy == Synced(Upto(b.mirror, n), b.rows, n + Len(batch))
    IN /\ setup.vulkan /\ Len(batch) <= Small /\ ~Sparse(n + Len(batch))
       /\ \E done \in BOOLEAN :
              read' = {Reading(IF done THEN copy ELSE b.rows, n + Len(batch), tokens)}
       /\ mirror' = copy /\ shadow' = Upto(b.shadow, n)

\* step, step_all on a bound slot: a batch after the first n tokens.
StepAll(b, n, batch, tokens) ==
    LET new == Written(b.rows, n, SubSeq(RowsOver(tokens), n + 1, n + Len(batch)))
        c == [b EXCEPT !.rows = new]
    IN /\ host' = [host EXCEPT ![b.slot] = new]
       /\ bound' = b.slot
       /\ \/ Pipe(c, n, batch, tokens)
          \/ FromHost(c, n, batch, tokens)
          \/ FromShadow(c, n, batch, tokens)
          \/ FromMirror(c, n, batch, tokens)
----------------------------------------------------------------------------
(* Turns.                                                                  *)

Common(a, b) == CHOOSE n \in 0..Len(a) : /\ n <= Len(b) /\ SubSeq(a, 1, n) = SubSeq(b, 1, n)
                                         /\ n < Len(a) /\ n < Len(b) => a[n + 1] # b[n + 1]

\* COLI_KV_SHARE: the slots whose history shares most with the prompt.
Donors(s, prompt) ==
    {d \in setup.slots \ {s} :
        /\ setup.share /\ Common(hist[d], prompt) > Common(hist[s], prompt)
        /\ \A other \in setup.slots \ {s} : Common(hist[other], prompt) <= Common(hist[d], prompt)}

Adopted(s, prompt, kept) ==
    IF Donors(s, prompt) = {} THEN [n |-> kept, rows |-> host[s]]
    ELSE LET d == CHOOSE d \in Donors(s, prompt) : TRUE
             n == Common(hist[d], prompt)
         IN [n |-> n, rows |-> Written(host[s], kept, SubSeq(host[d], kept + 1, n))]

\* Mutant: the mirror of one slot is taken for another's.
BoundKeepsMirror(s) ==
    [slot |-> s, rows |-> host[s], shadow |-> IF s = bound THEN shadow ELSE <<>>, mirror |-> mirror]

\* kv_bind: the copies of another slot's rows are dropped.
Bound(s) == [slot |-> s, rows |-> host[s], shadow |-> IF s = bound THEN shadow ELSE <<>>,
             mirror |-> IF s = bound THEN mirror ELSE <<>>]

\* mux_submit: bind, keep the common prefix, adopt, prefill what is new, or
\* the last token again when nothing is.
MuxSubmit(s, prompt) ==
    LET kept == Common(hist[s], prompt)
        adopted == Adopted(s, prompt, kept)
        n == IF adopted.n = Len(prompt) THEN adopted.n - 1 ELSE adopted.n
    IN /\ s \notin active /\ begun < MaxBegun
       /\ setup.extends => kept = Len(hist[s])
       /\ StepAll([Bound(s) EXCEPT !.rows = adopted.rows], n, SubSeq(prompt, n + 1, Len(prompt)), prompt)
       /\ hist' = [hist EXCEPT ![s] = prompt]
       /\ active' = active \cup {s} /\ begun' = begun + 1
       /\ UNCHANGED <<setup, ragged>>

\* A single slot speculates: a token and its drafts, of which some are kept.
VerifyDrafts(s, batch, keep) ==
    LET n == Len(hist[s])
    IN /\ setup.slots = {s} /\ s \in active
       /\ n + Len(batch) <= MaxRows
       /\ StepAll(Bound(s), n, batch, hist[s] \o batch)
       /\ hist' = [hist EXCEPT ![s] = @ \o SubSeq(batch, 1, keep)]
       /\ UNCHANGED <<setup, ragged, active, begun>>

\* mux_done, CANCEL: they bind the slot whose turn ends.
MuxDone(s) ==
    /\ s \in active /\ active' = active \ {s}
    /\ bound' = s /\ shadow' = Bound(s).shadow /\ mirror' = Bound(s).mirror
    /\ UNCHANGED <<setup, hist, host, ragged, read, begun>>
----------------------------------------------------------------------------
(* A round of step_decode_batch: one token of every active slot.           *)

\* coli_cuda_attention_project_ragged: the entry of a slot starts again when
\* the context is shorter than it, and gets the rows it lacks otherwise.
Appended(s, rows) == Synced(IF Len(hist[s]) + 1 < Len(ragged[s]) THEN <<>> ELSE ragged[s],
                            rows, Len(hist[s]) + 1)

RoundTokens(s, token) == Append(hist[s], token[s])
RoundRows(s, token) == Written(host[s], Len(hist[s]), <<RoundTokens(s, token)>>)

RaggedRound(token) ==
    LET copy == [s \in active |-> Appended(s, RoundRows(s, token))]
    IN /\ setup.cuda /\ setup.projects /\ ~setup.dsa
       /\ read' = {Reading(copy[s], Len(hist[s]) + 1, RoundTokens(s, token)) : s \in active}
       /\ ragged' = [s \in setup.slots |-> IF s \in active THEN copy[s] ELSE ragged[s]]
       /\ shadow' = IF bound \in active THEN Upto(shadow, Len(hist[bound])) ELSE shadow

\* Row by row on the device: the bound slot from its shadow.
ShadowRound(token) ==
    LET n == Len(hist[bound]) + 1
        copy == Synced(Upto(shadow, n - 1), RoundRows(bound, token), n)
    IN /\ setup.cuda /\ setup.pipe /\ (setup.dsa \/ ~setup.projects)
       /\ bound \in active /\ Cardinality(active) <= Small /\ ~Sparse(n)
       /\ read' = {Reading(IF s = bound THEN copy ELSE RoundRows(s, token),
                           Len(hist[s]) + 1, RoundTokens(s, token)) : s \in active}
       /\ shadow' = copy
       /\ UNCHANGED ragged

\* The CPU, after a failure too: an entry that was too long has been reset.
HostRound(token) ==
    /\ read' = {Reading(RoundRows(s, token), Len(hist[s]) + 1, RoundTokens(s, token)) : s \in active}
    /\ shadow' = IF bound \in active THEN Upto(shadow, Len(hist[bound])) ELSE shadow
    /\ \/ UNCHANGED ragged
       \/ /\ setup.cuda /\ setup.projects /\ ~setup.dsa
          /\ ragged' = [s \in setup.slots |->
                           IF s \in active /\ Len(hist[s]) + 1 < Len(ragged[s])
                           THEN <<>> ELSE ragged[s]]

DecodeRound(token) ==
    /\ active # {}
    /\ \A s \in active : Len(hist[s]) < MaxRows
    /\ RaggedRound(token) \/ ShadowRound(token) \/ HostRound(token)
    /\ host' = [s \in setup.slots |-> IF s \in active THEN RoundRows(s, token) ELSE host[s]]
    /\ hist' = [s \in setup.slots |-> IF s \in active THEN RoundTokens(s, token) ELSE hist[s]]
    /\ mirror' = IF bound \in active THEN Upto(mirror, Len(hist[bound])) ELSE mirror
    /\ UNCHANGED <<setup, bound, active, begun>>

Batches == UNION {[1..n -> RowTokens] : n \in 1..Small}

RowsNext ==
    \/ \E s \in setup.slots, prompt \in RowPrompts : MuxSubmit(s, prompt)
    \/ \E s \in setup.slots : MuxDone(s)
    \/ \E s \in active, batch \in Batches : \E keep \in 1..Len(batch) : VerifyDrafts(s, batch, keep)
    \/ \E token \in [active -> RowTokens] : DecodeRound(token)

RowsSpec == RowsInit /\ [][RowsNext]_rowsVars
----------------------------------------------------------------------------
RowsTypeOK ==
    /\ setup \in Setups /\ bound \in setup.slots /\ active \subseteq setup.slots
    /\ hist \in [setup.slots -> Seq(RowTokens)]
    /\ host \in [setup.slots -> Seq(Seq(RowTokens))]
    /\ ragged \in [setup.slots -> Seq(Seq(RowTokens))]
    /\ \A s \in setup.slots : /\ Len(hist[s]) <= Len(host[s]) /\ Len(host[s]) <= MaxRows
                              /\ Len(ragged[s]) <= Len(host[s])
    /\ {shadow, mirror} \subseteq Seq(Seq(RowTokens))
    /\ Len(shadow) <= Len(host[bound]) /\ Len(mirror) <= Len(host[bound])
    /\ begun \in 0..MaxBegun

\* The processes whose copies are kept right: no build mixes a prefill on one
\* device with a mirror on another, slots that adopt rows have no copy of the
\* bound slot, and where a ragged cache is kept, prompts extend histories.
SoundSetups ==
    \A c \in Setups :
        /\ ~(c.pipe /\ c.vulkan)
        /\ c.share => \/ \A s \in c.slots : c.slots = {s}
                      \/ ~(c.cuda /\ c.pipe) /\ ~c.vulkan
        /\ c.cuda /\ c.projects /\ ~c.dsa => c.extends

(* attention_rows: whichever copy of the rows a step reads, on the host or *)
(* on a device, it reads the rows of the conversation it continues.        *)
AttentionReadsHost == RowsTypeOK /\ \A r \in read : r.got = r.want
=============================================================================
