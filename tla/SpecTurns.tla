----------------------------- MODULE SpecTurns -----------------------------
(***************************************************************************)
(* How a turn is decoded in c/colibri.c: spec_decode, the loop of          *)
(* run_serve (PROMPT, text, MORE, RESET) and the decode part of            *)
(* run_serve_mux, with the adoption of another slot's prefix.              *)
(*                                                                         *)
(* A row of the KV cache is represented by the tokens it was computed      *)
(* from: the row before it, and its own token.  The model gives, for the   *)
(* last token of a row, the tokens it may be followed by: one when         *)
(* decoding is greedy, the support of the distribution when it samples.    *)
(* Drafts come from a grammar, a corpus, the MTP head or the n-grams of    *)
(* the context; nothing depends on which, so any short sequence is one.    *)
(***************************************************************************)
EXTENDS Naturals, Sequences, SequencesExt

CONSTANTS Slots,      \* KV_SLOTS contexts; one of them may be all there is
          FirstSlot,  \* the first of them
          Tokens, Stop,
          Models,     \* functions from Tokens to non-empty sets of tokens
          Prompts,    \* tokenized prompts
          MaxCtx,     \* CTX, also max_t
          Spare,      \* the 8 tokens run_serve keeps free of a prompt
          Draft,      \* g_draft, when speculation is on
          Budget,     \* max_tokens, NGEN
          MaxTurns    \* bound of the model

ASSUME SpecTurnsAssumption ==
    /\ FirstSlot \in Slots /\ Stop \notin Tokens
    /\ Models \subseteq [Tokens -> (SUBSET (Tokens \cup {Stop})) \ {{}}]
    /\ Prompts \subseteq Seq(Tokens)
    /\ {MaxCtx, Spare, Draft, Budget, MaxTurns} \subseteq Nat
    /\ MaxCtx > Spare + Draft + 2 /\ Draft > 0 /\ Budget > 0

VARIABLES
    engine,  \* what is fixed for the process, and the current context of run_serve
    ctx,     \* ServeCtx: hist, len, and the rows of the cache
    turn     \* ServeReq and the locals of spec_decode, for each slot

turnsVars == <<engine, ctx, turn>>

NoTurn == [at |-> "idle", budget |-> 0, base |-> 0, logit |-> <<>>, ban |-> {}, draft |-> <<>>,
           k |-> 0, cut |-> FALSE, cause |-> "none", refused |-> <<>>]

TurnsInit ==
    /\ \E model \in Models, loop \in {"serve", "mux"}, slots \in {{FirstSlot}, Slots}, share \in BOOLEAN :
           engine = [model |-> model, loop |-> loop, slots |-> slots, share |-> share, sc |-> FirstSlot,
                     greedy |-> \A t \in Tokens : \E u \in model[t] : model[t] = {u},
                     draft |-> IF loop = "mux" /\ slots # {FirstSlot} THEN 0 ELSE Draft,
                     turns |-> 0]
    /\ ctx = [s \in Slots |-> [hist |-> <<>>, len |-> 0, rows |-> <<>>]]
    /\ turn = [s \in Slots |-> NoTurn]

Least(m, n) == IF m < n THEN m ELSE n
Minus(m, n) == IF m < n THEN 0 ELSE m - n

AtMost(seq, n) == SubSeq(seq, 1, Least(n, Len(seq)))
Likely(row) == engine.model[Last(row)]
Emitted(s) == Len(ctx[s].hist) - turn[s].base

\* step, step_all: the rows of a batch, after the first n rows of a context.
Forward(c, n, batch) ==
    LET before == IF n = 0 THEN <<>> ELSE c.rows[n]
    IN [c EXCEPT !.rows = SubSeq(@, 1, n) \o [i \in 1..Len(batch) |-> before \o SubSeq(batch, 1, i)]]

GoOn(s, at, c, t) ==
    /\ ctx' = [ctx EXCEPT ![s] = c]
    /\ turn' = [turn EXCEPT ![s] = [t EXCEPT !.at = at]]

End(s, cause, c, t) == GoOn(s, "end", c, [t EXCEPT !.cause = cause, !.logit = <<>>, !.draft = <<>>,
                                                  !.k = 0, !.ban = {}])
----------------------------------------------------------------------------
(* A prompt: the prefix it shares with the context is kept, the rest is    *)
(* prefilled.                                                              *)

Shared(c, p) ==
    LET short == Least(c.len, Len(p))
    IN CHOOSE n \in 0..short :
           /\ SubSeq(c.hist, 1, n) = SubSeq(p, 1, n)
           /\ n < short => c.hist[n + 1] # p[n + 1]

\* Mutant: the length is kept when the prompt differs.
KeepAll(c, p) ==
    LET n == Least(c.len, Len(p)) IN [hist |-> SubSeq(p, 1, n), len |-> n, rows |-> c.rows]

Keep(c, p) ==
    LET n == Shared(c, p) IN [hist |-> SubSeq(c.hist, 1, n), len |-> n, rows |-> c.rows]

\* COLI_KV_SHARE: rows of the slot that shares most, when it shares more.
Adopt(s, c, p) ==
    LET More == {d \in engine.slots \ {s} : Shared(ctx[d], p) > c.len}
        best == CHOOSE d \in More : \A e \in More : Shared(ctx[e], p) <= Shared(ctx[d], p)
    IN IF ~engine.share \/ More = {} THEN c
       ELSE LET n == Shared(ctx[best], p)
            IN [hist |-> SubSeq(p, 1, n), len |-> n,
                rows |-> SubSeq(c.rows, 1, c.len) \o SubSeq(ctx[best].rows, c.len + 1, n)]

\* A prompt that is already there has its last token forwarded again.
Prefill(c, p) ==
    LET n == IF c.len < Len(p) THEN c.len ELSE c.len - 1
    IN [Forward(c, n, SubSeq(p, n + 1, Len(p))) EXCEPT !.hist = p, !.len = Len(p)]

Begin(s, at, c, budget) ==
    /\ IF budget > 0
       THEN GoOn(s, at, c, [NoTurn EXCEPT !.budget = budget, !.base = c.len, !.logit = Last(c.rows)])
       ELSE End(s, "cap", c, [NoTurn EXCEPT !.base = c.len])
    /\ engine' = [engine EXCEPT !.turns = @ + 1, !.sc = s]

Quiet == \A s \in engine.slots : turn[s].at = "idle"
Allowed(len) == Least(Budget, Minus(MaxCtx, len + engine.draft + 2))

\* run_serve, PROMPT.  The encoder stops at its limit.
Prompt(s, prompt) ==
    /\ engine.loop = "serve" /\ Quiet /\ engine.turns < MaxTurns
    /\ LET p == AtMost(prompt, MaxCtx - Spare - engine.draft)
           c == Keep(ctx[s], p)
       IN IF p = <<>>
          THEN GoOn(s, "idle", c, turn[s]) /\ engine' = [engine EXCEPT !.turns = @ + 1, !.sc = s]
          ELSE Begin(s, "pick", Prefill(c, p), Allowed(Len(p)))

\* run_serve, a line of text for the first context; a full one starts again.
Text(s, input) ==
    /\ engine.loop = "serve" /\ Quiet /\ engine.turns < MaxTurns
    /\ s = FirstSlot /\ input # <<>>
    /\ LET c == ctx[s]
           full == c.len + Len(input) + Spare + engine.draft >= MaxCtx
           p == IF full THEN AtMost(input, MaxCtx - Spare - engine.draft)
                        ELSE SubSeq(c.hist, 1, c.len) \o input
       IN Begin(s, "pick", Prefill([c EXCEPT !.len = IF full THEN 0 ELSE @], p), Allowed(Len(p)))

\* MORE goes on in the current context, from the token before len.
MoreOf(s) ==
    /\ engine.loop = "serve" /\ Quiet /\ engine.turns < MaxTurns
    /\ s = engine.sc /\ ctx[s].len > 0
    /\ Begin(s, "pick", Prefill(ctx[s], SubSeq(ctx[s].hist, 1, ctx[s].len)), Allowed(ctx[s].len))

Reset(s) ==
    /\ engine.loop = "serve" /\ Quiet
    /\ s = engine.sc /\ ctx[s].len > 0
    /\ GoOn(s, "idle", [ctx[s] EXCEPT !.hist = <<>>, !.len = 0], turn[s])
    /\ UNCHANGED engine

\* mux_submit.  Without speculation the first token is picked at once.
Submit(s, p) ==
    /\ engine.loop = "mux" /\ turn[s].at = "idle" /\ engine.turns < MaxTurns
    /\ p # <<>> /\ Len(p) <= MaxCtx - 2
    /\ LET c == Prefill(Adopt(s, Keep(ctx[s], p), p), p)
       IN Begin(s, IF engine.draft > 0 THEN "pick" ELSE "first", c,
                Least(Budget, Minus(MaxCtx, Len(p) + 1)))
----------------------------------------------------------------------------
(* spec_decode                                                             *)

Say(c, token) == [c EXCEPT !.hist = Append(@, token)]

\* Mutant: the token that verification refused is not excluded.
PicksAny(t) == Likely(t.logit)

Pickable(t) == IF engine.greedy \/ Likely(t.logit) \subseteq t.ban
               THEN Likely(t.logit) ELSE Likely(t.logit) \ t.ban

Leaving(t, n) == n >= t.budget \/ t.cut

PickToken(s) ==
    /\ turn[s].at = "pick" /\ ~Leaving(turn[s], Emitted(s))
    /\ \E token \in Pickable(turn[s]) :
           LET t == [turn[s] EXCEPT !.logit = <<>>, !.ban = {}]
               c == Say(ctx[s], token)
           IN IF token = Stop THEN End(s, "stop", ctx[s], t)
              ELSE IF Emitted(s) + 1 >= t.budget THEN End(s, "cap", c, t)
              ELSE GoOn(s, "draft", c, t)
    /\ UNCHANGED engine

LeaveLoop(s) ==
    /\ turn[s].at = "pick" /\ Leaving(turn[s], Emitted(s))
    /\ End(s, IF turn[s].cut THEN "cut" ELSE "cap", ctx[s], turn[s])
    /\ UNCHANGED engine

\* grammar_draft, corpus_draft, mtp_draft and ngram_draft, or a paused source.
Drafts == {<<>>} \cup UNION {[1..n -> Tokens \cup {Stop}] : n \in 1..Draft}

Fits(s, g) ==
    LET n == Least(g, turn[s].budget - Emitted(s))
    IN IF ctx[s].len + 1 + n + 1 > MaxCtx THEN Minus(MaxCtx, ctx[s].len + 2) ELSE n

Speculate(s) ==
    /\ turn[s].at = "draft"
    /\ \E d \in Drafts :
           LET draft == SubSeq(d, 1, Fits(s, Len(d)))
               c == ctx[s]
           IN GoOn(s, "verify", Forward(c, c.len, <<Last(c.hist)>> \o draft),
                   [turn[s] EXCEPT !.draft = draft, !.k = 0])
    /\ UNCHANGED engine

\* Mutant: every row of the batch counts.
SettledAll(s) ==
    LET n == Len(ctx[s].rows) IN
    <<[ctx[s] EXCEPT !.len = n, !.hist = Last(ctx[s].rows)],
      [turn[s] EXCEPT !.logit = ctx[s].rows[n], !.draft = <<>>, !.k = 0]>>

\* The end of verification: 1 + k rows count, and the logits of the last.
Settled(s) ==
    LET n == ctx[s].len + 1 + turn[s].k IN
    <<[ctx[s] EXCEPT !.len = n],
      [turn[s] EXCEPT !.logit = ctx[s].rows[n], !.draft = <<>>, !.k = 0]>>

Verify(s) ==
    /\ turn[s].at = "verify"
    /\ LET t == turn[s]
           here == Likely(ctx[s].rows[ctx[s].len + 1 + t.k])
           token == t.draft[t.k + 1]
           rest == Settled(s)
       IN IF t.k = Len(t.draft) \/ Emitted(s) >= t.budget
          THEN GoOn(s, "pick", rest[1], rest[2])
          ELSE \/ /\ token \in here /\ token # Stop
                  /\ GoOn(s, "verify", Say(ctx[s], token), [t EXCEPT !.k = @ + 1])
               \/ /\ token \in here /\ token = Stop
                  /\ End(s, "stop", rest[1], rest[2])
               \/ /\ here # {token} /\ (engine.greedy => token \notin here)
                  /\ GoOn(s, "pick", rest[1],
                          [rest[2] EXCEPT !.ban = IF engine.greedy THEN {} ELSE {token},
                                          !.refused = Say(ctx[s], token).hist])
    /\ UNCHANGED engine

\* SIGINT, or STOP and CANCEL read by the emit callback.
Interrupt(s) ==
    /\ turn[s].at \in {"draft", "verify", "pick"} /\ ~turn[s].cut
    /\ turn' = [turn EXCEPT ![s].cut = TRUE]
    /\ UNCHANGED <<engine, ctx>>
----------------------------------------------------------------------------
(* run_serve_mux without speculation: one token is always pending.         *)

\* A token picked after row n: the last of the turn, or the pending one.
Pend(s, c, t, at) ==
    \E token \in Likely(c.rows[c.len]) :
        LET said == Say(c, token) IN
        IF token = Stop THEN End(s, "stop", c, t)
        ELSE IF Len(said.hist) - t.base >= t.budget THEN End(s, "cap", said, t)
        ELSE GoOn(s, IF t.k < Len(t.draft) /\ token = t.draft[t.k + 1] THEN at ELSE "round",
                  said, [t EXCEPT !.k = @ + 1])

FirstToken(s) ==
    /\ turn[s].at = "first"
    /\ Pend(s, ctx[s], [turn[s] EXCEPT !.logit = <<>>], "round")
    /\ UNCHANGED engine

\* One row of the batch, or a span forced by the grammar of the request.
Round(s) ==
    /\ turn[s].at = "round"
    /\ \E d \in Drafts :
           LET c == ctx[s]
               n == IF ~engine.greedy \/ c.len + 1 + Len(d) >= MaxCtx - 1 THEN 0
                    ELSE Len(d)
               draft == SubSeq(d, 1, n)
           IN GoOn(s, "rows", Forward(c, c.len, <<Last(c.hist)>> \o draft),
                   [turn[s] EXCEPT !.draft = draft, !.k = 0])
    /\ UNCHANGED engine

RoundRow(s) ==
    /\ turn[s].at = "rows"
    /\ Pend(s, [ctx[s] EXCEPT !.len = @ + 1], turn[s], "rows")
    /\ UNCHANGED engine

\* STOP, CANCEL or SIGINT, between two rounds.
Cut(s) ==
    /\ turn[s].at = "round"
    /\ End(s, "cut", ctx[s], turn[s])
    /\ UNCHANGED engine

\* The tail of a turn: END or DONE, and the history is saved (KvPersist).
FinishTurn(s) ==
    /\ turn[s].at = "end"
    /\ GoOn(s, "idle", [ctx[s] EXCEPT !.hist = SubSeq(@, 1, ctx[s].len)], NoTurn)
    /\ UNCHANGED engine
----------------------------------------------------------------------------
TurnsNext ==
    \E s \in engine.slots :
        \/ \E p \in Prompts : Prompt(s, p) \/ Text(s, p) \/ Submit(s, p)
        \/ MoreOf(s) \/ Reset(s)
        \/ PickToken(s) \/ LeaveLoop(s) \/ Speculate(s) \/ Verify(s) \/ Interrupt(s)
        \/ FirstToken(s) \/ Round(s) \/ RoundRow(s) \/ Cut(s) \/ FinishTurn(s)

TurnsSpec == TurnsInit /\ [][TurnsNext]_turnsVars
----------------------------------------------------------------------------
TurnsTypeOK ==
    /\ engine.turns \in 0..MaxTurns /\ engine.sc \in engine.slots
    /\ \A s \in Slots :
        /\ ctx[s].len \in 0..MaxCtx /\ ctx[s].hist \in Seq(Tokens)
        /\ Len(ctx[s].rows) <= MaxCtx
        /\ turn[s].at \in {"idle", "pick", "draft", "verify", "first", "round", "rows", "end"}
        /\ turn[s].k \in 0..(Draft + 1)

(* The rows a turn goes on from are those of its history, whatever was     *)
(* refused, reused or adopted.                                             *)
RowsFollowHistory ==
    \A s \in Slots : \A n \in 1..ctx[s].len : ctx[s].rows[n] = SubSeq(ctx[s].hist, 1, n)

(* Every token of a reply is one the model gives after the tokens before   *)
(* it; a turn that stops by itself stops where the model may stop.         *)
RepliesAreTheModels ==
    \A s \in Slots : turn[s].at # "idle" =>
        LET hist == ctx[s].hist IN
        /\ \A n \in (turn[s].base + 1)..Len(hist) : hist[n] \in engine.model[hist[n - 1]]
        /\ turn[s].cause = "cap" => Emitted(s) >= turn[s].budget
        /\ turn[s].cause = "stop" => Stop \in engine.model[Last(hist)]
        /\ Emitted(s) <= turn[s].budget

(* A token that verification refused is not the one in its place.          *)
RefusedIsNotPicked ==
    \A s \in Slots : turn[s].refused # <<>> => ~IsPrefix(turn[s].refused, ctx[s].hist)

(* spec_decode, run_serve and run_serve_mux: what is emitted does not show *)
(* that drafts were verified, some refused, rows reused or adopted from    *)
(* another slot.                                                           *)
SpeculationIsInvisible == TurnsTypeOK /\ RowsFollowHistory /\ RepliesAreTheModels /\ RefusedIsNotPicked
=============================================================================
