------------------------------ MODULE SideServe ------------------------------
(***************************************************************************)
(* The serve loops of c/kimi_k3.c and c/inkling.c, one request at a time   *)
(* over the pipes of the gateway, and the chat loop of c/olmoe.c: control  *)
(* lines are read between two tokens, each request is a forward from a     *)
(* reset state, each turn of the chat continues the rows of the last.      *)
(* The state of the model is the tokens it was computed from: rows, one    *)
(* per position, and a rolling part (convolutions, linear attention).      *)
(***************************************************************************)
EXTENDS Integers, Sequences, FiniteSets, SequencesExt

CONSTANTS Engines,     \* of "kimi", "inkling", "olmoe"
          Asks,        \* per engine, what the nth request or turn may be: prompt, limit, kind
          Plain,       \* tokens with a text
          Sampled,     \* those the model may answer with
          CtxMax,      \* K3_MAXT, CTX_MAX; the context of the chat
          Margin,      \* 8: rows beyond what a request asked for
          QueueMax,    \* SRV_QMAX: requests Inkling keeps
          MaxCommands  \* bound on the lines read

Marks == {"open", "close", "sep", "eom"}        \* K3's structural tokens

SideServeAssumption ==
    /\ Engines \subseteq {"kimi", "inkling", "olmoe"}
    /\ \A e \in Engines : \A n \in DOMAIN Asks[e] : Asks[e][n] \subseteq
           [prompt : Seq(Plain), max : Nat \ {0},
            kind : IF e = "kimi" THEN {"raw", "chat", "think", "invalid"} ELSE {"raw"}]
    /\ Sampled \subseteq Plain
    /\ Plain \cap (Marks \cup {"response", "eos", "none"}) = {}
    /\ CtxMax \in Nat /\ Margin \in Nat /\ QueueMax \in Nat
    /\ MaxCommands \in Nat

VARIABLES
    engine,   \* which program
    phase,    \* where it is: "idle", "sample", "drain", "closed"
    req,      \* the request served
    queue,    \* Inkling's g_q
    conv,     \* the tokens the next logits are to be of
    rows,     \* the rows, by position, and how many were allocated
    rolling,  \* the tokens the rolling state has seen
    tag,      \* K3: inside a structural run, whether it opens, its text
    gen,      \* the tokens sampled for the request
    stop,     \* why the reply ends: "no", "eos", "cancelled", "eof"
    frames,   \* the lines printed
    read      \* lines read, requests numbered, those a line asked to end, whether the input has ended

vars == <<engine, phase, req, queue, conv, rows, rolling, tag, gen, stop, frames, read>>

NoReq == [id |-> 0]
NoTag == [in |-> FALSE, open |-> FALSE, text |-> <<>>]
Line(kind, id, text) == [kind |-> kind, id |-> id, text |-> text]

Init ==
    /\ engine \in Engines
    /\ phase = "idle" /\ req = NoReq /\ queue = <<>>
    /\ conv = <<>> /\ rolling = <<>>
    /\ rows = [n \in 1..(IF engine = "olmoe" THEN CtxMax ELSE 0) |-> "none"]
    /\ tag = NoTag /\ gen = <<>> /\ stop = "no" /\ frames = <<>>
    /\ read = [lines |-> 0, submits |-> 0, named |-> {}, ended |-> FALSE]

----------------------------------------------------------------------------
(* The control lines.  A SUBMIT has a header and a payload, which is left  *)
(* in the pipe when the header is bad; the next line read is then one of   *)
(* its own, of no use.                                                     *)
Commands == {[cmd |-> "CANCEL", id |-> i] : i \in 1..read.submits}
            \cup {[cmd |-> "STOP", id |-> i] : i \in 1..read.submits}
            \cup {[cmd |-> c, id |-> 0] : c \in {"other", "bad"}}

NextId == read.submits + 1
CanRead == ~read.ended /\ read.lines < MaxCommands
Counted(submit, named) ==
    read' = [read EXCEPT !.lines = @ + 1, !.submits = @ + (IF submit THEN 1 ELSE 0), !.named = @ \cup named]
Printed(line) == frames' = Append(frames, line)

\* Mutant: any CANCEL ends the reply.
CancelsAny(c, id) == c.cmd = "CANCEL" /\ id # 0

\* Whether a line ends the reply of the request id.
Cancels(c, id) == c.id = id /\ id # 0 /\ (c.cmd = "CANCEL" \/ (engine = "kimi" /\ c.cmd = "STOP"))

----------------------------------------------------------------------------
(* serve_one: the prompt, the reset, the prefill.                          *)
Fresh(n) == [p \in 1..n |-> "none"]
Wanted(r) == Len(r.prompt) + r.max + Margin

\* kv_alloc: Inkling keeps the rows it has when they are enough.
Allocated(r) == IF engine = "inkling" /\ Wanted(r) <= Len(rows) THEN rows ELSE Fresh(Wanted(r))

Written(s, tokens, pos) == [p \in DOMAIN s |-> IF p - pos \in DOMAIN tokens THEN tokens[p - pos] ELSE s[p]]

\* Mutant: the rolling state is not cleared.
ResetKept == rolling

\* model_state_reset, state_reset.
Reset == <<>>

Refused(r) == r.kind = "invalid" \/ Len(r.prompt) = 0 \/ Len(r.prompt) + r.max > CtxMax

Serve(r) ==
    IF Refused(r)
    THEN /\ Printed(Line("ERROR", r.id, "none")) /\ phase' = "idle"
         /\ UNCHANGED <<engine, req, conv, rows, rolling, tag, gen, stop>>
    ELSE /\ frames' = IF engine = "kimi" THEN Append(frames, Line("ACCEPT", r.id, "none")) ELSE frames
         /\ req' = r /\ conv' = r.prompt
         /\ rows' = Written(Allocated(r), r.prompt, 0)
         /\ rolling' = Reset \o r.prompt
         /\ tag' = NoTag /\ gen' = <<>> /\ stop' = "no"
         /\ phase' = "sample"
         /\ UNCHANGED engine

----------------------------------------------------------------------------
(* serve_loop, between two requests.                                       *)
ReadSubmit(r) ==
    /\ engine # "olmoe" /\ phase = "idle" /\ queue = <<>> /\ CanRead
    /\ Counted(TRUE, {})
    /\ Serve(r @@ [id |-> NextId])
    /\ UNCHANGED queue

TakeQueued ==
    /\ phase = "idle" /\ queue # <<>>
    /\ queue' = Tail(queue)
    /\ Serve(Head(queue))
    /\ UNCHANGED read

ReadIdle(c) ==
    /\ engine # "olmoe" /\ phase = "idle" /\ queue = <<>> /\ CanRead
    /\ Counted(FALSE, {c.id})
    /\ frames' = IF c.cmd = "bad" THEN Append(frames, Line("ERROR", 0, "none")) ELSE frames
    /\ UNCHANGED <<engine, phase, req, queue, conv, rows, rolling, tag, gen, stop>>

EndOfInput ==
    /\ phase = "idle" /\ queue = <<>>
    /\ phase' = "closed" /\ read' = [read EXCEPT !.ended = TRUE]
    /\ UNCHANGED <<engine, req, queue, conv, rows, rolling, tag, gen, stop, frames>>

----------------------------------------------------------------------------
(* A token.  K3 hides the runs <open|close> TEXT <sep> of its chat, but    *)
(* tells where a reasoning reply starts its response.                      *)
Chat == req.kind # "raw"
Thinks == req.kind = "think"

Tagged(t) ==
    CASE ~Chat -> NoTag
      [] t \in {"open", "close"} -> [in |-> TRUE, open |-> t = "open", text |-> <<>>]
      [] t = "sep" -> [tag EXCEPT !.in = FALSE]
      [] t \notin {"open", "close", "sep"} /\ tag.in -> [tag EXCEPT !.text = Append(@, t)]
      [] OTHER -> tag

\* Mutant: the run's text is shown.
ShownTags(t) ==
    CASE t = "eos" -> <<>>
      [] Chat /\ t = "sep" /\ tag.in /\ tag.open /\ tag.text = <<"response">> /\ Thinks -> <<"</think>">>
      [] Chat /\ t \in Marks -> <<>>
      [] OTHER -> <<t>>

Shown(t) ==
    CASE t = "eos" -> <<>>
      [] Chat /\ t = "sep" /\ tag.in /\ tag.open /\ tag.text = <<"response">> /\ Thinks -> <<"</think>">>
      [] Chat /\ (t \in Marks \/ tag.in) -> <<>>
      [] OTHER -> <<t>>

Sample(t) ==
    /\ engine # "olmoe" /\ phase = "sample"
    /\ frames' = frames \o [i \in DOMAIN Shown(t) |-> Line("DATA", req.id, Shown(t)[i])]
    /\ tag' = Tagged(t)
    /\ gen' = Append(gen, t)
    /\ stop' = IF t = "eos" THEN "eos" ELSE "no"
    /\ phase' = "drain"
    /\ UNCHANGED <<engine, req, queue, conv, rows, rolling, read>>

\* Inkling reads no line after the end of text.
Drains == phase = "drain" /\ CanRead /\ (engine = "inkling" => stop # "eos")

ReadBusy(c) ==
    /\ Drains
    /\ Counted(FALSE, {c.id})
    /\ stop' = IF Cancels(c, req.id) THEN "cancelled" ELSE stop
    /\ frames' = IF c.cmd = "bad" THEN Append(frames, Line("ERROR", 0, "none")) ELSE frames
    /\ UNCHANGED <<engine, phase, req, queue, conv, rows, rolling, tag, gen>>

\* Mutant: a request the queue has no room for is forgotten.
FullIsSilent(r) ==
    /\ Drains
    /\ Counted(TRUE, {})
    /\ queue' = IF engine = "inkling" /\ Len(queue) < QueueMax
                THEN Append(queue, r @@ [id |-> NextId]) ELSE queue
    /\ UNCHANGED <<engine, phase, req, conv, rows, rolling, tag, gen, stop, frames>>

\* K3 serves one request and keeps none; Inkling keeps a few.
ReadSubmitBusy(r) ==
    /\ Drains
    /\ Counted(TRUE, {})
    /\ IF engine = "inkling" /\ Len(queue) < QueueMax
       THEN queue' = Append(queue, r @@ [id |-> NextId]) /\ UNCHANGED frames
       ELSE Printed(Line("ERROR", NextId, "none")) /\ UNCHANGED queue
    /\ UNCHANGED <<engine, phase, req, conv, rows, rolling, tag, gen, stop>>

\* Inkling meets the end of the input again in every request it had queued.
MeetsTheEnd == phase = "drain" /\ engine = "inkling" /\ read.ended /\ stop # "eos"

\* The input ends during a reply: K3 finishes it as cancelled, Inkling drops it.
EndOfInputBusy ==
    /\ Drains \/ MeetsTheEnd
    /\ read' = [read EXCEPT !.ended = TRUE]
    /\ IF engine = "kimi" THEN stop' = "cancelled" /\ UNCHANGED phase
       ELSE stop' = "eof" /\ phase' = "idle"
    /\ UNCHANGED <<engine, req, queue, conv, rows, rolling, tag, gen, frames>>

Ends == stop # "no" \/ Len(gen) = req.max

Finish ==
    /\ phase = "drain" /\ Ends /\ ~MeetsTheEnd
    /\ Printed(Line("DONE", req.id, IF stop = "no" THEN "limited" ELSE "none"))
    /\ phase' = "idle" /\ gen' = <<>> /\ tag' = NoTag
    /\ UNCHANGED <<engine, req, queue, conv, rows, rolling, stop, read>>

\* The position of the token: np + s.
Position == Len(req.prompt) + Len(gen) - 1

Forward ==
    /\ phase = "drain" /\ ~Ends /\ ~MeetsTheEnd
    /\ conv' = Append(conv, Last(gen))
    /\ rows' = Written(rows, <<Last(gen)>>, Position)
    /\ rolling' = Append(rolling, Last(gen))
    /\ phase' = "sample"
    /\ UNCHANGED <<engine, req, queue, tag, gen, stop, frames, read>>

----------------------------------------------------------------------------
(* run_chat: the rows are allocated once, a turn continues the last.       *)
Turn(user, max) ==
    /\ engine = "olmoe" /\ phase = "idle" /\ CanRead
    /\ Counted(TRUE, {})
    /\ IF Len(conv) + Len(user) + max > CtxMax
       THEN UNCHANGED <<phase, req, conv, rows, gen>>
       ELSE /\ rows' = Written(rows, user, Len(conv))
            /\ conv' = conv \o user
            /\ req' = [id |-> 0, max |-> max]
            /\ gen' = <<>> /\ phase' = "sample"
    /\ UNCHANGED <<engine, queue, rolling, tag, stop, frames>>

ResetChat ==
    /\ engine = "olmoe" /\ phase = "idle" /\ CanRead
    /\ Counted(FALSE, {})
    /\ conv' = <<>>
    /\ UNCHANGED <<engine, phase, req, queue, rows, rolling, tag, gen, stop, frames>>

\* Mutant: the last token of a turn is not forwarded.
ReplyStops(t) ==
    /\ engine = "olmoe" /\ phase = "sample"
    /\ IF t = "eos" THEN phase' = "idle" /\ UNCHANGED <<conv, rows, gen>>
       ELSE /\ conv' = Append(conv, t) /\ gen' = Append(gen, t)
            /\ rows' = IF Len(gen) + 1 < req.max THEN Written(rows, <<t>>, Len(conv)) ELSE rows
            /\ phase' = IF Len(gen) + 1 < req.max THEN "sample" ELSE "idle"
    /\ UNCHANGED <<engine, req, queue, rolling, tag, stop, frames, read>>

\* Every token kept is forwarded, the last one too.
Reply(t) ==
    /\ engine = "olmoe" /\ phase = "sample"
    /\ IF t = "eos" THEN phase' = "idle" /\ UNCHANGED <<conv, rows, gen>>
       ELSE /\ conv' = Append(conv, t) /\ gen' = Append(gen, t)
            /\ rows' = Written(rows, <<t>>, Len(conv))
            /\ phase' = IF Len(gen) + 1 < req.max /\ Len(conv) + 1 < CtxMax THEN "sample" ELSE "idle"
    /\ UNCHANGED <<engine, req, queue, rolling, tag, stop, frames, read>>

----------------------------------------------------------------------------
Possible == IF NextId \in DOMAIN Asks[engine] THEN Asks[engine][NextId] ELSE {}

\* Any plain text stands for a tag other than "response".
Vocabulary ==
    Sampled \cup {"eos"} \cup IF engine = "kimi" /\ Chat THEN Marks \cup {"response"} ELSE {}

Next ==
    \/ \E r \in Possible : ReadSubmit(r) \/ ReadSubmitBusy(r) \/ Turn(r.prompt, r.max)
    \/ \E c \in Commands : ReadIdle(c) \/ ReadBusy(c)
    \/ TakeQueued \/ EndOfInput \/ EndOfInputBusy \/ Finish \/ Forward
    \/ engine # "olmoe" /\ phase = "sample" /\ \E t \in Vocabulary : Sample(t)
    \/ \E t \in Sampled \cup {"eos"} : Reply(t)
    \/ ResetChat

Spec == Init /\ [][Next]_vars

----------------------------------------------------------------------------
TypeOK ==
    /\ phase \in {"idle", "sample", "drain", "closed"}
    /\ Len(queue) <= QueueMax /\ (engine # "inkling" => queue = <<>>)
    /\ stop \in {"no", "eos", "cancelled", "eof"}
    /\ Len(conv) <= Len(rows) \/ conv = <<>>

(* model_state_reset, state_reset, kv_alloc; run_chat's comment: every     *)
(* token counted went through step once.  Logits are of the request's own  *)
(* prompt and reply, whatever was served before; between two turns of the  *)
(* chat every row below hist_len is the token's.                           *)
LogitsAreOfTheRequest ==
    phase = "sample" \/ engine = "olmoe" =>
        /\ \A p \in DOMAIN conv : rows[p] = conv[p]
        /\ engine # "olmoe" => rolling = conv /\ conv = req.prompt \o gen

Of(id) == SelectSeq(frames, LAMBDA f : f.id = id)
KindsOf(id) == [i \in DOMAIN Of(id) |-> Of(id)[i].kind]
Pending(id) == (phase \in {"sample", "drain"} /\ req.id = id) \/ \E i \in DOMAIN queue : queue[i].id = id
IsReply(ks) == \E n \in 0..Len(ks) : ks = (IF engine = "kimi" THEN <<"ACCEPT">> ELSE <<>>)
                                          \o [i \in 1..n |-> "DATA"] \o <<"DONE">>

(* serve_one, serve_read_req, serve_read_cmd: every request that was read  *)
(* is answered by one ERROR, or by DATA lines and one DONE, once; lines of *)
(* two requests never mix but for an ERROR; only the end of the input      *)
(* leaves one of Inkling's unanswered.                                     *)
RequestsAreAnswered ==
    engine # "olmoe" =>
        /\ \A id \in 1..read.submits :
               ~Pending(id) => \/ KindsOf(id) = <<"ERROR">> \/ IsReply(KindsOf(id))
                               \/ engine = "inkling" /\ read.ended /\ "DONE" \notin ToSet(KindsOf(id))
        /\ \A i, j \in DOMAIN frames :
               i < j /\ frames[i].kind # "ERROR" /\ frames[j].kind # "ERROR" => frames[i].id <= frames[j].id

(* serve_one of K3: what is shown of a reply is what stands outside its    *)
(* structural runs, and one mark where a response opens.                   *)
LastMark(s, i) == LET ms == {k \in 1..(i - 1) : s[k] \in {"open", "close", "sep"}} IN
                  IF ms = {} THEN 0 ELSE CHOOSE k \in ms : \A j \in ms : j <= k
InRun(s, i) == LastMark(s, i) # 0 /\ s[LastMark(s, i)] \in {"open", "close"}
TextAt(s, i) ==
    IF ~Chat THEN IF s[i] = "eos" THEN <<>> ELSE <<s[i]>>
    ELSE IF s[i] = "sep" /\ Thinks /\ InRun(s, i) /\ SubSeq(s, LastMark(s, i), i) = <<"open", "response", "sep">>
         THEN <<"</think>">>
    ELSE IF s[i] \in Marks \cup {"eos"} \/ InRun(s, i) THEN <<>> ELSE <<s[i]>>

OnlyTextIsShown ==
    phase = "drain" =>
        LET data == SelectSeq(frames, LAMBDA f : f.kind = "DATA" /\ f.id = req.id) IN
        [i \in DOMAIN data |-> data[i].text] = FlattenSeq([i \in DOMAIN gen |-> TextAt(gen, i)])

(* serve_read_req, serve_read_cmd: a line about another request ends       *)
(* nothing.  A reply cut before its end and its limit was named by a line, *)
(* or the input ended.                                                     *)
RepliesEndWhenAsked ==
    stop \in {"cancelled", "eof"} => req.id \in read.named \/ read.ended

ServesAreSound == LogitsAreOfTheRequest /\ RequestsAreAnswered /\ OnlyTextIsShown /\ RepliesEndWhenAsked
=============================================================================
