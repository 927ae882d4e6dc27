------------------------------- MODULE Gateway -------------------------------
(***************************************************************************)
(* The HTTP gateway and the engine process: Engine of c/openai_server.py,  *)
(* run_serve_mux of c/colibri.c, and the two pipes between them.  Handler  *)
(* threads submit requests and wait on their own event queues; one         *)
(* dispatcher thread routes the engine's frames to them; the engine is a   *)
(* single thread that reads one line, then decodes one token per slot (or  *)
(* a whole speculative turn when there is one slot).                       *)
(*                                                                         *)
(* Admission is the slot pool that Scheduler implements.  A request is     *)
(* submitted once, so it is its own request id.  Prompts, texts and stats  *)
(* are left out; so are the telemetry lines, which touch no request, and   *)
(* the pipes' capacities: each end is read by a thread that does nothing   *)
(* else, or that polls it.                                                 *)
(***************************************************************************)
EXTENDS Naturals, Sequences

CONSTANTS Requests,
          NSlots,       \* KV_SLOTS
          MaxTokens,    \* max_tokens of every request, an upper bound
          HeaderWrites, \* outcomes of writing the HTTP headers: TRUE, or FALSE for an OSError
          None

ASSUME GatewayAssumption ==
    /\ NSlots \in Nat \ {0}
    /\ MaxTokens \in Nat \ {0}
    /\ HeaderWrites \subseteq BOOLEAN
    /\ None \notin Requests /\ None \notin Nat

Slots == 0..(NSlots - 1)

VARIABLES
    \* the gateway
    hpc,        \* where each handler thread is
    slot,       \* the KV slot the scheduler gave it
    pending,    \* Engine.pending, as the set of its keys
    events,     \* the handlers' event queues
    accepted,   \* generate()'s accepted
    asked,      \* STOP or CANCEL once the handler has sent it: stop_sent, cancel_sent
    dispatcher, \* running, error_set (dispatcher_error is set), stopped
    closing,    \* Engine.close(): no, closed, failed (pending is cleared), terminated
    \* the pipes
    stdin, stdout,
    \* the engine
    alive,      \* the process has not exited
    epc,        \* where its thread is
    req,        \* the active request of each slot
    emitted,    \* its emitted
    rows,       \* slots still to decode in this round
    job,        \* the request being prefilled
    flag,       \* g_mux_stop, g_mux_cancel
    spec        \* speculation is on: g_draft > 0, which KV_SLOTS > 1 turns off

gateway == <<hpc, slot, pending, events, accepted, asked, dispatcher, closing>>
engine == <<epc, req, emitted, rows, job, flag>>
vars == <<gateway, stdin, stdout, alive, engine, spec>>

Frame(kind, r) == [kind |-> kind, id |-> r]
\* STOP and CANCEL lines carry no slot; the model's do, unused.
Line(kind, r) == [kind |-> kind, id |-> r, slot |-> slot[r]]
Terminal == {"DONE", "REFUSED", "SLOT_BUSY", "CANCELLED", "FAILED"}

Init ==
    /\ hpc = [r \in Requests |-> "idle"]
    /\ slot = [r \in Requests |-> None]
    /\ pending = {}
    /\ events = [r \in Requests |-> <<>>]
    /\ accepted = [r \in Requests |-> FALSE]
    /\ asked = [r \in Requests |-> None]
    /\ dispatcher = "running" /\ closing = "no"
    /\ stdin = <<>> /\ stdout = <<>>
    /\ alive = TRUE
    /\ epc = "poll"
    /\ req = [s \in Slots |-> None]
    /\ emitted = [s \in Slots |-> 0]
    /\ rows = {} /\ job = None /\ flag = None
    /\ spec \in (IF NSlots = 1 THEN BOOLEAN ELSE {FALSE})

----------------------------------------------------------------------------
(* A handler thread: admit(), then Engine.generate().                      *)
Step(r, from, to) == hpc[r] = from /\ hpc' = [hpc EXCEPT ![r] = to]
OutsideGateway == UNCHANGED <<stdout, alive, engine, spec>>

Admit(r, s) ==
    /\ Step(r, "idle", "admitted")
    /\ \A o \in Requests : slot[o] # s
    /\ slot' = [slot EXCEPT ![r] = s]
    /\ UNCHANGED <<pending, events, accepted, asked, dispatcher, closing, stdin>>
    /\ OutsideGateway

\* Under pending_lock: refused once the engine or the dispatcher is gone.
Usable == closing = "no" /\ dispatcher = "running" /\ alive

Register(r) ==
    /\ Step(r, "admitted", IF Usable THEN "registered" ELSE "leaving")
    /\ pending' = IF Usable THEN pending \cup {r} ELSE pending
    /\ UNCHANGED <<slot, events, accepted, asked, dispatcher, closing, stdin>>
    /\ OutsideGateway

\* Under write_lock; a write to a dead process raises.
WriteSubmit(r) ==
    /\ Step(r, "registered", IF alive THEN "waiting" ELSE "leaving")
    /\ stdin' = IF alive THEN Append(stdin, Line("SUBMIT", r)) ELSE stdin
    /\ pending' = IF alive THEN pending ELSE pending \ {r}
    /\ UNCHANGED <<slot, events, accepted, asked, dispatcher, closing>>
    /\ OutsideGateway

\* The next event of r, taken off its queue.
Takes(r, kinds) ==
    /\ hpc[r] = "waiting"
    /\ events[r] # <<>>
    /\ Head(events[r]).kind \in kinds
    /\ events' = [events EXCEPT ![r] = Tail(@)]

(* _accept commits the stream on the first ACCEPT, DATA or DONE.  An       *)
(* exception of start_stream leaves generate(), and r stays in pending.    *)
TakeAccept(r) ==
    /\ Takes(r, {"ACCEPT"})
    /\ \E ok \in HeaderWrites :
         hpc' = [hpc EXCEPT ![r] = IF ok /\ ~accepted[r] THEN @ ELSE "leaving"]
    /\ accepted' = [accepted EXCEPT ![r] = TRUE]
    /\ UNCHANGED <<slot, pending, asked, dispatcher, closing, stdin>>
    /\ OutsideGateway

\* Mutant: the handler does not wait for the answer to its CANCEL.
TakeDataLeaves(r) ==
    /\ Takes(r, {"DATA"})
    /\ accepted' = [accepted EXCEPT ![r] = TRUE]
    /\ UNCHANGED <<slot, pending, dispatcher, closing>>
    /\ OutsideGateway
    /\ \/ UNCHANGED <<hpc, asked, stdin>>
       \/ /\ asked[r] = None
          /\ asked' = [asked EXCEPT ![r] = "CANCEL"]
          /\ stdin' = IF alive THEN Append(stdin, Line("CANCEL", r)) ELSE stdin
          /\ hpc' = [hpc EXCEPT ![r] = "leaving"]

(* The text may complete a stop sequence, or the client may be found gone. *)
(* Only one of STOP and CANCEL is sent, once.                              *)
TakeData(r) ==
    /\ Takes(r, {"DATA"})
    /\ accepted' = [accepted EXCEPT ![r] = TRUE]
    /\ UNCHANGED <<slot, pending, dispatcher, closing>>
    /\ OutsideGateway
    /\ \/ UNCHANGED <<hpc, asked, stdin>>
       \/ /\ asked[r] = None
          /\ \E line \in {"STOP", "CANCEL"} :
               /\ asked' = [asked EXCEPT ![r] = line]
               /\ stdin' = IF alive THEN Append(stdin, Line(line, r)) ELSE stdin
               /\ hpc' = [hpc EXCEPT ![r] = IF alive THEN @ ELSE "leaving"]

\* DONE returns, an error raises.
TakeTerminal(r) ==
    /\ Takes(r, Terminal \cup {"NOT_FOUND"})
    /\ hpc' = [hpc EXCEPT ![r] = "leaving"]
    /\ UNCHANGED <<slot, pending, accepted, asked, dispatcher, closing, stdin>>
    /\ OutsideGateway

\* The scheduler's finally clause.  generate()'s variables are gone.
Leave(r) ==
    /\ Step(r, "leaving", "over")
    /\ slot' = [slot EXCEPT ![r] = None]
    /\ events' = [events EXCEPT ![r] = <<>>]
    /\ accepted' = [accepted EXCEPT ![r] = FALSE]
    /\ asked' = [asked EXCEPT ![r] = None]
    /\ UNCHANGED <<pending, dispatcher, closing, stdin>>
    /\ OutsideGateway

----------------------------------------------------------------------------
(* The dispatcher thread.  A frame for a request that is not pending is    *)
(* dropped; DONE and ERROR end the entry.                                  *)
Put(r, f) == events' = [events EXCEPT ![r] = Append(@, f)]

\* Mutant: DONE is looked up, not popped.
DispatchKeepsDone ==
    /\ dispatcher = "running"
    /\ stdout # <<>>
    /\ LET f == Head(stdout) IN
         /\ IF f.id \in pending THEN Put(f.id, f) ELSE UNCHANGED events
         /\ pending' = IF f.kind \in {"ACCEPT", "DATA", "DONE"} THEN pending ELSE pending \ {f.id}
    /\ stdout' = Tail(stdout)
    /\ UNCHANGED <<hpc, slot, accepted, asked, dispatcher, closing, stdin, alive, engine, spec>>

Dispatch ==
    /\ dispatcher = "running"
    /\ stdout # <<>>
    /\ LET f == Head(stdout) IN
         /\ IF f.id \in pending THEN Put(f.id, f) ELSE UNCHANGED events
         /\ pending' = IF f.kind \in {"ACCEPT", "DATA"} THEN pending ELSE pending \ {f.id}
    /\ stdout' = Tail(stdout)
    /\ UNCHANGED <<hpc, slot, accepted, asked, dispatcher, closing, stdin, alive, engine, spec>>

\* Mutant: the entries are cleared and nobody is told.
FailPendingSilently ==
    /\ pending' = {}
    /\ UNCHANGED <<hpc, slot, events, accepted, asked, stdin>>
    /\ OutsideGateway

FailPending ==
    /\ events' = [r \in Requests |-> IF r \in pending THEN Append(events[r], Frame("FAILED", r))
                                                      ELSE events[r]]
    /\ pending' = {}
    /\ UNCHANGED <<hpc, slot, accepted, asked, stdin>>
    /\ OutsideGateway

\* Mutant: the error is not passed on.
DispatcherStopsQuietly ==
    /\ dispatcher = "running"
    /\ ~alive
    /\ stdout = <<>>
    /\ dispatcher' = "stopped"
    /\ UNCHANGED <<hpc, slot, pending, events, accepted, asked, closing, stdin>>
    /\ OutsideGateway

\* End of file on the engine's stdout.
DispatcherStops ==
    /\ dispatcher = "running"
    /\ ~alive
    /\ stdout = <<>>
    /\ dispatcher' = IF closing = "no" THEN "error_set" ELSE "stopped"
    /\ UNCHANGED <<hpc, slot, pending, events, accepted, asked, closing, stdin>>
    /\ OutsideGateway

DispatcherFailsPending ==
    /\ dispatcher = "error_set"
    /\ dispatcher' = "stopped"
    /\ UNCHANGED closing
    /\ FailPending

(* Engine.close(): mark, clear pending, stop the process.                  *)
Close ==
    /\ closing = "no"
    /\ closing' = "closed"
    /\ UNCHANGED <<hpc, slot, pending, events, accepted, asked, dispatcher, stdin>>
    /\ OutsideGateway

CloseFailsPending ==
    /\ closing = "closed"
    /\ closing' = "failed"
    /\ UNCHANGED dispatcher
    /\ FailPending

\* The engine's memory and what it had not read are lost, what it wrote is not.
EngineGone ==
    /\ alive' = FALSE
    /\ stdin' = <<>>
    /\ epc' = "poll"
    /\ req' = [s \in Slots |-> None]
    /\ emitted' = [s \in Slots |-> 0]
    /\ rows' = {} /\ job' = None /\ flag' = None
    /\ UNCHANGED <<stdout, spec>>

Terminate ==
    /\ closing = "failed"
    /\ closing' = "terminated"
    /\ EngineGone
    /\ UNCHANGED <<hpc, slot, pending, events, accepted, asked, dispatcher>>

----------------------------------------------------------------------------
(* The engine.                                                             *)
SlotOf(r) == {s \in Slots : req[s] = r}
Active == {s \in Slots : req[s] # None}
Say(kinds, r) == stdout' = stdout \o [i \in 1..Len(kinds) |-> Frame(kinds[i], r)]
OutsideEngine == alive /\ UNCHANGED <<gateway, alive, spec>>

Free(s) ==
    /\ req' = [req EXCEPT ![s] = None]
    /\ emitted' = [emitted EXCEPT ![s] = 0]

\* The loop goes on with a decode round if some slot is active.
ToRound(busy) ==
    /\ epc' = IF busy = {} THEN "poll" ELSE "round"
    /\ rows' = busy

\* mux_submit reads one line.
Reads(kinds, pc) ==
    /\ epc = pc
    /\ stdin # <<>>
    /\ Head(stdin).kind \in kinds
    /\ stdin' = Tail(stdin)
    /\ OutsideEngine

\* Mutant: the round still decodes the slot that was stopped.
ReadStopKeepsRow ==
    LET r == Head(stdin).id IN
    /\ Reads({"STOP", "CANCEL"}, "poll")
    /\ IF SlotOf(r) = {}
       THEN /\ Say(<<"NOT_FOUND">>, r)
            /\ UNCHANGED <<req, emitted>>
       ELSE /\ Say(IF Head(stdin).kind = "STOP" THEN <<"DONE">> ELSE <<"CANCELLED">>, r)
            /\ \E s \in SlotOf(r) : Free(s)
    /\ ToRound(Active)
    /\ UNCHANGED <<job, flag>>

\* STOP ends a turn as mux_done does, CANCEL by an error.
ReadStop ==
    LET r == Head(stdin).id IN
    /\ Reads({"STOP", "CANCEL"}, "poll")
    /\ IF SlotOf(r) = {}
       THEN /\ Say(<<"NOT_FOUND">>, r)
            /\ UNCHANGED <<req, emitted>>
       ELSE /\ Say(IF Head(stdin).kind = "STOP" THEN <<"DONE">> ELSE <<"CANCELLED">>, r)
            /\ \E s \in SlotOf(r) : Free(s)
    /\ ToRound(Active \ SlotOf(r))
    /\ UNCHANGED <<job, flag>>

\* Mutant: ACCEPT is sent before the prompt is checked against the context.
ReadSubmitEarly ==
    LET line == Head(stdin) IN
    /\ Reads({"SUBMIT"}, "poll")
    /\ \/ /\ req[line.slot] = None
          /\ Say(<<"ACCEPT", "REFUSED">>, line.id)
          /\ ToRound(Active)
          /\ UNCHANGED job
       \/ /\ req[line.slot] = None
          /\ Say(<<"ACCEPT">>, line.id)
          /\ epc' = "prefill"
          /\ job' = [id |-> line.id, slot |-> line.slot]
          /\ UNCHANGED rows
    /\ UNCHANGED <<req, emitted, flag>>

\* An empty prompt, or one that exceeds the context, is refused before ACCEPT.
ReadSubmit ==
    LET line == Head(stdin) IN
    /\ Reads({"SUBMIT"}, "poll")
    /\ \/ /\ Say(IF req[line.slot] # None THEN <<"SLOT_BUSY">> ELSE <<"REFUSED">>, line.id)
          /\ ToRound(Active)
          /\ UNCHANGED job
       \/ /\ req[line.slot] = None
          /\ Say(<<"ACCEPT">>, line.id)
          /\ epc' = "prefill"
          /\ job' = [id |-> line.id, slot |-> line.slot]
          /\ UNCHANGED rows
    /\ UNCHANGED <<req, emitted, flag>>

\* Nothing to read, but something to decode.
SkipPoll ==
    /\ epc = "poll"
    /\ stdin = <<>>
    /\ Active # {}
    /\ ToRound(Active)
    /\ OutsideEngine
    /\ UNCHANGED <<stdin, stdout, req, emitted, job, flag>>

(* The prefill and the first token: the request ends at once (a stop       *)
(* token, no room), or after its only token, or goes on.  A single slot    *)
(* that speculates leaves its tokens to a speculative turn, unless the     *)
(* request has a grammar.                                                  *)
Prefill ==
    LET s == job.slot  r == job.id IN
    /\ epc = "prefill"
    /\ \/ /\ Say(<<"DONE">>, r)
          /\ ToRound(Active)
          /\ UNCHANGED <<req, emitted>>
       \/ /\ Say(<<"DATA", "DONE">>, r)
          /\ ToRound(Active)
          /\ UNCHANGED <<req, emitted>>
       \/ /\ MaxTokens > 1
          /\ Say(<<"DATA">>, r)
          /\ req' = [req EXCEPT ![s] = r]
          /\ emitted' = [emitted EXCEPT ![s] = 1]
          /\ ToRound(Active \cup {s})
       \/ /\ spec
          /\ req' = [req EXCEPT ![s] = r]
          /\ epc' = "spec"
          /\ UNCHANGED <<stdout, emitted, rows>>
    /\ job' = None
    /\ flag' = None
    /\ OutsideEngine
    /\ UNCHANGED stdin

(* One row of a decode round: a token, or with a request grammar several   *)
(* that one forward has verified, and the end of the request if the last   *)
(* was its last or a stop token follows.                                   *)
DecodeRow(s) ==
    /\ epc = "round"
    /\ s \in rows
    /\ \E n \in 0..(MaxTokens - emitted[s]) :
         LET data == [i \in 1..n |-> "DATA"] IN
         \/ /\ n > 0 /\ emitted[s] + n < MaxTokens
            /\ Say(data, req[s])
            /\ emitted' = [emitted EXCEPT ![s] = @ + n]
            /\ UNCHANGED req
         \/ Say(Append(data, "DONE"), req[s]) /\ Free(s)
    /\ rows' = rows \ {s}
    /\ epc' = IF rows = {s} THEN "poll" ELSE "round"
    /\ OutsideEngine
    /\ UNCHANGED <<stdin, job, flag>>

\* Ctrl-C: at the top of the loop every active request is done, in the order
\* of the slots.
Interrupt ==
    /\ epc = "poll"
    /\ \E n \in 1..NSlots : \E order \in [1..n -> Active] :
         /\ \A i, j \in 1..n : i < j => order[i] < order[j]
         /\ \A s \in Active : \E i \in 1..n : order[i] = s
         /\ stdout' = stdout \o [i \in 1..n |-> Frame("DONE", req[order[i]])]
    /\ req' = [s \in Slots |-> None]
    /\ emitted' = [s \in Slots |-> 0]
    /\ OutsideEngine
    /\ UNCHANGED <<stdin, epc, rows, job, flag>>

----------------------------------------------------------------------------
(* A speculative turn: spec_decode emits tokens, mux_ctl_poll reads what   *)
(* is there after each of them.  The drafts one forward has verified are   *)
(* emitted without another look at the flags.  An interrupt ends the turn  *)
(* as a stop token does.                                                   *)
SpecEmit(s) ==
    /\ epc = "spec"
    /\ s \in Active
    /\ emitted[s] < MaxTokens
    /\ Say(<<"DATA">>, req[s])
    /\ emitted' = [emitted EXCEPT ![s] = @ + 1]
    /\ epc' = "ctl"
    /\ OutsideEngine
    /\ UNCHANGED <<stdin, req, rows, job, flag>>

CtlRead ==
    LET line == Head(stdin) IN
    /\ Reads({"STOP", "CANCEL", "SUBMIT"}, "ctl")
    /\ flag' = IF line.kind # "SUBMIT" /\ line.id \in {req[s] : s \in Slots} THEN line.kind ELSE flag
    /\ IF line.kind = "SUBMIT" THEN Say(<<"SLOT_BUSY">>, line.id)
       ELSE IF line.id \in {req[s] : s \in Slots} THEN UNCHANGED stdout
       ELSE Say(<<"NOT_FOUND">>, line.id)
    /\ UNCHANGED <<epc, req, emitted, rows, job>>

CtlDone ==
    /\ epc = "ctl"
    /\ stdin = <<>>
    /\ epc' = "spec"
    /\ OutsideEngine
    /\ UNCHANGED <<stdin, stdout, req, emitted, rows, job, flag>>

\* Mutant: a cancelled turn is also finished by mux_done.
SpecEndTwice(s) ==
    /\ epc = "spec"
    /\ s \in Active
    /\ Say(IF flag = "CANCEL" THEN <<"CANCELLED", "DONE">> ELSE <<"DONE">>, req[s])
    /\ Free(s)
    /\ epc' = "poll"
    /\ OutsideEngine
    /\ UNCHANGED <<stdin, rows, job, flag>>

SpecEnd(s) ==
    /\ epc = "spec"
    /\ s \in Active
    /\ Say(IF flag = "CANCEL" THEN <<"CANCELLED">> ELSE <<"DONE">>, req[s])
    /\ Free(s)
    /\ epc' = "poll"
    /\ OutsideEngine
    /\ UNCHANGED <<stdin, rows, job, flag>>

\* The process dies: killed, out of memory, or a failed decode.
EngineExits ==
    /\ alive
    /\ EngineGone
    /\ UNCHANGED gateway

----------------------------------------------------------------------------
Handler(r) ==
    \/ \E s \in Slots : Admit(r, s)
    \/ Register(r) \/ WriteSubmit(r) \/ TakeAccept(r) \/ TakeData(r) \/ TakeTerminal(r) \/ Leave(r)
Dispatcher == Dispatch \/ DispatcherStops \/ DispatcherFailsPending
Closer == CloseFailsPending \/ Terminate
EngineStep ==
    \/ ReadStop \/ ReadSubmit \/ SkipPoll \/ Prefill \/ CtlRead \/ CtlDone
    \/ \E s \in Slots : DecodeRow(s) \/ SpecEmit(s) \/ SpecEnd(s)

Next ==
    \/ \E r \in Requests : Handler(r)
    \/ Dispatcher \/ Close \/ Closer \/ EngineStep \/ Interrupt \/ EngineExits

Spec == Init /\ [][Next]_vars

(* Every thread that can run runs.  Nobody has to submit a request, close  *)
(* the server, send a STOP, interrupt or crash the engine.                 *)
Fairness ==
    /\ \A r \in Requests : WF_vars(Handler(r))
    /\ WF_vars(Dispatcher) /\ WF_vars(Closer) /\ WF_vars(EngineStep)

FairSpec == Spec /\ Fairness

----------------------------------------------------------------------------
TypeOK ==
    /\ hpc \in [Requests -> {"idle", "admitted", "registered", "waiting", "leaving", "over"}]
    /\ slot \in [Requests -> Slots \cup {None}]
    /\ pending \subseteq Requests
    /\ asked \in [Requests -> {None, "STOP", "CANCEL"}]
    /\ dispatcher \in {"running", "error_set", "stopped"}
    /\ epc \in {"poll", "prefill", "round", "spec", "ctl"}
    /\ req \in [Slots -> Requests \cup {None}]
    /\ emitted \in [Slots -> 0..MaxTokens]
    /\ rows \subseteq Active

\* What a handler has not taken yet: its events and, as long as it is
\* pending, its own frames in the pipe.
Unheard(r) == events[r] \o (IF r \in pending THEN stdout ELSE <<>>)
Own(r) == {i \in DOMAIN Unheard(r) : Unheard(r)[i].id = r}

(* docs/serve_protocol.md and the comment at ACCEPT in mux_submit: exactly *)
(* one of ACCEPT or an early error, ACCEPT before any output, and nothing  *)
(* after the DONE or ERROR that ends the request, but for the answer to a  *)
(* STOP or CANCEL that came too late.                                      *)
FramesInOrder ==
    \A r \in Requests : hpc[r] = "waiting" =>
        \A i \in Own(r) :
            LET kind == Unheard(r)[i].kind
                first == ~accepted[r] /\ \A j \in Own(r) : i <= j
            IN
            /\ kind = "ACCEPT" <=> first /\ kind \notin {"REFUSED", "SLOT_BUSY", "FAILED"}
            /\ kind \in {"REFUSED", "SLOT_BUSY"} => first
            /\ \A j \in Own(r) : j < i /\ Unheard(r)[j].kind \in Terminal => kind = "NOT_FOUND"

(* A handler that waits has been, or will be, told: leaving pending always *)
(* comes with a last event, whoever removed the entry.                     *)
NoOrphan ==
    \A r \in Requests : hpc[r] = "waiting" /\ r \notin pending =>
        \E i \in DOMAIN events[r] : events[r][i].kind \in Terminal

(* The answer to a late STOP or CANCEL reaches no handler.                 *)
LateStopIsSilent ==
    \A r \in Requests : \A i \in DOMAIN events[r] : events[r][i].kind # "NOT_FOUND"

(* The gateway's scheduler and the engine agree on who has a slot: a slot  *)
(* busy in the engine is still held by the same request's handler.  Only   *)
(* close() fails handlers while the engine still runs.                     *)
EngineSlotsAreHeld ==
    closing = "no" => \A s \in DOMAIN req : req[s] # None => slot[req[s]] = s

(* The comment of mux_ctl_poll: "a SUBMIT cannot legally arrive while the  *)
(* only slot is busy".                                                     *)
SlotNeverBusy ==
    stdin # <<>> /\ Head(stdin).kind = "SUBMIT" => epc # "ctl"

(* Whatever dies, and whenever the server is closed, a request that was    *)
(* admitted ends: its handler is told, and gives the slot back.            *)
Ends(r) == hpc[r] = "admitted" ~> hpc[r] = "over"
RequestsEnd == \A r \in Requests : Ends(r)
=============================================================================
