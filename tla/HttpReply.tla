----------------------------- MODULE HttpReply -----------------------------
(***************************************************************************)
(* APIHandler of c/openai_server.py: the requests of a connection and what *)
(* is written for them, JSON bodies, OpenAI and Anthropic event streams    *)
(* with their keep-alive pump, and the errors that come before or after    *)
(* the status line.  Admission and the engine are Scheduler and Gateway;   *)
(* here they answer, refuse or fail as they like.  The text of the events  *)
(* is in ReplyStream.  The pump decides and writes within the two seconds  *)
(* its join waits.                                                         *)
(***************************************************************************)
EXTENDS Naturals, Sequences, FiniteSets, SequencesExt

CONSTANTS Requests,      \* the requests a client may send
          MaxRequests, MaxChunks, MaxPings   \* bounds of the model

VARIABLES
    conn,    \* requests read, close_connection, unread bytes of the body, _body_read, the client left
    at,      \* where the handler is
    req,     \* the request
    reply,   \* _committed, connected, the pump, the blocks of the stream
    wire     \* what was written for the request

vars == <<conn, at, req, reply, wire>>

Ev(name, block) == [name |-> name, block |-> block]
Fresh == [committed |-> FALSE, connected |-> FALSE, pump |-> "off", pings |-> 0, chunks |-> 0,
          thinking |-> FALSE, text |-> FALSE, held |-> FALSE, tool |-> FALSE, calls |-> 0, next |-> 0,
          failed |-> FALSE]

Init ==
    /\ conn = [n |-> 0, closing |-> FALSE, unread |-> FALSE, bodyRead |-> FALSE, left |-> FALSE]
    /\ at = "idle" /\ req \in Requests /\ reply = Fresh /\ wire = <<>>

\* An event of a stream: nothing once a write has failed, and a write may fail.
Sent(events) ==
    \/ /\ reply.connected
       /\ wire' = wire \o events
    \/ ~reply.connected /\ UNCHANGED wire

\* The client is gone: found out by whoever writes.
WriteFails ==
    /\ reply.connected
    /\ reply' = [reply EXCEPT !.connected = FALSE]
    /\ UNCHANGED <<conn, at, req, wire>>
----------------------------------------------------------------------------
(* A request and its boundaries.                                           *)

\* handle_one_request.
ReadRequest(r) ==
    /\ at = "idle" /\ ~conn.closing /\ ~conn.left /\ conn.n < MaxRequests
    /\ req' = r /\ at' = "dispatch" /\ wire' = <<>> /\ reply' = Fresh
    /\ conn' = [conn EXCEPT !.n = @ + 1, !.unread = r.framing # "none", !.bodyRead = FALSE]

\* send_json, or serve_static: one response; a failed write ends the thread of
\* a GET, and is caught in do_POST.
Answered ==
    /\ reply' = [reply EXCEPT !.committed = TRUE]
    /\ \/ wire' = wire \o <<Ev("status", 0), Ev("body", 0)>> /\ at' = "drain"
       \/ wire' = wire \o <<Ev("status", 0)>> /\ at' = "closed"

\* do_GET, do_OPTIONS, and the answer to a method without a handler.
DoOther ==
    /\ at = "dispatch" /\ req.method # "POST"
    /\ Answered
    /\ conn' = [conn EXCEPT !.closing = @ \/ req.method = "HEAD"]
    /\ UNCHANGED req

\* Mutant: an error is always reported.
FailAlways == Answered /\ UNCHANGED <<conn, req>>

\* _fail: an error is reported unless a status line is out.
Fail ==
    IF reply.committed
    THEN /\ conn' = [conn EXCEPT !.closing = TRUE] /\ at' = "drain"
         /\ reply' = [reply EXCEPT !.failed = TRUE] /\ UNCHANGED <<req, wire>>
    ELSE Answered /\ UNCHANGED <<conn, req>>

\* read_json: the body is read whole, or an error says why not.
HasJson == req.framing = "body" /\ req.json

DoPost ==
    /\ at = "dispatch" /\ req.method = "POST"
    /\ IF ~req.allowed THEN Fail
       ELSE /\ conn' = [conn EXCEPT !.unread = @ /\ req.framing # "body", !.bodyRead = req.framing = "body"]
            /\ IF HasJson /\ req.valid
               THEN at' = "admit" /\ UNCHANGED <<req, reply, wire>>
               ELSE Answered /\ UNCHANGED req

\* Mutant: a body of unknown length is left where it is.
DrainKnown ==
    /\ at = "drain"
    /\ at' = IF conn.closing THEN "closed" ELSE "idle"
    /\ conn' = [conn EXCEPT !.bodyRead = TRUE, !.unread = @ /\ req.framing # "body"]
    /\ UNCHANGED <<req, reply, wire>>

\* _drain_request_body: what was not read is read now, or the connection ends.
Drain ==
    LET lost == ~conn.bodyRead /\ req.framing \in {"chunked", "bad", "huge", "short", "stalls"}
    IN /\ at = "drain"
       /\ at' = IF conn.closing \/ lost THEN "closed" ELSE "idle"
       /\ conn' = [conn EXCEPT !.closing = @ \/ lost, !.bodyRead = TRUE,
                               !.unread = IF conn.bodyRead \/ conn.closing THEN @ ELSE lost]
       /\ UNCHANGED <<req, reply, wire>>
----------------------------------------------------------------------------
(* Admission, and the start of a stream.                                   *)

Anthropic == req.route = "messages"

Refuse == at = "admit" /\ Fail

\* anthropic_generation commits before the engine has seen the prompt.
AdmitAnthropic ==
    /\ at = "admit" /\ req.stream /\ Anthropic
    /\ \/ /\ wire' = wire \o <<Ev("status", 0), Ev("message_start", 0), Ev("start", 0)>>
          /\ reply' = [reply EXCEPT !.committed = TRUE, !.connected = TRUE, !.pump = "on",
                                    !.thinking = req.think, !.text = ~req.think, !.next = 1]
          /\ at' = "generate"
       \/ wire' = wire /\ at' = "drain" /\ reply' = [reply EXCEPT !.committed = TRUE, !.failed = TRUE]
    /\ conn' = [conn EXCEPT !.closing = TRUE]
    /\ UNCHANGED req

Admit ==
    /\ at = "admit" /\ ~(req.stream /\ Anthropic)
    /\ at' = "generate"
    /\ UNCHANGED <<conn, req, reply, wire>>

Started == reply.committed \/ ~req.stream
Role == IF req.route = "chat" THEN <<Ev("role", 0)>> ELSE <<>>

\* start_stream: once, on ACCEPT or the first frame of an older engine.
StartStream ==
    /\ wire' = wire \o <<Ev("status", 0)>> \o Role
    /\ reply' = [reply EXCEPT !.committed = TRUE, !.connected = TRUE, !.pump = "on"]
    /\ conn' = [conn EXCEPT !.closing = TRUE]

Accept == at = "generate" /\ ~Started /\ StartStream /\ UNCHANGED <<at, req>>

\* The headers cannot be written: out of generate(), past do_POST.
AcceptFails ==
    /\ at = "generate" /\ ~Started /\ at' = "drain"
    /\ reply' = [reply EXCEPT !.committed = TRUE, !.failed = TRUE]
    /\ conn' = [conn EXCEPT !.closing = TRUE]
    /\ UNCHANGED <<req, wire>>

\* An error of the engine, before or after ACCEPT.
GenerateRaises == at = "generate" /\ Fail

\* ClientCancelled, from the queue or from generate(): nobody is there to be told.
Cancelled ==
    /\ at \in {"admit", "generate"} /\ at' = "drain"
    /\ (at = "generate" /\ req.stream) => (Started /\ ~reply.connected)
    /\ reply' = [reply EXCEPT !.failed = TRUE] /\ conn' = [conn EXCEPT !.left = TRUE]
    /\ UNCHANGED <<req, wire>>
----------------------------------------------------------------------------
(* The frames of a reply and its end.                                      *)

InStream == at = "generate" /\ req.stream /\ Started /\ reply.chunks < MaxChunks
Chunked(r) == reply' = [r EXCEPT !.chunks = @ + 1]

\* Text goes out, is held back for a marker, or hidden behind one.
TextChunk ==
    LET opens == Anthropic /\ ~reply.text
        index == IF Anthropic /\ req.think THEN 1 ELSE 0
        delta == IF opens THEN <<Ev("start", index), Ev("delta", index)>> ELSE <<Ev("delta", index)>>
    IN /\ InStream /\ ~(Anthropic /\ reply.thinking)
       /\ \/ reply.tool /\ Chunked(reply) /\ UNCHANGED wire
          \/ req.tools /\ ~reply.tool /\ Chunked([reply EXCEPT !.held = TRUE]) /\ UNCHANGED wire
          \/ /\ ~reply.tool /\ Sent(delta)
             /\ Chunked([reply EXCEPT !.text = TRUE, !.next = IF opens THEN @ + 1 ELSE @])
       /\ UNCHANGED <<conn, at, req>>

\* The start of a tool call: what was held back is shown or is its marker.
ToolChunk ==
    /\ InStream /\ req.tools /\ ~reply.tool /\ ~(Anthropic /\ reply.thinking)
    /\ Chunked([reply EXCEPT !.tool = TRUE, !.held = FALSE]) /\ UNCHANGED wire
    /\ UNCHANGED <<conn, at, req>>

\* Reasoning: deltas of their own block in Anthropic's stream.
ThinkChunk ==
    /\ InStream /\ req.think /\ (Anthropic => reply.thinking)
    /\ Sent(<<Ev("delta", 0)>>) /\ Chunked(reply)
    /\ UNCHANGED <<conn, at, req>>

CloseThinking == IF reply.thinking THEN <<Ev("signature", 0), Ev("stop", 0)>> ELSE <<>>

EndOfThinking ==
    /\ InStream /\ Anthropic /\ reply.thinking
    /\ Sent(CloseThinking) /\ Chunked([reply EXCEPT !.thinking = FALSE])
    /\ UNCHANGED <<conn, at, req>>

\* generate() returns: a JSON response, or the rest of the stream.
Return ==
    /\ at = "generate"
    /\ \/ ~req.stream /\ Answered /\ UNCHANGED <<conn, req>>
       \/ /\ req.stream /\ Started /\ at' = "flush"
          /\ \E c \in IF reply.tool THEN 0..2 ELSE {0} :
                 reply' = [reply EXCEPT !.calls = c, !.thinking = FALSE]
          /\ Sent(IF Anthropic THEN CloseThinking ELSE <<>>)
          /\ UNCHANGED <<conn, req>>

\* Text that was held back for a marker that did not come.
Flush ==
    LET opens == Anthropic /\ ~reply.text
        index == IF Anthropic /\ req.think THEN 1 ELSE 0
        delta == IF opens THEN <<Ev("start", index), Ev("delta", index)>> ELSE <<Ev("delta", index)>>
    IN /\ at = "flush" /\ at' = IF Anthropic THEN "stop" ELSE "tools"
       /\ IF reply.held
          THEN Sent(delta) /\ reply' = [reply EXCEPT !.text = TRUE, !.next = IF opens THEN @ + 1 ELSE @]
          ELSE UNCHANGED <<reply, wire>>
       /\ UNCHANGED <<conn, req>>

\* OpenAI: the tool calls, then the pump is stopped, then the end.
Tools ==
    /\ at = "tools"
    /\ IF reply.calls > 0
       THEN Sent(<<Ev("tool", 0)>>) /\ reply' = [reply EXCEPT !.calls = @ - 1] /\ UNCHANGED at
       ELSE at' = "stop" /\ UNCHANGED <<reply, wire>>
    /\ UNCHANGED <<conn, req>>

\* Mutant: the pump is not joined.
StopPumpNot ==
    /\ at = "stop" /\ at' = "end"
    /\ UNCHANGED <<conn, req, reply, wire>>

\* ka_stop and the join.
StopPump ==
    /\ at = "stop" /\ reply.pump # "deciding" /\ at' = "end"
    /\ reply' = [reply EXCEPT !.pump = "off"]
    /\ UNCHANGED <<conn, req, wire>>

EndOpenAI ==
    /\ at = "end" /\ ~Anthropic /\ at' = "usage"
    /\ Sent(<<Ev("final", 0)>>) /\ UNCHANGED <<conn, req, reply>>

EndUsage ==
    /\ at = "usage" /\ at' = "drain"
    /\ Sent(IF req.usage THEN <<Ev("usage", 0), Ev("done", 0)>> ELSE <<Ev("done", 0)>>)
    /\ UNCHANGED <<conn, req, reply>>

\* Mutant: the blocks of the calls are numbered from the text's place.
FirstCallBlockFixed == IF req.think THEN 2 ELSE 1

FirstCallBlock == IF reply.text THEN (IF req.think THEN 2 ELSE 1) ELSE 1

EndAnthropic ==
    /\ at = "end" /\ Anthropic /\ at' = "calls"
    /\ Sent(IF reply.text THEN <<Ev("stop", IF req.think THEN 1 ELSE 0)>> ELSE <<>>)
    /\ reply' = [reply EXCEPT !.next = FirstCallBlock]
    /\ UNCHANGED <<conn, req>>

CallBlocks ==
    /\ at = "calls"
    /\ IF reply.calls > 0
       THEN /\ Sent(<<Ev("start", reply.next), Ev("delta", reply.next), Ev("stop", reply.next)>>)
            /\ reply' = [reply EXCEPT !.calls = @ - 1, !.next = @ + 1] /\ UNCHANGED at
       ELSE /\ Sent(<<Ev("message_delta", 0), Ev("message_stop", 0)>>)
            /\ at' = "drain" /\ UNCHANGED reply
    /\ UNCHANGED <<conn, req>>
----------------------------------------------------------------------------
(* The pump.                                                               *)

\* The gap since the last write is long enough.
PumpDecides ==
    /\ reply.pump = "on" /\ reply.connected /\ reply.pings < MaxPings
    /\ reply' = [reply EXCEPT !.pump = "deciding"]
    /\ UNCHANGED <<conn, at, req, wire>>

PumpWrites ==
    /\ reply.pump = "deciding"
    /\ reply' = [reply EXCEPT !.pump = "on", !.pings = @ + 1]
    /\ Sent(<<Ev("ping", 0)>>)
    /\ UNCHANGED <<conn, at, req>>

Next ==
    \/ at = "idle" /\ \E r \in Requests : ReadRequest(r)
    \/ DoOther \/ DoPost \/ Drain \/ Refuse \/ AdmitAnthropic \/ Admit
    \/ Accept \/ AcceptFails \/ GenerateRaises \/ Cancelled \/ WriteFails
    \/ TextChunk \/ ToolChunk \/ ThinkChunk \/ EndOfThinking \/ Return
    \/ Flush \/ Tools \/ StopPump \/ EndOpenAI \/ EndUsage \/ EndAnthropic \/ CallBlocks
    \/ PumpDecides \/ PumpWrites

Spec == Init /\ [][Next]_vars
----------------------------------------------------------------------------
TypeOK ==
    /\ conn.n \in 0..MaxRequests /\ req \in Requests
    /\ reply.pump \in {"off", "on", "deciding"} /\ reply.chunks \in 0..MaxChunks

Said(names) == SelectSeq(wire, LAMBDA e : e.name \in names)
Names == [i \in DOMAIN wire |-> wire[i].name]
After(a, b) == \A i, j \in DOMAIN wire : wire[i].name = a /\ wire[j].name = b => i > j

\* Every request has one status line, before all else; the next request is
\* read where the one before ended, never behind a stream.
BoundariesHold ==
    /\ Len(Said({"status"})) <= 1 /\ (wire # <<>> => Names[1] = "status")
    /\ at = "idle" /\ ~conn.closing /\ ~conn.left /\ conn.n > 0 =>
           Names = <<"status", "body">> /\ ~conn.unread /\ reply.pump = "off"

\* Block i+1 is begun when block i has ended, a delta belongs to the block
\* that is open, and the message ends with every block closed.
BlocksNest ==
    LET blocks == Said({"start", "delta", "signature", "stop", "message_delta"})
        starts(k) == {i \in 1..k : blocks[i].name = "start"}
        stops(k) == {i \in 1..k : blocks[i].name = "stop"}
    IN \A k \in DOMAIN blocks :
           /\ blocks[k].name = "start" =>
                  /\ Cardinality(starts(k - 1)) = Cardinality(stops(k - 1))
                  /\ blocks[k].block = Cardinality(starts(k - 1))
           /\ blocks[k].name \in {"delta", "signature", "stop"} =>
                  /\ Cardinality(starts(k - 1)) = Cardinality(stops(k - 1)) + 1
                  /\ blocks[k].block = Cardinality(starts(k - 1)) - 1
           /\ blocks[k].name = "message_delta" => Cardinality(starts(k - 1)) = Cardinality(stops(k - 1))

\* _drain_request_body, _fail, start_stream, the pump: responses stay apart,
\* the streams are well formed whatever fails, and a reply that came to its
\* end with the client there is complete.
ResponsesAreFramed ==
    /\ BoundariesHold
    /\ req.stream /\ Anthropic /\ wire # <<>> /\ Names[Len(wire)] # "body" => BlocksNest
    /\ \A b \in {"delta", "ping", "tool"} : After("final", b) /\ After("done", b)
    /\ \A b \in {"role", "final", "usage"} : After("done", b) /\ Len(Said({b})) <= 1
    /\ \A i \in DOMAIN wire : Names[i] \in {"done", "message_stop"} => i = Len(wire)
    /\ at = "drain" /\ reply.connected /\ ~reply.failed =>
           Names[Len(wire)] = IF Anthropic THEN "message_stop" ELSE "done"
=============================================================================
