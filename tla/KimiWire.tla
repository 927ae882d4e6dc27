------------------------------- MODULE KimiWire -------------------------------
(***************************************************************************)
(* The chat payload between render_chat_kimi (openai_server.py) and        *)
(* chat_build_wire (kimi_k3.c): records with a header line and bytes that  *)
(* the header counts, so that a text may hold anything, the look of a      *)
(* header included; and the K3 tokens built from them.  A header with its  *)
(* newline is one symbol here, a character one or two bytes.               *)
(***************************************************************************)
EXTENDS Naturals, Sequences, SequencesExt

CONSTANT Wide                       \* the characters of two bytes

Header(tag, role, lengths) == [tag |-> tag, role |-> role, lengths |-> lengths]
Start == Header("K3CHAT1", "", <<>>)

Bytes(text) ==
    FlattenSeq([i \in DOMAIN text |->
        IF text[i] \in Wide THEN <<[of |-> text[i], byte |-> 1], [of |-> text[i], byte |-> 2]>>
        ELSE <<[of |-> text[i], byte |-> 1]>>])

----------------------------------------------------------------------------
(* render_chat_kimi.                                                       *)
\* Mutant: the lengths are those of the characters.
TextLengthChars(text) == Len(text)

TextLength(text) == Len(Bytes(text))

RecordOf(m, thinking) ==
    IF m.role = "assistant" /\ thinking
    THEN <<Header("A", "", <<TextLength(m.reasoning), TextLength(m.text)>>)>> \o Bytes(m.reasoning) \o Bytes(m.text)
    ELSE <<Header("M", m.role, <<TextLength(m.text)>>)>> \o Bytes(m.text)

Render(messages, thinking) ==
    <<Start>> \o FlattenSeq([i \in DOMAIN messages |-> RecordOf(messages[i], thinking)])
    \o <<Header("G", "", <<IF thinking THEN 1 ELSE 0>>)>>

----------------------------------------------------------------------------
(* cb_special, cb_text, cb_open, cb_close: an empty text has no tokens.    *)
TextIds(bytes) == IF bytes = <<>> THEN <<>> ELSE <<[text |-> bytes]>>
OpenIds(tag) == <<"open", tag, "sep">>
OpenRoleIds(tag, role) == <<"open", tag, " role", "=", "quote", role, "quote", "sep">>
CloseIds(tag) == <<"close", tag, "sep">>

\* chat_message, chat_assistant.
MessageIds(role, bytes) ==
    OpenRoleIds("message", role)
    \o (IF role = "assistant" THEN OpenIds("response") \o TextIds(bytes) \o CloseIds("response")
        ELSE TextIds(bytes))
    \o CloseIds("message") \o <<"eom">>

AssistantIds(reason, bytes) ==
    OpenRoleIds("message", "assistant")
    \o OpenIds("think") \o TextIds(reason) \o CloseIds("think")
    \o OpenIds("response") \o TextIds(bytes) \o CloseIds("response")
    \o CloseIds("message") \o <<"eom">>

\* What the generation starts with.
PromptIds(thinking) == OpenRoleIds("message", "assistant") \o OpenIds(IF thinking THEN "think" ELSE "response")

----------------------------------------------------------------------------
(* chat_build_wire: the records from position p on; a record that is cut   *)
(* short, or of no known kind or role, makes the payload invalid.          *)
Invalid == [valid |-> FALSE]
Built(ids) == [valid |-> TRUE, ids |-> ids]
Before(ids, rest) == IF rest.valid THEN Built(ids \o rest.ids) ELSE Invalid

IsHeader(s) == "tag" \in DOMAIN s
Payload(wire, p, n) == SubSeq(wire, p + 1, p + n)

\* Mutant: a record ends where the next header seems to be.
NextRecordSearched(wire, p, n) ==
    LET later == {q \in (p + 1)..Len(wire) : IsHeader(wire[q]) \/ wire[q].of = "G 1"} IN
    IF later = {} THEN Len(wire) + 1 ELSE CHOOSE q \in later : \A r \in later : q <= r

NextRecord(wire, p, n) == p + n + 1

Role(r) == IF r = "developer" THEN "system" ELSE r

Parsed(wire) ==
    LET from[p \in 2..(Len(wire) + 1)] ==
        IF p = Len(wire) + 1 THEN Built(PromptIds(FALSE))
        ELSE IF ~IsHeader(wire[p]) THEN Invalid
        ELSE LET h == wire[p] IN
             CASE h.tag = "G" -> Built(PromptIds(h.lengths[1] = 1))
               [] h.tag = "A" ->
                      LET a == h.lengths[1] b == h.lengths[2] IN
                      IF p + a + b > Len(wire) THEN Invalid
                      ELSE Before(AssistantIds(Payload(wire, p, a), Payload(wire, p + a, b)),
                                  from[NextRecord(wire, p, a + b)])
               [] h.tag = "M" ->
                      LET n == h.lengths[1] IN
                      IF p + n > Len(wire) \/ Role(h.role) \notin {"system", "user", "assistant"} THEN Invalid
                      ELSE Before(MessageIds(Role(h.role), Payload(wire, p, n)),
                                  from[NextRecord(wire, p, n)])
               [] OTHER -> Invalid
    IN IF wire = <<>> THEN Invalid ELSE IF wire[1] # Start THEN Invalid ELSE from[2]

\* chat_build: the prompt of the command line.
LocalIds(sys, user, thinking) ==
    (IF sys = <<>> THEN <<>>
     ELSE OpenRoleIds("message", "system") \o TextIds(sys) \o CloseIds("message") \o <<"eom">>)
    \o OpenRoleIds("message", "user") \o TextIds(user) \o CloseIds("message") \o <<"eom">>
    \o PromptIds(thinking)

----------------------------------------------------------------------------
(* chat_build_wire's comment: the framing keeps arbitrary UTF-8 and        *)
(* newlines, and the segment boundaries of the template: the tokens are    *)
(* those of each message, each text a segment of its own, whatever it      *)
(* looks like; a conversation of a system text and a question is the       *)
(* prompt of the command line.                                             *)
TurnIds(m, thinking) ==
    IF m.role = "assistant" /\ thinking THEN AssistantIds(Bytes(m.reasoning), Bytes(m.text))
    ELSE MessageIds(Role(m.role), Bytes(m.text))

ChatRoundTrips(messages, thinking) ==
    /\ Parsed(Render(messages, thinking)) =
           Built(FlattenSeq([i \in DOMAIN messages |-> TurnIds(messages[i], thinking)]) \o PromptIds(thinking))
    /\ (Len(messages) = 2 /\ messages[1].role \in {"system", "developer"} /\ messages[2].role = "user"
        /\ messages[1].text # <<>>) =>
           Parsed(Render(messages, thinking)).ids =
               LocalIds(Bytes(messages[1].text), Bytes(messages[2].text), thinking)

(* A payload cut anywhere is refused, or is cut between two records.       *)
CutIsRefused(messages, thinking) ==
    LET wire == Render(messages, thinking) IN
    \A n \in 0..(Len(wire) - 1) :
        Parsed(SubSeq(wire, 1, n)).valid =>
            \E k \in 0..Len(messages) : n = Len(Render(SubSeq(messages, 1, k), thinking)) - 1
=============================================================================
