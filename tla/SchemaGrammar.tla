---------------------------- MODULE SchemaGrammar ----------------------------
(***************************************************************************)
(* c/schema_gbnf.h: a JSON schema is compiled to a GBNF text, which        *)
(* grammar.h parses.  A schema is a record of its keywords, a JSON text a  *)
(* sequence of bytes; digits are 0 and 1, white space is one byte.         *)
(***************************************************************************)
EXTENDS Integers, Sequences, FiniteSets, SequencesExt

CONSTANTS MaxSchemaDepth

Quote == "Q"
Backslash == "/"
Space == " "

Annotations == {"title", "description", "default", "examples", "additionalProperties"}
Keywords == {"type", "properties", "required", "items", "enum", "const", "minItems"} \union Annotations

----------------------------------------------------------------------------
(* GBNF tokens.                                                            *)

Lit(bytes) == <<<<"lit", bytes>>>>
Cls(bytes) == <<<<"cls", bytes>>>>
Ref(name) == <<<<"ref", name>>>>
Rule(name) == <<<<"rule", name>>>>
Group(tokens) == <<<<"(">>>> \o tokens \o <<<<")">>>>
Post(tokens, op) == tokens \o <<<<"post", op>>>>
Bar == <<<<"|">>>>
Gap == Ref("jws")

\* The alternatives of a sequence of token sequences.
Alternatives(parts) ==
    FlattenSeq([k \in DOMAIN parts |-> IF k = 1 THEN parts[k] ELSE Bar \o parts[k]])

Unsupported == <<<<"unsupported">>>>
Fails(tokens) == \E k \in DOMAIN tokens : tokens[k] = <<"unsupported">>

----------------------------------------------------------------------------
(* The compiler.  A value of const or enum is [kind, bytes].               *)

Escaped(c) == IF c \in {Quote, Backslash} THEN <<Backslash, c>> ELSE <<c>>
StringBytes(raw) == <<Quote>> \o FlattenSeq([k \in DOMAIN raw |-> Escaped(raw[k])]) \o <<Quote>>

\* sgb_put_json_string_lit, sgb_put_number_lit
Literal(v) ==
    CASE v.kind = "string" -> Lit(StringBytes(v.bytes))
      [] v.kind \in {"number", "word"} -> Lit(v.bytes)
      [] OTHER -> Unsupported

\* Mutant: an array may end after a comma.
ArrayOpenEnded(least, item) ==
    LET more == Post(Group(Lit(<<",">>) \o Gap \o Post(Group(item), "?") \o Gap), "*")
    IN Lit(<<"[">>) \o Gap
       \o (IF least = 1 THEN item \o Gap \o more ELSE Post(Group(item \o Gap \o more), "?"))
       \o Lit(<<"]">>)

ArrayOf(least, item) ==
    LET more == Post(Group(Lit(<<",">>) \o Gap \o item \o Gap), "*")
    IN Lit(<<"[">>) \o Gap
       \o (IF least = 1 THEN item \o Gap \o more ELSE Post(Group(item \o Gap \o more), "?"))
       \o Lit(<<"]">>)

\* sgb_array
Array(s, item) ==
    LET least == IF "minItems" \in DOMAIN s THEN s.minItems ELSE 0
    IN IF least > 1 \/ "items" \notin DOMAIN s THEN Unsupported ELSE ArrayOf(least, item)

\* sgb_object: members gives the tokens of the properties' values.
Object(s, members) ==
    LET names == {s.properties[k][1] : k \in DOMAIN s.properties}
        member(k) == Lit(StringBytes(s.properties[k][1])) \o Gap \o Lit(<<":">>) \o Gap
                     \o members[k] \o Gap
    IN IF "properties" \notin DOMAIN s THEN Unsupported
       ELSE IF s.properties = <<>> THEN Lit(<<"{">>) \o Gap \o Lit(<<"}">>)
       ELSE IF "required" \in DOMAIN s
               /\ (Len(s.required) # Len(s.properties) \/ ~(names \subseteq Range(s.required)))
            THEN Unsupported
       ELSE Lit(<<"{">>) \o Gap
            \o FlattenSeq([k \in DOMAIN s.properties |->
                   IF k = 1 THEN member(k) ELSE Lit(<<",">>) \o Gap \o member(k)])
            \o Lit(<<"}">>)

\* sgb_value
RECURSIVE Value(_, _)
Value(s, depth) ==
    LET type == IF "type" \in DOMAIN s THEN s.type ELSE "missing"
    IN IF depth > MaxSchemaDepth \/ ~(DOMAIN s \subseteq Keywords) THEN Unsupported
       ELSE IF "const" \in DOMAIN s THEN Literal(s.const)
       ELSE IF "enum" \in DOMAIN s
            THEN IF s.enum = <<>> THEN Unsupported
                 ELSE Group(Alternatives([k \in DOMAIN s.enum |-> Literal(s.enum[k])]))
       ELSE CASE type = "object" ->
                     Object(s, IF "properties" \notin DOMAIN s THEN <<>>
                               ELSE [k \in DOMAIN s.properties |-> Value(s.properties[k][2], depth + 1)])
              [] type = "array" ->
                     Array(s, IF "items" \in DOMAIN s THEN Value(s.items, depth + 1) ELSE <<>>)
              [] type = "string" -> Ref("jstr")
              [] type = "number" -> Ref("jnum")
              [] type = "integer" -> Ref("jint")
              [] type = "boolean" -> Group(Lit(<<"t">>) \o Bar \o Lit(<<"f">>))
              [] type = "null" -> Lit(<<"n">>)
              [] OTHER -> Unsupported

Uses(tokens, name) == \E k \in DOMAIN tokens : tokens[k] = <<"ref", name>>

StringRules ==
    Rule("jstr") \o Lit(<<Quote>>) \o Post(Ref("jchar"), "*") \o Lit(<<Quote>>)
    \o Rule("jchar") \o Cls({"x", Space}) \o Bar \o Lit(<<Backslash>>) \o Cls({Quote, Backslash})
IntegerPart == Post(Lit(<<"-">>), "?")
               \o Group(Lit(<<"0">>) \o Bar \o Cls({"1"}) \o Post(Cls({"0", "1"}), "*"))
NumberRules ==
    Rule("jnum") \o IntegerPart
    \o Post(Group(Lit(<<".">>) \o Post(Cls({"0", "1"}), "+")), "?")
    \o Post(Group(Lit(<<"e">>) \o Post(Group(Lit(<<"+">>) \o Bar \o Lit(<<"-">>)), "?")
                  \o Post(Cls({"0", "1"}), "+")), "?")

\* schema_to_gbnf
Compile(s) ==
    LET value == Value(s, 0)
    IN IF Fails(value) THEN Unsupported
       ELSE Rule("root") \o Gap \o value \o Gap
            \o Rule("jws") \o Post(Cls({Space}), "*")
            \o (IF Uses(value, "jstr") THEN StringRules ELSE <<>>)
            \o (IF Uses(value, "jnum") THEN NumberRules ELSE <<>>)
            \o (IF Uses(value, "jint") THEN Rule("jint") \o IntegerPart ELSE <<>>)

----------------------------------------------------------------------------
(* The reference: the JSON texts of the values a schema describes, as      *)
(* sequences of JSON tokens, and with white space between them.            *)

Digits(n) == UNION {[1..k -> {"0", "1"}] : k \in 1..n}
Signed(words) == words \union {<<"-">> \o w : w \in words}
Integer(n) == Signed({w \in Digits(n) : Len(w) = 1 \/ w[1] = "1"})
Number(n) ==
    LET dot == {<<>>} \union {<<".">> \o d : d \in Digits(n - 2)}
        power == {<<>>} \union {<<"e">> \o sign \o d : sign \in {<<>>, <<"+">>, <<"-">>}, d \in Digits(n - 2)}
        plain == {w \in {i \o f : i \in Integer(n), f \in dot} : Len(w) <= n}
    IN UNION {{i \o p : i \in {w \in plain : Len(w) + Len(p) <= n}} : p \in power}
String(n) ==
    LET chars == {<<"x">>, <<Space>>, <<Backslash, Quote>>, <<Backslash, Backslash>>}
        texts == UNION {[1..k -> chars] : k \in 0..(n - 2)}
    IN {w \in {<<Quote>> \o FlattenSeq(t) \o <<Quote>> : t \in texts} : Len(w) <= n}

Plain(v) == IF v.kind = "string" THEN StringBytes(v.bytes) ELSE v.bytes

\* The token sequences of the values; n bounds the bytes.
TokenCount(tokens) == Len(FlattenSeq(tokens))
RECURSIVE Texts(_, _)
Texts(s, n) ==
    LET fit(set) == {t \in set : TokenCount(t) <= n}
        items == Texts(s.items, n - 2)
        list[k \in 1..(n \div 2)] ==
            IF k = 1 THEN items ELSE fit({a \o <<<<",">>>> \o b : a \in list[k - 1], b \in items})
        member(k) == {<<StringBytes(s.properties[k][1]), <<":">>>> \o v :
                          v \in Texts(s.properties[k][2], n - Len(s.properties[k][1]) - 5)}
        members[k \in 1..Len(s.properties)] ==
            IF k = 1 THEN member(1)
            ELSE fit({a \o <<<<",">>>> \o b : a \in members[k - 1], b \in member(k)})
        inside == IF s.type = "array" THEN UNION {list[k] : k \in DOMAIN list} ELSE {}
    IN CASE n <= 0 -> {}
         [] n > 0 /\ "const" \in DOMAIN s -> fit({<<Plain(s.const)>>})
         [] n > 0 /\ "const" \notin DOMAIN s /\ "enum" \in DOMAIN s ->
                fit({<<Plain(s.enum[k])>> : k \in DOMAIN s.enum})
         [] n > 0 /\ "const" \notin DOMAIN s /\ "enum" \notin DOMAIN s ->
            CASE s.type = "string" -> {<<w>> : w \in String(n)}
              [] s.type = "integer" -> {<<w>> : w \in Integer(n)}
              [] s.type = "number" -> {<<w>> : w \in Number(n)}
              [] s.type = "boolean" -> {<<<<"t">>>>, <<<<"f">>>>}
              [] s.type = "null" -> {<<<<"n">>>>}
              [] s.type = "array" ->
                     fit({<<<<"[">>>> \o t \o <<<<"]">>>> : t \in inside}
                         \union (IF "minItems" \in DOMAIN s /\ s.minItems = 1 THEN {} ELSE {<<<<"[">>, <<"]">>>>}))
              [] s.type = "object" ->
                     fit({<<<<"{">>>> \o t \o <<<<"}">>>> :
                              t \in IF s.properties = <<>> THEN {<<>>} ELSE members[Len(s.properties)]})

\* White space before and after every token, at most extra bytes in all.
Spaces(n) == {[k \in 1..m |-> Space] : m \in 0..n}
Spaced(tokens, extra) ==
    LET upTo[k \in 0..Len(tokens)] ==
            IF k = 0 THEN {[w |-> s, left |-> extra - Len(s)] : s \in Spaces(extra)}
            ELSE UNION {{[w |-> a.w \o tokens[k] \o s, left |-> a.left - Len(s)] :
                             s \in Spaces(a.left)} : a \in upTo[k - 1]}
    IN {a.w : a \in upTo[Len(tokens)]}

Conforming(s, n, extra) == UNION {Spaced(t, extra) : t \in Texts(s, n)}
=============================================================================
