-------------------------------- MODULE Json --------------------------------
(***************************************************************************)
(* Documents of JSON, and the operations of kc::json::JsonBuilder on them  *)
(* as operators; JsonBuilder is the machine that calls them.               *)
(*                                                                         *)
(* A document is <<"num", n>> (n halves, so that there are fractions),     *)
(* <<"bool", b>>, <<"str", s>>, <<"array", sequence of documents>> or      *)
(* <<"object", function from names to documents>>. A text is a sequence of *)
(* <<"begin", kind>> and <<"end", kind>> for the brackets of an "object"   *)
(* or an "array", <<"comma">>, <<"key", name>> for the name and the colon  *)
(* behind it, <<"value", document>>, and <<"word">> for characters that    *)
(* begin no token of JSON. Names and strings hold nothing that would have  *)
(* to be escaped: the builder does not escape.                             *)
(*                                                                         *)
(* An argument of addField() is, by the overload it takes, <<"str", s>> (a *)
(* std::string), <<"num", n>> (one that the six digits of a stream write   *)
(* exactly), <<"bool", b>>, <<"node", document>> (a Json::Value), or       *)
(* <<"literal", d>>: a string literal or a character, whose text is that   *)
(* of the document d, or a word if d is None. (Literals that are part of a *)
(* document, as a bracket or a comma, or more than one are left out.)      *)
(***************************************************************************)
EXTENDS Fields, SequencesExt, TLC

None == <<"none">>
CouldNotCreateJson == <<"CouldNotCreateJson">>

\* Json::CharReader with its defaults, between two tokens: the containers that
\* are open, the outermost first, the name of the member whose value comes next,
\* what is expected, and the document or the error once there is one.
Reading(open, key, expects) ==
    [open |-> open, key |-> key, expects |-> expects, document |-> None]
Complete(document) ==
    [open |-> <<>>, key |-> <<>>, expects |-> "nothing", document |-> document]

\* A value becomes an element of the innermost container, or its member called
\* key, of which the last one counts.
WithItem(open, key, value) ==
    LET top == Last(open)
        content == IF top.kind = "object" THEN (key[1] :> value) @@ top.content
                   ELSE Append(top.content, value)
    IN Append(Front(open), [kind |-> top.kind, name |-> top.name, content |-> content])

\* A value can follow: as the document, behind a name, or in an array.
ExpectsValue(r) ==
    \/ r.expects \in {"document", "value"}
    \/ r.expects = "item" /\ Last(r.open).kind # "object"

\* (A name in the place of the document is a string.)
readKey(r, name) ==
    IF r.expects = "document" THEN Complete(<<"str", name>>)
    ELSE IF r.expects = "item" /\ Last(r.open).kind = "object"
    THEN Reading(r.open, <<name>>, "value")
    ELSE Complete(CouldNotCreateJson)

readBegin(r, kind) ==
    IF ExpectsValue(r)
    THEN Reading(Append(r.open, [kind |-> kind,
                                 name |-> IF r.expects = "value" THEN r.key ELSE <<>>,
                                 content |-> <<>>]),
                 <<>>, "item")
    ELSE Complete(CouldNotCreateJson)

\* A comma may stand in front of a closing bracket.
readEnd(r, kind) ==
    LET top == Last(r.open)
        value == <<kind, top.content>>
    IN IF r.expects \notin {"item", "comma"} \/ top.kind # kind THEN Complete(CouldNotCreateJson)
       ELSE IF Len(r.open) = 1 THEN Complete(value)
       ELSE Reading(WithItem(Front(r.open), top.name, value), <<>>, "comma")

readValue(r, value) ==
    IF r.expects = "document" THEN Complete(value)
    ELSE IF ExpectsValue(r) THEN Reading(WithItem(r.open, r.key, value), <<>>, "comma")
    ELSE Complete(CouldNotCreateJson)

readComma(r) ==
    IF r.expects = "comma" THEN Reading(r.open, <<>>, "item") ELSE Complete(CouldNotCreateJson)

\* What follows the document is ignored. No document has a word in it.
readToken(r, token) ==
    IF r.document # None THEN r
    ELSE IF token[1] = "key" THEN readKey(r, token[2])
    ELSE IF token[1] = "value" THEN readValue(r, token[2])
    ELSE IF token[1] = "begin" THEN readBegin(r, token[2])
    ELSE IF token[1] = "end" THEN readEnd(r, token[2])
    ELSE IF token[1] = "comma" THEN readComma(r)
    ELSE Complete(CouldNotCreateJson)

readText(text) ==
    LET reader[n \in 0 .. Len(text)] ==
            IF n = 0 THEN Reading(<<>>, <<>>, "document") ELSE readToken(reader[n - 1], text[n])
    IN reader[Len(text)]

----------------------------------------------------------------------------
\* A builder: what its stream holds and has not been read, and m_shouldInsertComma.
Open(b, tokens) ==
    [text |-> b.text \o (IF b.comma THEN << <<"comma">> >> ELSE <<>>) \o tokens, comma |-> FALSE]

Close(b, kind) == [text |-> Append(b.text, <<"end", kind>>), comma |-> TRUE]

beginObject(b) == Open(b, << <<"begin", "object">> >>)
beginObjectNamed(b, name) == Open(b, << <<"key", name>>, <<"begin", "object">> >>)
endObject(b) == Close(b, "object")
beginArray(b) == Open(b, << <<"begin", "array">> >>)
beginArrayNamed(b, name) == Open(b, << <<"key", name>>, <<"begin", "array">> >>)

\* Mutant: no comma behind an array.
endArrayNoComma(b) == [text |-> Append(b.text, <<"end", "array">>), comma |-> FALSE]

endArray(b) == Close(b, "array")

\* What m_jsonStream << value writes: std::string is put between quotes before,
\* a bool is written as 1 or 0, and a string literal, which takes the overload
\* for any other type, as it is.
Written(argument) ==
    CASE argument[1] = "bool" -> <<"value", <<"num", IF argument[2] THEN 2 ELSE 0>>>>
      [] argument[1] = "node" -> <<"value", argument[2]>>
      [] argument[1] = "literal" ->
            IF argument[2] = None THEN <<"word">> ELSE <<"value", argument[2]>>
      [] OTHER -> <<"value", argument>>

\* addField() with and without a name.
addField(b, value) == [Open(b, <<Written(value)>>) EXCEPT !.comma = TRUE]
addFieldNamed(b, name, value) ==
    [Open(b, << <<"key", name>>, Written(value)>>) EXCEPT !.comma = TRUE]

\* addField() with a container: what the loop leaves.
addFieldLoop(b, values) ==
    LET filled[n \in 0 .. Len(values)] ==
            IF n = 0 THEN b ELSE addField(filled[n - 1], values[n])
    IN filled[Len(values)]

addFieldArray(b, name, values) == endArray(addFieldLoop(beginArrayNamed(b, name), values))

\* The constructor.
NewBuilder == beginObject([text |-> <<>>, comma |-> FALSE])

\* asJsonObject(): closes the object and reads the whole stream; what follows
\* the first value is ignored. reset() clears the flags of the stream, which has
\* none set: what has been read is gone, what is written next begins anew. After
\* an error nothing is reset.
asJsonObject(b) ==
    LET result == readText(endObject(b).text).document
        failed == result \in {None, CouldNotCreateJson}
    IN [builder |-> [text |-> <<>>, comma |-> failed],
        doc |-> IF failed THEN CouldNotCreateJson ELSE result]
=============================================================================
