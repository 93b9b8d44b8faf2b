---------------------------- MODULE JsonBuilder ----------------------------
(***************************************************************************)
(* kc::json::JsonBuilder under any sequence of calls: it checks nothing,   *)
(* writes text, and leaves it to the reader to reject what is no document. *)
(***************************************************************************)
EXTENDS Json

CONSTANTS
    Name, Value,    \* names of fields, and arguments of addField() for their values
    MaxCalls        \* bound: calls of one builder

\* What the reader returns when there is no document is none.
ASSUME ValueAssumption ==
    \A value \in Value :
        /\ value[1] \in {"num", "str", "bool", "literal", "node"}
        /\ value[1] = "node" => value[2] \notin {None, CouldNotCreateJson}
        /\ value[1] = "literal" => value[2] # CouldNotCreateJson

VARIABLES
    builder,
    calls,      \* the calls since the builder was created or asJsonObject() returned
    document,   \* the last result of asJsonObject()
    used        \* asJsonObject() has been called before those calls

builderVars == <<builder, calls, document, used>>

BuilderInit ==
    /\ builder = NewBuilder
    /\ calls = <<>> /\ document = None /\ used = FALSE

Invoke(call, b) ==
    /\ Len(calls) < MaxCalls
    /\ document = None
    /\ calls' = Append(calls, call)
    /\ builder' = b
    /\ UNCHANGED <<document, used>>

BeginObject == Invoke(<<"begin", "object">>, beginObject(builder))
BeginObjectNamed(name) == Invoke(<<"beginNamed", "object", name>>, beginObjectNamed(builder, name))
EndObject == Invoke(<<"end", "object">>, endObject(builder))
BeginArray == Invoke(<<"begin", "array">>, beginArray(builder))
BeginArrayNamed(name) == Invoke(<<"beginNamed", "array", name>>, beginArrayNamed(builder, name))
EndArray == Invoke(<<"end", "array">>, endArray(builder))
AddField(value) == Invoke(<<"add", value>>, addField(builder, value))
AddFieldNamed(name, value) ==
    Invoke(<<"addNamed", value, name>>, addFieldNamed(builder, name, value))
AddFieldArray(name, values) ==
    Invoke(<<"addNamed", <<"array", values>>, name>>, addFieldArray(builder, name, values))

AsJsonObject ==
    /\ document = None
    /\ document' = asJsonObject(builder).doc
    /\ builder' = asJsonObject(builder).builder
    /\ UNCHANGED <<calls, used>>

\* The caller goes on with a builder that it has used already.
Reuse ==
    /\ document # None /\ ~ used
    /\ used' = TRUE
    /\ calls' = <<>> /\ document' = None
    /\ UNCHANGED builder

BuilderNext ==
    \/ BeginObject \/ EndObject \/ BeginArray \/ EndArray \/ AsJsonObject \/ Reuse
    \/ \E name \in Name :
          \/ BeginObjectNamed(name) \/ BeginArrayNamed(name)
          \/ \E value \in Value : AddFieldNamed(name, value) \/ AddFieldArray(name, <<value, value>>)
    \/ \E value \in Value : AddField(value)

BuilderSpec == BuilderInit /\ [][BuilderNext]_builderVars

----------------------------------------------------------------------------
\* What the calls mean: the stack of the containers that are open, each with
\* the name it will have in the one around it, or that they make no sense. When
\* the outermost one has been closed, the rest does not count. (An item takes its
\* place as it does for the reader: that is not up to the builder.)
InProgress(open) == [open |-> open, document |-> None]
Over(value) == [open |-> <<>>, document |-> value]
Root == [kind |-> "object", name |-> <<>>, content |-> <<>>]

\* What an argument means: itself, except that JSON knows no bool of a stream but
\* its number, 1 or 0, and that a string literal is what its text is, which may
\* be no JSON. An array has no sense if one of its items has none.
Single(argument) ==
    IF argument[1] = "bool" THEN <<"num", IF argument[2] THEN 2 ELSE 0>>
    ELSE IF argument[1] = "node" THEN argument[2]
    ELSE IF argument[1] # "literal" THEN argument
    ELSE IF argument[2] = None THEN CouldNotCreateJson
    ELSE argument[2]

Meaning(argument) ==
    IF argument[1] # "array" THEN Single(argument)
    ELSE IF \E n \in DOMAIN argument[2] : Single(argument[2][n]) = CouldNotCreateJson
    THEN CouldNotCreateJson
    ELSE <<"array", [n \in DOMAIN argument[2] |-> Single(argument[2][n])]>>

\* Something is added to the innermost container: with a name to an object,
\* without one to an array.
Fits(m, name) == (Last(m.open).kind = "object") = (name # <<>>)

Understand(m, call) ==
    LET name == IF call[1] \in {"beginNamed", "addNamed"} THEN <<call[3]>> ELSE <<>>
        top == Last(m.open)
        value == <<call[2], top.content>>
    IN IF m.document # None THEN m
       ELSE IF call[1] = "end"
       THEN IF top.kind # call[2] THEN Over(CouldNotCreateJson)
            ELSE IF Len(m.open) = 1 THEN Over(value)
            ELSE InProgress(WithItem(Front(m.open), top.name, value))
       ELSE IF ~ Fits(m, name) THEN Over(CouldNotCreateJson)
       ELSE IF call[1] \in {"add", "addNamed"}
       THEN IF Meaning(call[2]) = CouldNotCreateJson THEN Over(CouldNotCreateJson)
            ELSE InProgress(WithItem(m.open, name, Meaning(call[2])))
       ELSE InProgress(Append(m.open, [kind |-> call[2], name |-> name, content |-> <<>>]))

Described(all) ==
    LET understood[n \in 0 .. Len(all)] ==
            IF n = 0 THEN InProgress(<<Root>>) ELSE Understand(understood[n - 1], all[n])
    IN understood[Len(all)]

\* The caller begins with an object, or with a value that is one.
OpensObject(call) ==
    call = <<"begin", "object">> \/ (call[1] = "add" /\ Meaning(call[2])[1] = "object")

\* A new builder yields the document that its calls describe, commas, nesting
\* and repeated names included, or throws if they describe none: if a name is
\* missing or too many, a bracket does not match, not everything is closed, or a
\* string literal was given that is no JSON. A bool comes out as 1 or 0. A builder
\* that has been used yields no object if its user does not open one.
BuilderFaithful ==
    document # None =>
        IF ~ used
        THEN LET meant == Described(Append(calls, <<"end", "object">>)).document
             IN document = IF meant = None THEN CouldNotCreateJson ELSE meant
        ELSE document[1] = "object" => calls # <<>> /\ OpensObject(calls[1])
=============================================================================
