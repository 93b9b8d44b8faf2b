----------------------------- MODULE JsonField -----------------------------
(***************************************************************************)
(* kc::json::fieldFrom(): the chain of calls that takes a field out of a   *)
(* document and says what it must be, such as                              *)
(*   fieldFrom<Error>(node).withName("f").ofType<int>().min(0).get()       *)
(*                                                                         *)
(* The value that ofType(), asArray() and asObject() return holds a        *)
(* reference to the name inside of the object that fieldFrom() returned,   *)
(* which is gone when the expression ends: Store is a caller that keeps    *)
(* the value in a variable and goes on later.                              *)
(***************************************************************************)
EXTENDS Fields, SequencesExt, FiniteSetsExt

CONSTANTS
    Document,       \* the documents, all of them objects
    FieldName,      \* the names that are asked for
    Limit,          \* limits for numbers (in halves) and sizes
    MaxChecks       \* bound: the calls of a chain

VARIABLES
    m_node,         \* the document
    m_name,         \* the name, if there is one: a sequence
    m_value,        \* the value, once there is one
    valueType,      \* its type T, "Node" after asArray() and asObject()
    asked,          \* the calls so far
    stored,         \* the expression has ended
    outcome         \* "none", "value" after get(), or what has been thrown

fieldVars == <<m_node, m_name, m_value, valueType, asked, stored, outcome>>

\* The size of a string, an array or an object.
SizeOf(node) == IF node[1] = "object" THEN Cardinality(DOMAIN node[2]) ELSE Len(node[2])

\* A number is one, and so is a size.
ASSUME DocumentAssumption ==
    \A document \in Document : \A name \in DOMAIN document[2] :
        LET node == document[2][name] IN
        /\ node[1] = "num" => node[2] \in Int
        /\ node[1] \in {"str", "array", "object"} => SizeOf(node) \in Nat
ASSUME LimitAssumption == Limit \subseteq Int

FieldInit ==
    /\ m_node \in Document
    /\ m_name = <<>> /\ m_value = <<"none">> /\ valueType = "none"
    /\ asked = <<>> /\ stored = FALSE /\ outcome = "none"

\* A call, and what it throws if it does not pass.
Ask(call, passes, error) ==
    /\ outcome = "none" /\ Len(asked) < MaxChecks
    /\ asked' = Append(asked, call)
    /\ outcome' = IF passes THEN "none" ELSE error

----------------------------------------------------------------------------
\* withName(): once, ...
WithNameAgain(name) ==
    /\ valueType = "none" /\ m_name # <<>>
    /\ Ask(<<"withName", name>>, FALSE, "JsonLogicError")
    /\ UNCHANGED <<m_node, m_name, m_value, valueType, stored>>

\* ... the name of a member.
WithName(name) ==
    /\ valueType = "none" /\ m_name = <<>>
    /\ Ask(<<"withName", name>>, name \in DOMAIN m_node[2], "Error")
    /\ m_name' = <<name>>
    /\ UNCHANGED <<m_node, m_value, valueType, stored>>

\* ofType(), asArray() and asObject() without a name.
Unnamed(call) ==
    /\ valueType = "none" /\ m_name = <<>>
    /\ Ask(call, FALSE, "JsonLogicError")
    /\ UNCHANGED <<m_node, m_name, m_value, valueType, stored>>

\* The member becomes the value, of this type.
Extract(call, passes, type) ==
    /\ valueType = "none" /\ m_name # <<>>
    /\ Ask(call, passes, "Error")
    /\ m_value' = IF passes THEN m_node[2][m_name[1]] ELSE m_value
    /\ valueType' = IF passes THEN type ELSE valueType
    /\ UNCHANGED <<m_node, m_name, stored>>

member == m_node[2][m_name[1]]

OfType(T) == Extract(<<"ofType", T>>, tryToExtractValue(member, T), T)
AsArray == Extract(<<"asArray">>, member[1] = "array", "array")
AsObject == Extract(<<"asObject">>, member[1] = "object", "object")

\* A check of the value. Its message is put together whether it is needed or
\* not, and the message has the name in it if useName says so.
Check(call, types, passes, useName) ==
    /\ valueType \in types
    /\ Ask(call, passes /\ ~ (stored /\ useName),
           IF stored /\ useName THEN "undefined" ELSE "Error")
    /\ UNCHANGED <<m_node, m_name, m_value, valueType, stored>>

\* ArrayWrapper::ofType(): the type of every element. (The chain goes on with
\* what can be asked of an array.)
ElementsOfType(T) ==
    Check(<<"elementsOfType", T>>, {"array"},
          \A n \in DOMAIN m_value[2] : tryToExtractValue(m_value[2][n], T), m_value[2] # <<>>)

\* min(), max() and inRange(), for numbers. (For a bool they say nothing.)
Minimum(min) == Check(<<"min", min>>, Arithmetic \ {"bool"}, m_value[2] >= min, TRUE)
Maximum(max) == Check(<<"max", max>>, Arithmetic \ {"bool"}, m_value[2] <= max, FALSE)

\* Mutant: the limits are swapped.
InRangeSwapped(min, max) ==
    Check(<<"inRange", min, max>>, Arithmetic \ {"bool"}, max <= m_value[2] /\ m_value[2] <= min, TRUE)

InRange(min, max) ==
    Check(<<"inRange", min, max>>, Arithmetic \ {"bool"}, min <= m_value[2] /\ m_value[2] <= max, TRUE)

\* nonEmpty(), minSize(), maxSize() and sizeInRange(), for strings and nodes.
SizeInRange(min, max) ==
    Check(<<"sizeInRange", min, max>>, {"string", "array", "object"},
          min <= SizeOf(m_value) /\ SizeOf(m_value) <= max, FALSE)

Store ==
    /\ valueType # "none" /\ outcome = "none"
    /\ stored' = TRUE
    /\ UNCHANGED <<m_node, m_name, m_value, valueType, asked, outcome>>

Get ==
    /\ valueType # "none" /\ outcome = "none"
    /\ outcome' = "value"
    /\ UNCHANGED <<m_node, m_name, m_value, valueType, asked, stored>>

FieldNext ==
    \/ \E name \in FieldName : WithName(name) \/ WithNameAgain(name)
    \/ \E T \in FieldType : OfType(T) \/ ElementsOfType(T) \/ Unnamed(<<"ofType", T>>)
    \/ AsArray \/ Unnamed(<<"asArray">>) \/ AsObject \/ Unnamed(<<"asObject">>) \/ Store \/ Get
    \/ \E min \in Limit : Minimum(min) \/ Maximum(min)
    \/ \E min, max \in Limit : InRange(min, max) \/ SizeInRange(min, max)

FieldSpec == FieldInit /\ [][FieldNext]_fieldVars

----------------------------------------------------------------------------
\* The member that the chain is about: its first call names it.
Asked == m_node[2][asked[1][2]]

\* What a call asks of the document, whatever was asked before.
Satisfied(call) ==
    CASE call[1] = "withName" -> call[2] \in DOMAIN m_node[2]
      [] call[1] = "ofType" -> tryToExtractValue(Asked, call[2])
      [] call[1] = "elementsOfType" ->
            \A n \in DOMAIN Asked[2] : tryToExtractValue(Asked[2][n], call[2])
      [] call[1] = "asArray" -> Asked[1] = "array"
      [] call[1] = "asObject" -> Asked[1] = "object"
      [] call[1] = "min" -> call[2] <= Asked[2]
      [] call[1] = "max" -> Asked[2] <= call[2]
      [] call[1] = "inRange" -> Asked[2] \in call[2] .. call[3]
      [] call[1] = "sizeInRange" -> SizeOf(Asked) \in call[2] .. call[3]

Extracting == {n \in DOMAIN asked : asked[n][1] \in {"ofType", "asArray", "asObject"}}
Naming == {n \in DOMAIN asked : asked[n][1] = "withName"}

\* The value that get() returns is the member of the name, and everything that
\* was asked of it holds; a chain that throws was asked for something that does
\* not hold, or in the wrong order: a second name, or none in front of the type.
\* It fails in no other way unless it is torn apart.
FieldChecked ==
    /\ outcome = "value" => m_value = Asked /\ \A n \in DOMAIN asked : Satisfied(asked[n])
    /\ outcome = "Error" => /\ \A n \in DOMAIN Front(asked) : Satisfied(asked[n])
                            /\ ~ Satisfied(Last(asked))
    /\ outcome = "JsonLogicError" <=> \/ \E m, n \in Naming : m # n
                                      \/ \E n \in Extracting : 1 \notin Naming
    /\ outcome = "undefined" => stored
=============================================================================
