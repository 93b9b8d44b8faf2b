--------------------------- MODULE GeneratedCode ---------------------------
(***************************************************************************)
(* What the code does that modelgen has generated: toJson() and fromJson() *)
(* of the models, which use kc::json's JsonBuilder and fieldFrom().        *)
(*                                                                         *)
(* The value of a field is a document for the built-in types, <<"class",   *)
(* values>> for a model, the values in the order of its fields, <<"vector",*)
(* values>>, and <<"map", function from keys to values>>.                  *)
(***************************************************************************)
EXTENDS Generator, Json

Class(name) == written[name]

----------------------------------------------------------------------------
\* toJson(): a builder, a statement for every field, asJsonObject(). (The order
\* of a map does not matter: its keys are different.)
RECURSIVE toJson(_, _)

\* A value, or what its own toJson() returns.
Item(value, type) ==
    IF value[1] = "class" THEN <<"node", toJson(type[2], value)>> ELSE value

toJson(name, object) ==
    LET class == Class(name)
        put(b, n) ==
            LET field == class.names[n]
                type == class.types[n]
                value == object[2][n]
            IN CASE class.toJson[n][1] = "array" ->
                      endArray(FoldLeft(LAMBDA a, item : addField(a, Item(item, type[2])),
                                        beginArrayNamed(b, field), value[2]))
                 [] class.toJson[n][1] = "object" ->
                      endObject(FoldLeft(LAMBDA a, key : addFieldNamed(a, key, Item(value[2][key], type[3])),
                                         beginObjectNamed(b, field), SetToSeq(DOMAIN value[2])))
                 [] OTHER -> addFieldNamed(b, field, Item(value, type))
    IN asJsonObject(FoldLeft(put, NewBuilder, [n \in DOMAIN class.names |-> n])).doc

\* toMessageJson(): the name and the body of a message.
toMessageJson(name, object) ==
    asJsonObject(addFieldNamed(addFieldNamed(NewBuilder, <<"name">>, <<"str", name>>),
                               <<"body">>, <<"node", toJson(name, object)>>)).doc

----------------------------------------------------------------------------
\* An exception, from kc::json or from jsoncpp.
Thrown == <<"thrown">>

CppName(type) ==
    CASE type = <<"int">> -> "int" [] type = <<"str">> -> "string"
      [] type = <<"bool">> -> "bool" [] OTHER -> "float"

\* fromJson(): a statement for every field.
RECURSIVE fromJson(_, _)

\* node.asInt(), node.asString() or fromJson(node). (The first two convert some
\* nodes of other types, which toJson() does not write for the elements of a
\* vector. For a map there are such nodes, but also the map's own, an object.)
Element(getter, node) ==
    CASE getter = <<"asInt">> -> IF tryToExtractValue(node, "int") THEN node ELSE Thrown
      [] getter = <<"asString">> -> IF tryToExtractValue(node, "string") THEN node ELSE Thrown
      [] getter[1] = "fromJson" -> fromJson(getter[2], node)

\* All of them, by their places or names, unless one is missing.
All(kind, values) ==
    IF \E n \in DOMAIN values : values[n] = Thrown THEN Thrown ELSE <<kind, values>>

fromJson(name, doc) ==
    LET class == Class(name)
        read(n) ==
            LET how == class.fromJson[n]
                field == class.names[n]
                missing == doc[1] # "object" \/ field \notin DOMAIN doc[2]
                node == doc[2][field]
            IN CASE how[1] = "getMemberNames" ->
                      IF doc[1] # "object" THEN Thrown
                      ELSE All("map", [member \in DOMAIN doc[2] |-> Element(how[2], doc[2][member])])
                 [] how[1] # "getMemberNames" /\ missing -> Thrown
                 [] how[1] = "ofType" /\ ~ missing ->
                      IF tryToExtractValue(node, CppName(how[2])) THEN node ELSE Thrown
                 [] how[1] = "asObject" /\ ~ missing ->
                      IF node[1] = "object" THEN fromJson(how[2], node) ELSE Thrown
                 [] how[1] = "asArray" /\ ~ missing ->
                      IF node[1] # "array" THEN Thrown
                      ELSE All("vector", [k \in DOMAIN node[2] |-> Element(how[2], node[2][k])])
    IN All("class", [n \in DOMAIN class.names |-> read(n)])

----------------------------------------------------------------------------
\* The header of a model brings the models of its fields with it.
RECURSIVE Visible(_, _), Compiles(_, _), Values(_)

Visible(name, seen) ==
    LET included == (Class(name).headers \cap DOMAIN written) \ seen
    IN included \cup UNION {Visible(other, seen \cup included) : other \in included}

CppKeyword == {<<"int">>, <<"bool">>, <<"enum">>}
IsName(name) == Len(name) = 1 /\ name[1] \in Ident /\ name \notin CppKeyword

\* A compiler takes the class: the names are names of C++ and are different; the
\* types of elements are int, str or a model that the header brings with it, since
\* generateGetter() knows no other; keys are strings; there is no field of an enum,
\* which has no fromJson(); and a model does not need itself.
Compiles(name, around) ==
    LET class == Class(name)
        isElement(type) ==
            \/ type \in {<<"builtin", <<"int">>>>, <<"builtin", <<"str">>>>}
            \/ /\ type[1] = "class" /\ type[2] \in Visible(name, {name})
               /\ Compiles(type[2], around \cup {name})
    IN /\ name \notin around /\ IsName(name)
       /\ class.kind # "enum"
       /\ IsInjective(class.names)
       /\ \A n \in DOMAIN class.names :
             LET type == class.types[n] IN
             /\ IsName(class.names[n]) /\ class.names[n] \notin DOMAIN written
             /\ CASE type[1] = "builtin" -> TRUE
                  [] type[1] = "class" -> type[2] \in class.headers /\ Compiles(type[2], around \cup {name})
                  [] type[1] = "vector" -> isElement(type[2])
                  [] type[1] = "map" -> type[2] = <<"builtin", <<"str">>>> /\ isElement(type[3])

\* Some values of a type. (The keys of maps are not the names of fields.)
Values(type) ==
    CASE type = <<"builtin", <<"int">>>> -> {<<"num", 0>>, <<"num", -2>>}
      [] type = <<"builtin", <<"str">>>> -> {<<"str", "s">>}
      [] type = <<"builtin", <<"bool">>>> -> {<<"bool", TRUE>>, <<"bool", FALSE>>}
      [] type = <<"builtin", <<"numeric">>>> -> {<<"num", 1>>, <<"num", 2>>}
      [] type[1] = "vector" -> {<<"vector", items>> : items \in BoundedSeq(Values(type[2]), 2)}
      [] type[1] = "map" -> {<<"map", <<>>>>} \cup {<<"map", <<"k">> :> value>> : value \in Values(type[3])}
      [] type[1] = "class" ->
            LET types == Class(type[2]).types
                all == UNION {Values(types[n]) : n \in DOMAIN types}
            IN {<<"class", values>> : values \in
                    {v \in [DOMAIN types -> all] : \A n \in DOMAIN types : v[n] \in Values(types[n])}}

\* A value of one of these kinds is somewhere in a value.
RECURSIVE Holds(_, _)
Holds(value, kinds) ==
    \/ value[1] \in kinds
    \/ value[1] \in {"class", "vector"} /\ \E n \in DOMAIN value[2] : Holds(value[2][n], kinds)

\* An object of any generated class that compiles comes back as it was from the
\* text that its toJson() builds, models and vectors inside of it included, if
\* and only if it holds neither a bool, which JsonBuilder writes as a number, nor
\* a map, which fromJson() takes from all members of the document; and a message
\* carries its name and its body. (So no object of the repository's own example
\* does, examples/ExampleModel.kcm: it has a bool.)
RoundTrip ==
    at = "written" =>
        \A name \in {n \in DOMAIN written : Compiles(n, {})} :
            \A object \in Values(<<"class", name>>) :
                LET message == toMessageJson(name, object)[2]
                    kept == ~ Holds(object, {"bool", "map"})
                IN /\ (fromJson(name, toJson(name, object)) = object) = kept
                   /\ Class(name).toMessageJson =>
                         /\ message[<<"name">>] = <<"str", name>>
                         /\ (fromJson(name, message[<<"body">>]) = object) = kept
=============================================================================
