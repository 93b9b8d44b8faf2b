----------------------------- MODULE MCModelgen -----------------------------
(***************************************************************************)
(* modelgen from its files to the code it generates, with kc::json, which  *)
(* that code uses: the operators of Json run inside of the generated code, *)
(* and JsonBuilder and JsonField call them in every order. The three do    *)
(* not share state, so that a behaviour shows one of them. One of the      *)
(* configurations has a single file: the example of the repository.        *)
(***************************************************************************)
EXTENDS GeneratedCode, JsonField, JsonBuilder

VARIABLE chosen

vars == <<chosen, parserVars, generatorVars, builderVars, fieldVars>>

Init ==
    /\ chosen \in {"modelgen", "JsonBuilder", "fieldFrom"}
    /\ ParserInit /\ GeneratorInit /\ BuilderInit /\ FieldInit
    /\ chosen # "modelgen" => unread = Free
    /\ chosen # "fieldFrom" => m_node = CHOOSE node \in Document : TRUE

Next ==
    \/ /\ chosen = "modelgen"
       /\ (ParserNext /\ UNCHANGED generatorVars) \/ GeneratorNext
       /\ UNCHANGED <<chosen, builderVars, fieldVars>>
    \/ /\ chosen = "JsonBuilder"
       /\ BuilderNext
       /\ UNCHANGED <<chosen, parserVars, generatorVars, fieldVars>>
    \/ /\ chosen = "fieldFrom"
       /\ FieldNext
       /\ UNCHANGED <<chosen, parserVars, generatorVars, builderVars>>

Spec == Init /\ [][Next]_vars

----------------------------------------------------------------------------
MCIdent ==
    {"model", "message", "enum", "int", "str", "bool", "numeric", "A", "B", "E", "a", "b", "c"}
      \cup {"ExampleEnum", "ValueA", "ValueB", "ValueC", "ValueD", "ValueE", "State", "idle", "connected",
             "working", "Account", "name", "passwd", "ExampleModel", "account", "fieldB"}

\* The words of examples/ExampleModel.kcm: fields are separated by commas. The
\* parser wants semicolons.
ExampleModel(separator) ==
    LET item(name) == <<name, separator>> IN
    <<<<"#model">>,
      <<"enum">>, <<"ExampleEnum">>, <<"{">>, item("ValueA"), item("ValueB"), item("ValueC"),
      item("ValueD"), item("ValueE"), <<"}">>,
      <<"enum">>, <<"State">>, <<"{">>, item("idle"), item("connected"), item("working"), <<"}">>,
      <<"model">>, <<"Account">>, <<"{">>,
      <<"name", ":">>, item("str"), <<"passwd", ":">>, item("str"), <<"}">>,
      <<"model">>, <<"ExampleModel">>, <<"{">>,
      <<"account", ":">>, item("Account"), <<"fieldB", ":">>, item("bool"), <<"}">>>>

MCExample == {ExampleModel(",")}

\* Words for the files that are not given: complete declarations, with and
\* without spaces, and words in the wrong places, misspelt and not allowed.
MCWord ==
    {<<"#model">>, <<"model">>, <<"enum">>, <<"A">>, <<"{">>, <<"}">>, <<"a">>, <<"a", ":">>,
     <<":">>, <<"int", ";">>, <<"a", ";">>, <<";">>, <<";", ";">>, <<"b", ",">>, <<"9">>}

\* The words of a declaration, with spaces in front of ':' and ';' or without.
Words(keyword_, name, members, apart) ==
    LET mark(s, c) == IF apart THEN <<s, <<c>>>> ELSE <<Append(s, c)>>
        field(m) == IF keyword_ = "enum" THEN mark(m[1], ";")
                    ELSE mark(m[1], ":") \o mark(m[2], ";")
    IN <<<<keyword_>>, name, <<"{">>>>
         \o FlattenSeq([n \in DOMAIN members |-> field(members[n])]) \o <<<<"}">>>>

Integer == <<"int">>
Str == <<"str">>
Float == <<"numeric">>
Bool == <<"bool">>
a == <<"a">>
b == <<"b">>
c == <<"c">>
A == <<"A">>
B == <<"B">>
E == <<"E">>
Vector(type) == <<"[">> \o type \o <<"]">>
Map(key, value) == <<"[">> \o key \o <<",">> \o value \o <<"]">>

\* Files in the grammar that the parser has: types of every kind, used in front of and behind
\* their declarations, not declared, incomplete, declared twice, inside of
\* themselves, and of several files; and the example, with semicolons.
MCGiven ==
    LET file(apart) ==
          LET model(name, members) == Words("model", name, members, apart)
              message(name, members) == Words("message", name, members, apart)
              enum(name, values) == Words("enum", name, values, apart)
              scalars == model(A, <<<<a, Integer>>, <<b, Str>>, <<c, Float>>>>)
          IN {scalars,
              enum(E, <<<<a>>, <<b>>>>) \o model(A, <<<<a, E>>>>),
              model(A, <<<<a, E>>>>) \o enum(E, <<<<a>>>>),
              scalars \o message(B, <<<<a, A>>, <<b, Vector(Str)>>, <<c, Vector(Integer)>>>>),
              message(B, <<<<a, Vector(A)>>, <<b, Bool>>>>) \o model(A, <<<<a, Integer>>>>),
              message(B, <<<<a, Vector(A)>>, <<b, A>>>>) \o model(A, <<<<a, Integer>>>>),
              model(A, <<<<a, Map(Str, Integer)>>, <<b, Map(Str, B)>>>>) \o model(B, <<>>),
              model(A, <<<<a, Bool>>>>) \o message(B, <<<<a, Integer>>, <<b, Vector(A)>>, <<c, A>>>>),
              message(A, <<<<a, Map(Str, Str)>>, <<b, Str>>>>),
              model(A, <<<<a, Integer>>>>) \o model(B, <<<<a, A>>, <<b, Map(Str, A)>>>>),
              model(A, <<<<a, Integer>>, <<b, B>>>>),
              model(A, <<<<a, Integer>>, <<b, Map(Integer, <<>>)>>>>),
              model(A, <<<<a, Vector(E)>>, <<b, Vector(Float)>>>>),
              enum(A, <<<<a>>>>) \o model(A, <<<<a, Integer>>>>),
              model(A, <<<<a, A>>>>) \o <<<<"#model">>>> \o enum(E, <<>>),
              model(A, <<<<a, B>>>>) \o <<<<"#model">>>> \o model(B, <<<<a, Vector(A)>>, <<b, Integer>>>>)}
    IN {<<<<"#model">>>> \o words : words \in UNION {file(apart) : apart \in BOOLEAN}}
          \cup {ExampleModel(";")}

\* Documents with one member, f, and with others beside it.
MCDocument ==
    LET num(n) == <<"num", n>>
        array(items) == <<"array", items>>
        object(members) == <<"object", members>>
        values == {num(-2), num(1), num(4), num(20), <<"bool", TRUE>>, <<"str", "s">>,
                   object(<<>>), object([f |-> num(2)]), array(<<num(1), <<"str", "s">>>>)}
                      \cup {array([n \in 1 .. size |-> num(n)]) : size \in {0, 2, 3, 4, 16}}
    IN {object([f |-> value]) : value \in values}
          \cup {object([f |-> num(4), g |-> num(1)]), object([f |-> num(4), g |-> array(<<>>)]),
                object([f |-> <<"str", "s">>, h |-> num(4)])}

\* Arguments of addField(): of each overload, and a literal that is no JSON.
MCValue ==
    {<<"num", 2>>, <<"str", "s">>, <<"bool", TRUE>>, <<"literal", None>>, <<"node", <<"object", <<>>>>>>}

=============================================================================
