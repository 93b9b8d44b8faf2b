----------------------------- MODULE Generator -----------------------------
(***************************************************************************)
(* modelgen's Generator: what the Parser has collected becomes the files   *)
(* that main() writes, a header with a C++ type for every enum and model.  *)
(*                                                                         *)
(* A file is described by what its code does, not by its text: the headers *)
(* it includes, the types of its fields, and the statements of fromJson()  *)
(* and toJson(), one for each field.                                       *)
(***************************************************************************)
EXTENDS Parser, Strings

VARIABLES
    m_customTypes,  \* from the names of enums and models to what they are
    files,          \* the files that generateCode() has generated
    written         \* from names to the files that main() has written

generatorVars == <<m_customTypes, files, written>>

GeneratorInit == m_customTypes = <<>> /\ files = <<>> /\ written = <<>>

\* Model::allowedTypes: int, bool, std::string and float.
allowedTypes == {<<"int">>, <<"bool">>, <<"str">>, <<"numeric">>}

IsBracketed(type) == type[1] = "["
IsMap(type) == IsBracketed(type) /\ Contains(type, ",")

\* The description without its first and last character, and its parts.
Inner(type) == SubSeq(type, 2, Len(type) - 1)
Types(type) == split(Inner(type), ",")

\* deduceType(), for the elements of vectors and maps.
deduceType(type) ==
    CASE type \in allowedTypes -> <<"builtin", type>>
      [] type \in DOMAIN m_customTypes -> <<"class", type>>
      [] OTHER -> <<"Unknown">>

\* determineFieldType() throws, or reads a second type that is not there.
IsUnknown(type) ==
    ~ (type \in allowedTypes \/ type \in DOMAIN m_customTypes \/ IsBracketed(type))
IsIncomplete(type) == IsMap(type) /\ Len(Types(type)) < 2

determineFieldType(type) ==
    CASE type \in allowedTypes -> <<"builtin", type>>
      [] IsMap(type) -> <<"map", deduceType(Types(type)[1]), deduceType(Types(type)[2])>>
      [] IsBracketed(type) /\ ~ IsMap(type) -> <<"vector", deduceType(Inner(type))>>
      [] OTHER -> <<"class", type>>

\* The headers it asks for: the one of a model, none for an enum, and none for
\* the elements of a vector or a map.
IsModel(type) == type \in DOMAIN m_customTypes /\ m_customTypes[type] = "model"

HeadersOf(type) ==
    IF type \in allowedTypes THEN {}
    ELSE {header \in {type} : IsModel(type)}
           \cup {header \in {<<"unordered_map">>} : IsMap(type)}
           \cup {header \in {<<"vector">>} : IsBracketed(type) /\ ~ IsMap(type)}

\* generateGetter(), for the elements of vectors and maps.
ElementGetter(type) ==
    CASE type = <<"str">> -> <<"asString">>
      [] type = <<"int">> -> <<"asInt">>
      [] type \in allowedTypes \ {<<"str">>, <<"int">>} -> <<"Unknown">>
      [] OTHER -> <<"fromJson", type>>

\* Mutant: the elements of a vector are taken for the vector.
generateModelFromJsonFlat(field) ==
    CASE IsMap(field.type) -> <<"getMemberNames", ElementGetter(Types(field.type)[2])>>
      [] IsBracketed(field.type) /\ ~ IsMap(field.type) -> <<"asObject", Inner(field.type)>>
      [] field.type \in allowedTypes -> <<"ofType", field.type>>
      [] OTHER -> <<"asObject", field.type>>

\* generateModelFromJson(): the statement for a field. A map takes the members
\* of the whole document.
generateModelFromJson(field) ==
    CASE IsMap(field.type) -> <<"getMemberNames", ElementGetter(Types(field.type)[2])>>
      [] IsBracketed(field.type) /\ ~ IsMap(field.type) ->
            <<"asArray", ElementGetter(Inner(field.type))>>
      [] field.type \in allowedTypes -> <<"ofType", field.type>>
      [] OTHER -> <<"asObject", field.type>>

\* generateModelToJson(): the statement for a field, and whether its value, or
\* those of its elements, are asked for their toJson().
generateModelToJson(field) ==
    CASE IsMap(field.type) -> <<"object", Types(field.type)[2] \notin allowedTypes>>
      [] IsBracketed(field.type) /\ ~ IsMap(field.type) ->
            <<"array", Inner(field.type) \notin allowedTypes>>
      [] OTHER -> <<"field", field.type \notin allowedTypes>>

\* generateModel(): the constructor has the parameters of the fields' types.
generateModel(model) ==
    LET each(op(_)) == [n \in DOMAIN model.members |-> op(model.members[n])] IN
    [path |-> model.name, kind |-> model.kind,
     headers |-> UNION {HeadersOf(model.members[n].type) : n \in DOMAIN model.members},
     names |-> each(LAMBDA field : field.name),
     types |-> each(LAMBDA field : determineFieldType(field.type)),
     fromJson |-> each(generateModelFromJson),
     toJson |-> each(generateModelToJson),
     toMessageJson |-> model.kind = "message"]

\* generateEnum() and generateEnumToString(): the values and their names.
generateEnum(enum) == [path |-> enum.name, kind |-> "enum", headers |-> {}, names |-> enum.members]

----------------------------------------------------------------------------
Enums == m_structures.enums
Models == m_structures.models
NextModel == Models[Len(files) - Len(Enums) + 1]

\* m_customTypes after an assignment to these names.
Registered(names, type) ==
    [name \in names \cup DOMAIN m_customTypes |->
        IF name \in names THEN type ELSE m_customTypes[name]]

\* Mutant: the enum is not registered.
GenerateEnumOnly ==
    /\ at = "parsed" /\ Len(files) < Len(Enums)
    /\ files' = Append(files, generateEnum(Enums[Len(files) + 1]))
    /\ UNCHANGED <<m_customTypes, written, parserVars>>

\* generateCode(): the enums are generated and registered one by one, ...
GenerateEnum ==
    /\ at = "parsed" /\ Len(files) < Len(Enums)
    /\ files' = Append(files, generateEnum(Enums[Len(files) + 1]))
    /\ m_customTypes' = Registered({Enums[Len(files) + 1].name}, "enumerate")
    /\ UNCHANGED <<written, parserVars>>

\* ... the models are all registered first ...
RegisterModels ==
    /\ at = "parsed" /\ Len(files) = Len(Enums)
    /\ m_customTypes' = Registered({Models[n].name : n \in DOMAIN Models}, "model")
    /\ at' = "generateCode"
    /\ UNCHANGED <<files, written, otherVars>>

\* The fields of the next model whose types are a problem; the first one counts.
Problems == {n \in DOMAIN NextModel.members : LET type == NextModel.members[n].type
                                              IN IsUnknown(type) \/ IsIncomplete(type)}

\* ... and generated then ...
GenerateModel ==
    /\ at = "generateCode" /\ Len(files) < Len(Enums) + Len(Models)
    /\ Problems = {}
    /\ files' = Append(files, generateModel(NextModel))
    /\ UNCHANGED <<m_customTypes, written, parserVars>>

\* ... unless a type is unknown: main() catches the ModelGeneratorError.
GenerateModelFails ==
    /\ at = "generateCode" /\ Len(files) < Len(Enums) + Len(Models)
    /\ Problems # {}
    /\ at' = IF IsUnknown(NextModel.members[Min(Problems)].type)
             THEN "ModelGeneratorError" ELSE "undefined"
    /\ UNCHANGED <<generatorVars, otherVars>>

\* main() writes the files; a later one takes the place of an earlier one of
\* the same name.
WriteFiles ==
    /\ at = "generateCode" /\ Len(files) = Len(Enums) + Len(Models)
    /\ written' = [name \in {files[n].path : n \in DOMAIN files} |->
                      files[Max({n \in DOMAIN files : files[n].path = name})]]
    /\ at' = "written"
    /\ UNCHANGED <<m_customTypes, files, otherVars>>

GeneratorNext ==
    \/ GenerateEnum \/ RegisterModels \/ GenerateModel \/ GenerateModelFails \/ WriteFiles

ModelgenSpec ==
    /\ ParserInit /\ GeneratorInit
    /\ [][(ParserNext /\ UNCHANGED generatorVars) \/ GeneratorNext]_<<parserVars, generatorVars>>

----------------------------------------------------------------------------
ModelNames == {Models[n].name : n \in DOMAIN Models}
Declared == {Enums[n].name : n \in DOMAIN Enums} \cup ModelNames
Fields == UNION {ToSet(Models[n].members) : n \in DOMAIN Models}
Undeclared == {f \in Fields : f.type \notin allowedTypes \cup Declared /\ ~ IsBracketed(f.type)}

\* Where an enum or a model is declared does not matter: in front of its use,
\* behind it, in another file or inside of itself. modelgen fails if a field has
\* a type that is not declared anywhere, and otherwise writes a file for every
\* name: that of the last model so named includes the models of its fields, and
\* whatever is included has been written.
GeneratesDeclared ==
    /\ at = "ModelGeneratorError" => Undeclared # {}
    /\ at = "written" =>
        /\ Undeclared = {}
        /\ DOMAIN written = Declared
        /\ \A name \in Declared :
              written[name].headers \subseteq Declared \cup {<<"vector">>, <<"unordered_map">>}
        /\ \A n \in DOMAIN Models : \A f \in ToSet(Models[n].members) :
              (/\ \A k \in DOMAIN Models : Models[k].name = Models[n].name => k <= n
               /\ f.type \in ModelNames \ allowedTypes)
                  => f.type \in written[Models[n].name].headers
=============================================================================
