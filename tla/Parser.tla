------------------------------- MODULE Parser -------------------------------
(***************************************************************************)
(* modelgen's front end: main() concatenates the model files, the          *)
(* Tokenizer splits their words into tokens and the Parser, a recursive    *)
(* descent with one token of lookahead, collects the models and enums.     *)
(*                                                                         *)
(* The files are either given or written while they are read: each word is *)
(* chosen when the parser first looks at it. The Tokenizer has finished by *)
(* then in the program, but it knows nothing of the parser, and errors of  *)
(* both end in the same catch.                                             *)
(***************************************************************************)
EXTENDS Tokenizer

CONSTANTS
    Word,           \* the words a file may contain
    Given,          \* files as they should be, each a sequence of words
    MaxWords        \* bound: the words of a file that is not given

ASSUME WordAssumption == Word \subseteq Seq(STRING) /\ Given \subseteq Seq(Seq(STRING))

VARIABLES
    source,         \* the words read so far
    unread,         \* the rest of a given file; Free if it is not given
    m_tokens,       \* their tokens
    ended,          \* source is all there is
    m_currentIndex,
    at,             \* where the parser is: the function and the token it wants
    current,        \* the Model or Enum under construction
    fieldName,          \* the Field under construction: its name
    m_structures    \* [enums, models]

inputVars == <<source, unread, m_tokens, ended>>
otherVars == <<inputVars, m_currentIndex, current, fieldName, m_structures>>
parserVars == <<at, otherVars>>

Free == << <<"free">> >>     \* not the words of a file
Nothing == [kind |-> "none", name |-> <<>>, members |-> <<>>]

ParserInit ==
    /\ source = <<>> /\ unread \in Given \cup {Free}
    /\ m_tokens = <<>> /\ ended = FALSE
    /\ m_currentIndex = 0 /\ at = "parseTokens"
    /\ current = Nothing /\ fieldName = <<>>
    /\ m_structures = [enums |-> <<>>, models |-> <<>>]

\* The parser is about to look at a token that nobody has read.
Starved ==
    /\ at \notin {"parsed", "SyntaxError", "undefined"}
    /\ m_currentIndex = Len(m_tokens) /\ ~ ended

Read(word) ==
    /\ source' = Append(source, word)
    /\ m_tokens' = m_tokens \o tokenize(word)
    /\ at' = IF IsInvalid(word) THEN "SyntaxError" ELSE at
    /\ UNCHANGED <<ended, m_currentIndex, current, fieldName, m_structures>>

ReadGiven ==
    /\ Starved /\ unread \notin {Free, <<>>}
    /\ unread' = Tail(unread) /\ Read(Head(unread))

ReadFree ==
    /\ Starved /\ unread = Free
    /\ Len(source) < MaxWords
    /\ \E word \in Word : Read(word)
    /\ UNCHANGED unread

EndOfFile ==
    /\ Starved /\ unread \in {Free, <<>>}
    /\ ended' = TRUE
    /\ UNCHANGED <<source, unread, m_tokens, m_currentIndex, at, current, fieldName, m_structures>>

----------------------------------------------------------------------------
Ready == m_currentIndex < Len(m_tokens)

AtEnd == ended /\ m_currentIndex = Len(m_tokens)

nextToken == m_tokens[m_currentIndex + 1]

\* getNextToken() in the place here, of a token of this type; what follows wants next.
getNextToken(here, type, next) ==
    /\ at = here /\ Ready
    /\ nextToken.type = type
    /\ m_currentIndex' = m_currentIndex + 1 /\ at' = next
    /\ UNCHANGED inputVars

\* parseTokens(): the file starts with a header. Nothing looks whether there is
\* a token at all.
ParseTokens ==
    /\ getNextToken("parseTokens", "header", "processTokens")
    /\ UNCHANGED <<current, fieldName, m_structures>>

ParseNothing ==
    /\ at = "parseTokens" /\ AtEnd
    /\ at' = "undefined"
    /\ UNCHANGED otherVars

\* processTokens(): a header is skipped, further files begin with it ...
ProcessHeader ==
    /\ getNextToken("processTokens", "header", "processTokens")
    /\ UNCHANGED <<current, fieldName, m_structures>>

keyword == {"model", "message", "enum"}

IsKeyword(token) == token.type = "string" /\ Len(token.value) = 1 /\ token.value[1] \in keyword

\* ... a keyword leads to processModel() or processEnum() ...
ProcessDeclaration ==
    /\ getNextToken("processTokens", "string", "name")
    /\ IsKeyword(nextToken)
    /\ current' = [Nothing EXCEPT !.kind = nextToken.value[1]]
    /\ UNCHANGED <<fieldName, m_structures>>

\* ... and the end of the file ends it.
ProcessEnd ==
    /\ at = "processTokens" /\ AtEnd
    /\ at' = "parsed"
    /\ UNCHANGED otherVars

\* The name of a model or an enum, and its opening brace.
ProcessName ==
    /\ getNextToken("name", "string", "openingBrace")
    /\ current' = [current EXCEPT !.name = nextToken.value]
    /\ UNCHANGED <<fieldName, m_structures>>

ProcessOpeningBrace ==
    /\ getNextToken("openingBrace", "openingBrace", "members")
    /\ UNCHANGED <<current, fieldName, m_structures>>

----------------------------------------------------------------------------
\* processModelField(): name, colon, type and semicolon.
ProcessModelField ==
    /\ current.kind # "enum"
    /\ getNextToken("members", "string", "colon")
    /\ fieldName' = nextToken.value
    /\ UNCHANGED <<current, m_structures>>

ProcessColon ==
    /\ getNextToken("colon", "colon", "type")
    /\ UNCHANGED <<current, fieldName, m_structures>>

ProcessType ==
    /\ getNextToken("type", "string", "semicolon")
    /\ current' = [current EXCEPT !.members =
                      Append(@, [name |-> fieldName, type |-> nextToken.value])]
    /\ fieldName' = <<>>
    /\ UNCHANGED m_structures

\* processEnumField(): a value and a semicolon.
ProcessEnumField ==
    /\ current.kind = "enum"
    /\ getNextToken("members", "string", "semicolon")
    /\ current' = [current EXCEPT !.members = Append(@, nextToken.value)]
    /\ UNCHANGED <<fieldName, m_structures>>

\* Mutant: the semicolon behind the last member may be missing.
ProcessSemicolonOptional ==
    /\ at = "semicolon" /\ Ready
    /\ nextToken.type \in {"semicolon", "closingBrace"}
    /\ m_currentIndex' = m_currentIndex + (IF nextToken.type = "semicolon" THEN 1 ELSE 0)
    /\ at' = "members"
    /\ UNCHANGED <<inputVars, current, fieldName, m_structures>>

ProcessSemicolon ==
    /\ getNextToken("semicolon", "semicolon", "members")
    /\ UNCHANGED <<current, fieldName, m_structures>>

\* The closing brace: the model or enum is complete.
ProcessClosingBrace ==
    /\ getNextToken("members", "closingBrace", "processTokens")
    /\ m_structures' = IF current.kind = "enum"
                       THEN [m_structures EXCEPT !.enums = Append(@, current)]
                       ELSE [m_structures EXCEPT !.models = Append(@, current)]
    /\ current' = Nothing
    /\ UNCHANGED fieldName

\* The types of the tokens that are accepted in each place.
Wanted ==
    [parseTokens |-> {"header"}, processTokens |-> {"header", "string"}, name |-> {"string"},
     openingBrace |-> {"openingBrace"}, members |-> {"string", "closingBrace"},
     colon |-> {"colon"}, type |-> {"string"}, semicolon |-> {"semicolon"}]

\* fail(): an unexpected token, or the end of the file inside a declaration.
Fail ==
    /\ \/ /\ at \in DOMAIN Wanted /\ Ready
          /\ \/ nextToken.type \notin Wanted[at]
             \/ at = "processTokens" /\ nextToken.type = "string" /\ ~ IsKeyword(nextToken)
       \/ at \in DOMAIN Wanted \ {"parseTokens", "processTokens"} /\ AtEnd
    /\ at' = "SyntaxError"
    /\ UNCHANGED otherVars

ParserNext ==
    \/ ReadGiven \/ ReadFree \/ EndOfFile
    \/ ParseTokens \/ ParseNothing \/ ProcessHeader \/ ProcessDeclaration \/ ProcessEnd
    \/ ProcessName \/ ProcessOpeningBrace \/ ProcessModelField \/ ProcessColon \/ ProcessType
    \/ ProcessEnumField \/ ProcessSemicolon \/ ProcessClosingBrace \/ Fail

----------------------------------------------------------------------------
\* The words of a model or an enum, as atoms.
Declaration(structure) ==
    LET member(m) == IF structure.kind = "enum" THEN Append(m, ";")
                     ELSE m.name \o <<":">> \o m.type \o <<";">>
        members == [n \in DOMAIN structure.members |-> member(structure.members[n])]
    IN <<structure.kind>> \o structure.name \o <<"{">> \o FlattenSeq(members) \o <<"}">>

\* All orders in which the models and the enums may have stood in the files.
Orders ==
    LET models == m_structures.models
        enums == m_structures.enums
        place == 1 .. Len(models) + Len(enums)
        before(S, n) == Cardinality({k \in S : k <= n})
    IN {[n \in place |-> IF n \in S THEN models[before(S, n)] ELSE enums[before(place \ S, n)]] :
           S \in {T \in SUBSET place : Cardinality(T) = Len(models)}}

\* What the parser accepts is what was written: printed in some order, the
\* models and enums are the files, apart from their headers and from where there
\* are spaces; no member is lost, doubled or taken for one of another model.
ParsedIsSource ==
    at = "parsed" =>
        \E order \in Orders :
            FlattenSeq([n \in DOMAIN order |-> Declaration(order[n])])
                = FlattenSeq([n \in DOMAIN source |->
                                 IF source[n] = <<"#model">> THEN <<>> ELSE source[n]])

\* Files that are given are accepted, wherever they have spaces: no token of them
\* is invalid or unexpected. (They are files in the grammar that processModel()
\* and processEnum() have, or the example of the repository, which is not one.)
GivenAccepted == unread # Free => at # "SyntaxError"
=============================================================================
