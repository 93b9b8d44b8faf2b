----------------------------- MODULE Tokenizer -----------------------------
(***************************************************************************)
(* modelgen's Tokenizer: the words of the model files become tokens.       *)
(*                                                                         *)
(* A word is what core::split() leaves between spaces and line ends, as a  *)
(* sequence of atoms: an identifier, or one character. "[int];" is         *)
(* <<"[", "int", "]", ";">>. Only the atoms of Ident consist of letters    *)
(* (and '_'), "#model" is the header, any other atom is a character that   *)
(* validateString() knows or does not know.                                *)
(***************************************************************************)
EXTENDS Naturals, Sequences, SequencesExt, FiniteSetsExt

CONSTANT Ident      \* the identifiers, keywords and type names in use

symbolType ==
    [c \in {"{", "}", "#model", ":", ";"} |->
        CASE c = "{" -> "openingBrace" [] c = "}" -> "closingBrace"
          [] c = "#model" -> "header" [] c = ":" -> "colon" [] OTHER -> "semicolon"]

isSymbol(raw) == Len(raw) = 1 /\ raw[1] \in DOMAIN symbolType

\* Mutant: the comma, which only the types of maps have, is forgotten.
isCharacterAllowedNoComma(atom) == atom \in Ident \cup {":", ";", "[", "]"}

\* validateString(): '{', '}', '#', 'Y' and digits are not in the list.
isCharacterAllowed(atom) == atom \in Ident \cup {":", ";", ",", "[", "]"}

\* parseToken() throws a SyntaxError.
IsInvalid(raw) == ~ isSymbol(raw) /\ \E n \in DOMAIN raw : ~ isCharacterAllowed(raw[n])

\* parseToken(): the semicolon has an empty value.
parseToken(raw) ==
    IF isSymbol(raw)
    THEN [type |-> symbolType[raw[1]], value |-> IF raw = <<";">> THEN <<>> ELSE raw]
    ELSE [type |-> "string", value |-> raw]

\* tokenize(), for one word: one ':' or ';' at the end of a longer value is a
\* token of its own. (For the word ";" the code reads the character in front of
\* an empty string: out of bounds, in libstdc++ the zero in the last byte of the
\* string's length, so that nothing is taken off.)
tokenize(raw) ==
    LET first == parseToken(raw)
        last == Last(raw)
    IN IF Len(first.value) > 1 /\ last \in {":", ";"}
       THEN <<[first EXCEPT !.value = Front(raw)], parseToken(<<last>>)>>
       ELSE <<first>>
=============================================================================
