------------------------------- MODULE Fields -------------------------------
(***************************************************************************)
(* The types that a field of a JSON document may be asked to have, and     *)
(* which nodes pass as which (Utils.hpp). Nodes are as in Json.            *)
(***************************************************************************)
EXTENDS Integers, Sequences

CONSTANT IntMax     \* the largest int (in halves)

dimension == [vec2 |-> 2, vec3 |-> 3, vec4 |-> 4, mat4 |-> 16]

Arithmetic == {"float", "int", "unsigned int", "bool"}
FieldType == Arithmetic \cup {"string"} \cup DOMAIN dimension

isNumeric(node) == node[1] = "num"
IsIntegral(node) == isNumeric(node) /\ node[2] % 2 = 0

\* tryToExtractValue() accepts the node as a T: integral numbers are doubles
\* too, and 2.0 is an int.
tryToExtractValue(node, T) ==
    CASE T = "float" -> isNumeric(node)
      [] T = "int" -> IsIntegral(node) /\ node[2] \in - IntMax - 2 .. IntMax
      [] T = "unsigned int" -> IsIntegral(node) /\ node[2] \in 0 .. 2 * IntMax + 2
      [] T = "string" -> node[1] = "str"
      [] T = "bool" -> node[1] = "bool"
      [] T \in DOMAIN dimension ->
            /\ node[1] = "array" /\ Len(node[2]) = dimension[T]
            /\ \A n \in DOMAIN node[2] : isNumeric(node[2][n])
=============================================================================
