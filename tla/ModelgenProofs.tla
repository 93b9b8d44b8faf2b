--------------------------- MODULE ModelgenProofs ---------------------------
(***************************************************************************)
(* Theorems about fieldFrom(), for any documents, names and limits and any *)
(* number of calls; about modelgen, its parser and its generator, for any  *)
(* files; about the functions on strings, for strings of any length; and   *)
(* about JsonBuilder, for any calls in any order.                          *)
(***************************************************************************)
EXTENDS JsonField, JsonBuilder, Generator, Algorithms, FiniteSetTheorems,
        SequenceTheorems, WellFoundedInduction, TLAPS

(***************************************************************************)
(* fieldFrom(). As long as nothing was thrown all calls so far are         *)
(* satisfied, and the first of them gave the name; what was thrown is      *)
(* about the last one.                                                     *)
(***************************************************************************)
CallSet ==
    {<<"withName", name>> : name \in FieldName}
        \cup {<<call, T>> : call \in {"ofType", "elementsOfType"}, T \in FieldType}
        \cup {<<"asArray">>, <<"asObject">>}
        \cup {<<call, limit>> : call \in {"min", "max"}, limit \in Limit}
        \cup {<<call, min, max>> : call \in {"inRange", "sizeInRange"}, min, max \in Limit}

ExtractCall == {"ofType", "asArray", "asObject"}

FieldOK ==
    /\ m_node \in Document
    /\ m_name \in {<<>>} \cup {<<name>> : name \in FieldName}
    /\ asked \in Seq(CallSet)
    /\ stored \in BOOLEAN
    /\ outcome \in {"none", "value", "Error", "JsonLogicError", "undefined"}
    /\ valueType \in {"none", "array", "object"} \cup FieldType

\* The first call gives the name, and only the first.
Named ==
    IF m_name = <<>>
    THEN (outcome = "none" /\ asked = <<>>) \/ outcome = "JsonLogicError"
    ELSE /\ asked # <<>> /\ asked[1] = <<"withName", m_name[1]>>
         /\ outcome = "none" => m_name[1] \in DOMAIN m_node[2]
         /\ outcome # "JsonLogicError" => \A n \in Naming : n = 1

Extracted ==
    valueType # "none" =>
        /\ m_name # <<>> /\ m_name[1] \in DOMAIN m_node[2]
        /\ m_value = m_node[2][m_name[1]]
        /\ valueType \in FieldType => tryToExtractValue(m_value, valueType)
        /\ valueType \in {"array", "object"} => m_value[1] = valueType

FieldInv == FieldOK /\ Named /\ Extracted /\ FieldChecked
            /\ (outcome = "none" => \A n \in DOMAIN asked : Satisfied(asked[n]))

----------------------------------------------------------------------------
\* A number or a string has the value that its type says.
LEMMA NodeTypes ==
    ASSUME NEW node, NEW T \in FieldType, tryToExtractValue(node, T)
    PROVE  /\ T \in Arithmetic \ {"bool"} => node[1] = "num"
           /\ T = "string" => node[1] = "str"
BY DEF tryToExtractValue, FieldType, Arithmetic, dimension, IsIntegral, isNumeric

\* A call becomes the last one.
LEMMA Asking ==
    ASSUME FieldOK, NEW call \in CallSet, asked' = Append(asked, call)
    PROVE  /\ asked' \in Seq(CallSet) /\ Len(asked) \in Nat
           /\ DOMAIN asked = 1 .. Len(asked) /\ DOMAIN asked' = 1 .. Len(asked) + 1
           /\ \A n \in DOMAIN asked : asked'[n] = asked[n]
           /\ asked'[Len(asked) + 1] = call
           /\ Front(asked') = asked /\ Last(asked') = call
<1>1. asked \in Seq(CallSet) /\ Len(asked) \in Nat /\ DOMAIN asked = 1 .. Len(asked)
  BY DEF FieldOK
<1>2. /\ asked' \in Seq(CallSet) /\ Len(asked') = Len(asked) + 1
      /\ \A n \in DOMAIN asked : asked'[n] = asked[n]
      /\ asked'[Len(asked) + 1] = call
  BY <1>1
<1>3. DOMAIN asked' = 1 .. Len(asked) + 1
  BY <1>1, <1>2
<1>4. Front(asked') = asked
  <2>1. Front(asked') = SubSeq(asked', 1, Len(asked))
    BY <1>1, <1>2 DEF Front
  <2> QED BY <1>1, <1>2, <2>1
<1> QED BY <1>1, <1>2, <1>3, <1>4 DEF Last

\* What a call asks does not change once the name is given.
LEMMA SatisfiedKept ==
    ASSUME UNCHANGED m_node, asked'[1] = asked[1]
    PROVE  /\ Asked' = Asked
           /\ \A n : Satisfied(asked[n])' <=> Satisfied(asked'[n])
           /\ Satisfied(Last(asked))' <=> Satisfied(Last(asked'))
<1>1. Asked' = Asked
  BY DEF Asked
<1> QED BY <1>1 DEF Satisfied

\* What a call throws is about the call.
Answered(call) ==
    /\ outcome' \in {"none", "Error", "undefined"}
    /\ outcome' = "none" => Satisfied(call)
    /\ outcome' = "Error" => ~ Satisfied(call)
    /\ outcome' = "undefined" => stored

\* A call behind the name.
LEMMA CallInv ==
    ASSUME FieldInv, m_name # <<>>, outcome = "none",
           NEW call \in CallSet, call[1] # "withName", asked' = Append(asked, call),
           UNCHANGED <<m_node, m_name, stored>>, FieldOK', Extracted',
           Answered(call)
    PROVE  FieldInv'
<1> USE DEF Answered
<1>1. /\ asked # <<>> /\ asked[1] = <<"withName", m_name[1]>> /\ m_name[1] \in DOMAIN m_node[2]
      /\ \A n \in Naming : n = 1
      /\ \A n \in DOMAIN asked : Satisfied(asked[n])
  BY DEF FieldInv, Named
<1>2. 1 \in DOMAIN asked /\ Len(asked) \in Nat \ {0}
  BY <1>1 DEF FieldInv, FieldOK
<1>3. /\ DOMAIN asked = 1 .. Len(asked) /\ DOMAIN asked' = 1 .. Len(asked) + 1
      /\ \A n \in DOMAIN asked : asked'[n] = asked[n]
      /\ asked'[Len(asked) + 1] = call /\ asked' # <<>>
      /\ Front(asked') = asked /\ Last(asked') = call
  BY Asking DEF FieldInv
<1>4. /\ \A n : Satisfied(asked[n])' <=> Satisfied(asked'[n])
      /\ Satisfied(Last(asked))' <=> Satisfied(Last(asked'))
  BY <1>2, <1>3, SatisfiedKept
<1>5. \A n \in Naming' : n = 1
  <2>1. ASSUME NEW n \in Naming' PROVE n \in Naming
    BY <1>3, <2>1 DEF Naming
  <2> QED BY <1>1, <2>1
<1>6. 1 \in Naming'
  BY <1>1, <1>2, <1>3 DEF Naming
<1>7. Named'
  BY <1>1, <1>2, <1>3, <1>5 DEF Named
<1>8. \A n \in DOMAIN asked : Satisfied(asked[n])'
  BY <1>1, <1>3, <1>4
<1>9. FieldChecked'
  <2>1. outcome' = "Error" => /\ \A n \in DOMAIN asked : Satisfied(asked[n])'
                              /\ ~ Satisfied(Last(asked))'
    BY <1>3, <1>4, <1>8
  <2> QED BY <1>3, <1>5, <1>6, <2>1 DEF FieldChecked
<1>10. outcome' = "none" => \A n \in DOMAIN asked' : Satisfied(asked[n])'
  <2> SUFFICES ASSUME outcome' = "none", NEW n \in DOMAIN asked'
               PROVE  Satisfied(asked[n])'
    OBVIOUS
  <2>1. n \in DOMAIN asked \/ n = Len(asked) + 1
    BY <1>2, <1>3
  <2> QED BY <1>3, <1>4, <1>8, <2>1
<1> QED BY <1>7, <1>9, <1>10 DEF FieldInv

\* withName(), the first one and another.
LEMMA WithNameInv == ASSUME FieldInv, NEW name \in FieldName, WithName(name) PROVE FieldInv'
<1> DEFINE call == <<"withName", name>>
<1>1. /\ m_name = <<>> /\ asked = <<>> /\ outcome = "none" /\ valueType = "none"
      /\ asked' = Append(asked, call) /\ m_name' = <<name>> /\ call \in CallSet
      /\ outcome' = IF name \in DOMAIN m_node[2] THEN "none" ELSE "Error"
      /\ UNCHANGED <<m_node, m_value, valueType, stored>>
  BY DEF WithName, Ask, FieldInv, Named, CallSet
<1>2. /\ asked' = <<call>> /\ asked' \in Seq(CallSet) /\ DOMAIN asked' = {1}
      /\ asked'[1] = call /\ Front(asked') = <<>> /\ Last(asked') = call /\ asked' # <<>>
  BY <1>1, Asking DEF FieldInv
<1>3. FieldOK' /\ Extracted'
  BY <1>1, <1>2 DEF FieldInv, FieldOK, Extracted
<1>4. Naming' = {1}
  BY <1>2 DEF Naming
<1>5. Named'
  BY <1>1, <1>2, <1>4 DEF Named
<1>6. /\ Satisfied(asked[1])' <=> name \in DOMAIN m_node[2]
      /\ Satisfied(Last(asked))' <=> name \in DOMAIN m_node[2]
  <2>1. /\ asked'[1][1] = "withName" /\ asked'[1][2] = name
        /\ Last(asked')[1] = "withName" /\ Last(asked')[2] = name
    BY <1>2
  <2>2. Satisfied(asked[1])' <=> name \in DOMAIN m_node[2]
    BY <1>1, <2>1 DEF Satisfied
  <2>3. Satisfied(Last(asked))' <=> name \in DOMAIN m_node[2]
    BY <1>1, <2>1 DEF Satisfied
  <2> QED BY <2>2, <2>3
<1>7. FieldChecked'
  BY <1>1, <1>2, <1>4, <1>6 DEF FieldChecked
<1> QED BY <1>1, <1>2, <1>3, <1>5, <1>6, <1>7 DEF FieldInv

LEMMA WithNameAgainInv ==
    ASSUME FieldInv, NEW name \in FieldName, WithNameAgain(name) PROVE FieldInv'
<1> DEFINE call == <<"withName", name>>
<1>1. /\ m_name # <<>> /\ asked # <<>> /\ asked[1] = <<"withName", m_name[1]>>
      /\ valueType = "none" /\ outcome' = "JsonLogicError"
      /\ asked' = Append(asked, call) /\ call \in CallSet
      /\ UNCHANGED <<m_node, m_name, m_value, valueType, stored>>
  BY DEF WithNameAgain, Ask, FieldInv, Named, CallSet
<1>2. /\ asked' \in Seq(CallSet) /\ Len(asked) \in Nat
      /\ DOMAIN asked = 1 .. Len(asked) /\ DOMAIN asked' = 1 .. Len(asked) + 1
      /\ \A n \in DOMAIN asked : asked'[n] = asked[n]
      /\ asked'[Len(asked) + 1] = call
  BY <1>1, Asking DEF FieldInv
<1>3. 1 \in DOMAIN asked
  BY <1>1, <1>2 DEF FieldInv, FieldOK
<1>4. 1 \in Naming' /\ Len(asked) + 1 \in Naming' /\ 1 # Len(asked) + 1
  BY <1>1, <1>2, <1>3 DEF Naming
<1> QED BY <1>1, <1>2, <1>3, <1>4 DEF FieldInv, FieldOK, Extracted, Named, FieldChecked

\* The type without a name.
LEMMA UnnamedInv ==
    ASSUME FieldInv, NEW call \in CallSet, call[1] \in ExtractCall, Unnamed(call)
    PROVE  FieldInv'
<1>1. /\ m_name = <<>> /\ asked = <<>> /\ valueType = "none" /\ outcome' = "JsonLogicError"
      /\ asked' = Append(asked, call)
      /\ UNCHANGED <<m_node, m_name, m_value, valueType, stored>>
  BY DEF Unnamed, Ask, FieldInv, Named
<1>2. asked' \in Seq(CallSet) /\ DOMAIN asked' = {1} /\ asked'[1] = call
  BY <1>1, Asking DEF FieldInv
<1>3. Naming' = {} /\ 1 \in Extracting'
  BY <1>2 DEF Naming, Extracting, ExtractCall
<1> QED BY <1>1, <1>2, <1>3 DEF FieldInv, FieldOK, Extracted, Named, FieldChecked

\* The type, behind the name.
LEMMA ExtractInv ==
    ASSUME FieldInv, NEW call \in CallSet, call[1] \in ExtractCall,
           NEW type \in {"array", "object"} \cup FieldType,
           m_name # <<>>, valueType = "none", outcome = "none", asked' = Append(asked, call),
           UNCHANGED <<m_node, m_name, stored>>,
           Satisfied(call) => /\ outcome' = "none" /\ m_value' = member /\ valueType' = type
                              /\ type \in FieldType => tryToExtractValue(member, type)
                              /\ type \in {"array", "object"} => member[1] = type,
           ~ Satisfied(call) => outcome' = "Error" /\ UNCHANGED <<m_value, valueType>>
    PROVE  FieldInv'
<1>1. (outcome' = "none" /\ valueType' = type) \/ (outcome' = "Error" /\ valueType' = valueType)
  OBVIOUS
<1>2. m_name[1] \in DOMAIN m_node[2] /\ call[1] # "withName"
  BY <1>1 DEF FieldInv, Named, ExtractCall
<1>3. FieldOK'
  BY <1>1, Asking DEF FieldInv, FieldOK
<1>4. Extracted'
  BY <1>1, <1>2 DEF Extracted, member, FieldType, Arithmetic, dimension
<1> QED BY <1>1, <1>2, <1>3, <1>4, CallInv DEF Answered

\* A check of the value.
LEMMA CheckInv ==
    ASSUME FieldInv, NEW call \in CallSet, call[1] \notin ExtractCall \cup {"withName"},
           valueType # "none", outcome = "none", asked' = Append(asked, call),
           UNCHANGED <<m_node, m_name, m_value, valueType, stored>>,
           Answered(call)
    PROVE  FieldInv'
<1>1. outcome' \in {"none", "Error", "undefined"}
  BY DEF Answered
<1>2. m_name # <<>>
  BY DEF FieldInv, Extracted
<1>3. FieldOK'
  BY <1>1, Asking DEF FieldInv, FieldOK
<1>4. Extracted'
  BY <1>1 DEF FieldInv, Extracted
<1> QED BY <1>1, <1>2, <1>3, <1>4, CallInv

----------------------------------------------------------------------------
\* What each of the calls asks.
LEMMA ReadersMeaning ==
    ASSUME NEW T
    PROVE  /\ Satisfied(<<"ofType", T>>) <=> tryToExtractValue(Asked, T)
           /\ Satisfied(<<"elementsOfType", T>>) <=>
                \A n \in DOMAIN Asked[2] : tryToExtractValue(Asked[2][n], T)
           /\ Satisfied(<<"asArray">>) <=> Asked[1] = "array"
           /\ Satisfied(<<"asObject">>) <=> Asked[1] = "object"
<1>1. Satisfied(<<"ofType", T>>) <=> tryToExtractValue(Asked, T)
  BY DEF Satisfied
<1>2. Satisfied(<<"elementsOfType", T>>) <=>
         \A n \in DOMAIN Asked[2] : tryToExtractValue(Asked[2][n], T)
  BY DEF Satisfied
<1>3. /\ Satisfied(<<"asArray">>) <=> Asked[1] = "array"
      /\ Satisfied(<<"asObject">>) <=> Asked[1] = "object"
  BY DEF Satisfied
<1> QED BY <1>1, <1>2, <1>3

LEMMA MeaningOfLimits ==
    ASSUME NEW min, NEW max
    PROVE  /\ Satisfied(<<"min", min>>) <=> min <= Asked[2]
           /\ Satisfied(<<"max", max>>) <=> Asked[2] <= max
           /\ Satisfied(<<"inRange", min, max>>) <=> Asked[2] \in min .. max
           /\ Satisfied(<<"sizeInRange", min, max>>) <=> SizeOf(Asked) \in min .. max
<1>4. /\ Satisfied(<<"min", min>>) <=> min <= Asked[2]
      /\ Satisfied(<<"max", max>>) <=> Asked[2] <= max
  BY DEF Satisfied
<1>5. /\ Satisfied(<<"inRange", min, max>>) <=> Asked[2] \in min .. max
      /\ Satisfied(<<"sizeInRange", min, max>>) <=> SizeOf(Asked) \in min .. max
  BY DEF Satisfied
<1> QED BY <1>4, <1>5

\* The value is the member that is asked for.
LEMMA ValueAsked ==
    ASSUME FieldInv, valueType # "none"
    PROVE  /\ m_value = Asked
           /\ valueType \in Arithmetic \ {"bool"} => m_value[2] \in Int
           /\ valueType \in {"string", "array", "object"} => SizeOf(m_value) \in Nat
           /\ valueType = "array" => m_value[1] = "array"
<1>1. /\ m_name # <<>> /\ m_name[1] \in DOMAIN m_node[2] /\ m_node \in Document
      /\ m_value = m_node[2][m_name[1]]
      /\ valueType \in FieldType => tryToExtractValue(m_value, valueType)
      /\ valueType \in {"array", "object"} => m_value[1] = valueType
  BY DEF FieldInv, FieldOK, Extracted
<1>2. m_value = Asked
  BY <1>1 DEF FieldInv, Named, Asked
<1>3. /\ m_value[1] = "num" => m_value[2] \in Int
      /\ m_value[1] \in {"str", "array", "object"} => SizeOf(m_value) \in Nat
  BY <1>1, DocumentAssumption
<1>4. valueType \in Arithmetic \ {"bool"} => m_value[2] \in Int
  BY <1>1, <1>3, NodeTypes DEF FieldType
<1>5. valueType = "string" => m_value[1] = "str"
  BY <1>1, NodeTypes DEF FieldType
<1> QED BY <1>1, <1>2, <1>3, <1>4, <1>5

LEMMA ElementsOfTypeInv ==
    ASSUME FieldInv, NEW T \in FieldType, ElementsOfType(T) PROVE FieldInv'
<1> DEFINE call == <<"elementsOfType", T>>
<1>1. valueType # "none" /\ call \in CallSet
  BY DEF ElementsOfType, Check, CallSet
<1>2. (\A n \in DOMAIN m_value[2] : tryToExtractValue(m_value[2][n], T)) <=> Satisfied(call)
  BY <1>1, ValueAsked, ReadersMeaning
<1>3. /\ outcome = "none" /\ asked' = Append(asked, call)
      /\ UNCHANGED <<m_node, m_name, m_value, valueType, stored>>
      /\ Answered(call)
  BY <1>2 DEF ElementsOfType, Check, Ask, Answered
<1> QED BY <1>1, <1>3, CheckInv DEF ExtractCall

LEMMA MinMaxInv ==
    ASSUME FieldInv, NEW limit \in Limit, Minimum(limit) \/ Maximum(limit) PROVE FieldInv'
<1>0. valueType \in Arithmetic \ {"bool"} /\ valueType # "none"
  BY DEF Minimum, Maximum, Check, Arithmetic
<1>1. m_value[2] \in Int /\ m_value = Asked /\ limit \in Int
  BY <1>0, ValueAsked, LimitAssumption
<1>2. /\ m_value[2] >= limit <=> Satisfied(<<"min", limit>>)
      /\ m_value[2] <= limit <=> Satisfied(<<"max", limit>>)
  BY <1>1, MeaningOfLimits
<1>3. ASSUME NEW call \in CallSet,
             \/ call = <<"min", limit>> /\ Minimum(limit)
             \/ call = <<"max", limit>> /\ Maximum(limit)
      PROVE  FieldInv'
  <2>1. /\ outcome = "none" /\ asked' = Append(asked, call)
        /\ UNCHANGED <<m_node, m_name, m_value, valueType, stored>>
        /\ Answered(call)
    BY <1>2, <1>3 DEF Minimum, Maximum, Check, Ask, Answered
  <2> QED BY <1>0, <1>3, <2>1, CheckInv DEF ExtractCall
<1>4. <<"min", limit>> \in CallSet /\ <<"max", limit>> \in CallSet
  BY DEF CallSet
<1>5. CASE Minimum(limit)
  BY <1>3, <1>4, <1>5
<1>6. CASE Maximum(limit)
  BY <1>3, <1>4, <1>6
<1> QED BY <1>5, <1>6

LEMMA RangeInv ==
    ASSUME FieldInv, NEW min \in Limit, NEW max \in Limit,
           InRange(min, max) \/ SizeInRange(min, max)
    PROVE  FieldInv'
<1>0. valueType # "none"
  BY DEF InRange, SizeInRange, Check, Arithmetic
<1>1. /\ valueType # "none" /\ m_value = Asked /\ min \in Int /\ max \in Int
      /\ <<"inRange", min, max>> \in CallSet /\ <<"sizeInRange", min, max>> \in CallSet
  <2>1. <<"inRange", min, max>> \in CallSet /\ <<"sizeInRange", min, max>> \in CallSet
    BY DEF CallSet
  <2> QED BY <1>0, <2>1, ValueAsked, LimitAssumption
<1>2. CASE InRange(min, max)
  <2> DEFINE call == <<"inRange", min, max>>
  <2>1. m_value[2] \in Int
    BY <1>1, <1>2, ValueAsked DEF InRange, Check
  <2>2. (min <= m_value[2] /\ m_value[2] <= max) <=> Satisfied(call)
    <3>1. m_value[2] \in min .. max <=> Satisfied(call)
      BY <1>1, MeaningOfLimits
    <3> QED BY <1>1, <2>1, <3>1
  <2>3. /\ outcome = "none" /\ asked' = Append(asked, call)
        /\ UNCHANGED <<m_node, m_name, m_value, valueType, stored>>
        /\ Answered(call)
    BY <1>2, <2>2 DEF InRange, Check, Ask, Answered
  <2> QED BY <1>1, <2>3, CheckInv DEF ExtractCall
<1>3. CASE SizeInRange(min, max)
  <2> DEFINE call == <<"sizeInRange", min, max>>
  <2>1. SizeOf(m_value) \in Nat
    BY <1>1, <1>3, ValueAsked DEF SizeInRange, Check
  <2>2. (min <= SizeOf(m_value) /\ SizeOf(m_value) <= max) <=> Satisfied(call)
    <3>1. SizeOf(m_value) \in min .. max <=> Satisfied(call)
      BY <1>1, MeaningOfLimits
    <3> QED BY <1>1, <2>1, <3>1
  <2>3. /\ outcome = "none" /\ asked' = Append(asked, call)
        /\ UNCHANGED <<m_node, m_name, m_value, valueType, stored>>
        /\ Answered(call)
    BY <1>3, <2>2 DEF SizeInRange, Check, Ask, Answered
  <2> QED BY <1>1, <2>3, CheckInv DEF ExtractCall
<1> QED BY <1>2, <1>3

LEMMA TypeInv ==
    ASSUME FieldInv, NEW T \in FieldType, OfType(T) \/ AsArray \/ AsObject PROVE FieldInv'
<1>1. /\ m_name # <<>> /\ valueType = "none" /\ outcome = "none"
      /\ UNCHANGED <<m_node, m_name, stored>>
  BY DEF OfType, AsArray, AsObject, Extract, Ask
<1>2. member = Asked
  BY <1>1 DEF FieldInv, Named, Asked, member
<1>3. /\ <<"ofType", T>> \in CallSet /\ <<"asArray">> \in CallSet /\ <<"asObject">> \in CallSet
      /\ "array" \notin FieldType /\ "object" \notin FieldType
  <2>1. "array" \notin FieldType /\ "object" \notin FieldType
    BY DEF FieldType, Arithmetic, dimension
  <2> QED BY <2>1 DEF CallSet
<1>4. ASSUME NEW call \in CallSet, NEW type \in {"array", "object"} \cup FieldType,
             \/ call = <<"ofType", T>> /\ type = T /\ OfType(T)
             \/ call = <<"asArray">> /\ type = "array" /\ AsArray
             \/ call = <<"asObject">> /\ type = "object" /\ AsObject
      PROVE  FieldInv'
  <2>1. call[1] \in ExtractCall /\ asked' = Append(asked, call)
    BY <1>4 DEF OfType, AsArray, AsObject, Extract, Ask, ExtractCall
  <2>2. CASE call = <<"ofType", T>> /\ type = T /\ OfType(T)
    <3>1. Satisfied(call) <=> tryToExtractValue(member, T)
      BY <1>2, <2>2, ReadersMeaning
    <3>2. /\ Satisfied(call) => outcome' = "none" /\ m_value' = member /\ valueType' = T
          /\ ~ Satisfied(call) => outcome' = "Error" /\ UNCHANGED <<m_value, valueType>>
      BY <2>2, <3>1 DEF OfType, Extract, Ask, member
    <3> QED BY <1>1, <1>3, <1>4, <2>1, <2>2, <3>1, <3>2, ExtractInv
  <2>3. CASE call = <<"asArray">> /\ type = "array" /\ AsArray
    <3>1. Satisfied(call) <=> member[1] = "array"
      BY <1>2, <2>3, ReadersMeaning
    <3>2. /\ Satisfied(call) => outcome' = "none" /\ m_value' = member /\ valueType' = type
          /\ ~ Satisfied(call) => outcome' = "Error" /\ UNCHANGED <<m_value, valueType>>
      BY <2>3, <3>1 DEF AsArray, Extract, Ask, member
    <3> QED BY <1>1, <1>3, <1>4, <2>1, <2>3, <3>1, <3>2, ExtractInv
  <2>4. CASE call = <<"asObject">> /\ type = "object" /\ AsObject
    <3>1. Satisfied(call) <=> member[1] = "object"
      BY <1>2, <2>4, ReadersMeaning
    <3>2. /\ Satisfied(call) => outcome' = "none" /\ m_value' = member /\ valueType' = type
          /\ ~ Satisfied(call) => outcome' = "Error" /\ UNCHANGED <<m_value, valueType>>
      BY <2>4, <3>1 DEF AsObject, Extract, Ask, member
    <3> QED BY <1>1, <1>3, <1>4, <2>1, <2>4, <3>1, <3>2, ExtractInv
  <2> QED BY <1>4, <2>2, <2>3, <2>4
<1> QED BY <1>3, <1>4

LEMMA StoreGetInv == FieldInv /\ (Store \/ Get) => FieldInv'
<1> SUFFICES ASSUME FieldInv, Store \/ Get PROVE FieldInv'
  OBVIOUS
<1>1. UNCHANGED <<m_node, m_name, m_value, valueType, asked>> /\ outcome = "none"
  BY DEF Store, Get
<1>2. /\ asked' = asked
      /\ \A n : Satisfied(asked[n])' <=> Satisfied(asked'[n])
  BY <1>1, SatisfiedKept
<1>3. FieldOK' /\ Named' /\ Extracted'
  BY <1>1 DEF FieldInv, FieldOK, Named, Extracted, Naming, Store, Get
<1>4. Asked' = Asked /\ Naming' = Naming /\ Extracting' = Extracting
  BY <1>1 DEF Asked, Naming, Extracting
<1>5. \A n \in DOMAIN asked' : Satisfied(asked[n])'
  BY <1>1, <1>2 DEF FieldInv
<1>6. valueType # "none" /\ outcome' \in {"none", "value"}
  BY <1>1 DEF Store, Get
<1>7. m_value = Asked
  BY <1>6, ValueAsked
<1>8. FieldChecked'
  BY <1>1, <1>4, <1>5, <1>6, <1>7 DEF FieldInv, FieldChecked
<1> QED BY <1>3, <1>5, <1>8 DEF FieldInv

LEMMA FieldNextInv == FieldInv /\ [FieldNext]_fieldVars => FieldInv'
<1> SUFFICES ASSUME FieldInv, [FieldNext]_fieldVars PROVE FieldInv'
  OBVIOUS
<1>1. /\ <<"asArray">> \in CallSet /\ <<"asObject">> \in CallSet
      /\ \A T \in FieldType : <<"ofType", T>> \in CallSet
  BY DEF CallSet
<1>2. ASSUME NEW name \in FieldName, WithName(name) \/ WithNameAgain(name) PROVE FieldInv'
  BY <1>2, WithNameInv, WithNameAgainInv
<1>3. ASSUME NEW T \in FieldType, OfType(T) \/ ElementsOfType(T) \/ Unnamed(<<"ofType", T>>)
      PROVE  FieldInv'
  BY <1>1, <1>3, TypeInv, ElementsOfTypeInv, UnnamedInv DEF ExtractCall
<1>4. CASE AsArray \/ AsObject
  <2>1. "int" \in FieldType
    BY DEF FieldType, Arithmetic
  <2> QED BY <1>4, <2>1, TypeInv
<1>5. CASE Unnamed(<<"asArray">>) \/ Unnamed(<<"asObject">>)
  BY <1>1, <1>5, UnnamedInv DEF ExtractCall
<1>6. CASE Store \/ Get
  BY <1>6, StoreGetInv
<1>7. ASSUME NEW min \in Limit, Minimum(min) \/ Maximum(min) PROVE FieldInv'
  BY <1>7, MinMaxInv
<1>8. ASSUME NEW min \in Limit, NEW max \in Limit, InRange(min, max) \/ SizeInRange(min, max)
      PROVE  FieldInv'
  BY <1>8, RangeInv
<1>9. CASE UNCHANGED fieldVars
  <2>1. UNCHANGED <<m_node, m_name, m_value, valueType, asked, stored, outcome>>
    BY <1>9 DEF fieldVars
  <2>2. /\ \A n : Satisfied(asked[n])' <=> Satisfied(asked'[n])
        /\ Satisfied(Last(asked))' <=> Satisfied(Last(asked'))
    BY <2>1, SatisfiedKept
  <2>3. FieldOK' /\ Named' /\ Extracted' /\ Asked' = Asked
    BY <2>1 DEF FieldInv, FieldOK, Named, Extracted, Naming, Asked
  <2>4. FieldChecked'
    BY <2>1, <2>2, <2>3 DEF FieldInv, FieldChecked, Naming, Extracting
  <2> QED BY <2>1, <2>2, <2>3, <2>4 DEF FieldInv
<1> QED BY <1>2, <1>3, <1>4, <1>5, <1>6, <1>7, <1>8, <1>9 DEF FieldNext

LEMMA FieldInitInv == FieldInit => FieldInv
<1> SUFFICES ASSUME FieldInit PROVE FieldInv
  OBVIOUS
<1>1. asked = <<>> /\ DOMAIN asked = {} /\ outcome = "none" /\ valueType = "none" /\ m_name = <<>>
  BY DEF FieldInit
<1>2. Naming = {} /\ Extracting = {}
  BY <1>1 DEF Naming, Extracting
<1>3. FieldOK /\ Named /\ Extracted
  <2>1. asked \in Seq(CallSet)
    BY <1>1
  <2>2. FieldOK
    BY <1>1, <2>1 DEF FieldInit, FieldOK
  <2> QED BY <1>1, <2>2 DEF Named, Extracted
<1>4. FieldChecked
  BY <1>1, <1>2 DEF FieldChecked
<1> QED BY <1>1, <1>3, <1>4 DEF FieldInv

\* get() returns the member that was named, after it has passed every check of
\* the chain; a chain throws its Error for the call that the member does not
\* satisfy, and a JsonLogicError exactly for calls in the wrong order, for any
\* documents, names and limits and however many calls.
THEOREM FieldCheckedCorrect == FieldSpec => []FieldChecked
<1>1. FieldInv => FieldChecked
  BY DEF FieldInv
<1> QED BY <1>1, FieldInitInv, FieldNextInv, PTL DEF FieldSpec

----------------------------------------------------------------------------
(***************************************************************************)
(* modelgen. First the parser: what it collects are models with fields and *)
(* enums with names, and once it has finished it takes no further step.    *)
(***************************************************************************)
\* (The provers do not know of a string in quotes that it is in STRING, and SMT
\* cannot read these.)
Opening == "{"
Closing == "}"
End == ";"

Kind == keyword \cup {"none"}
Atom == STRING \cup Kind \cup {":", End, Opening, Closing, "free"}
Text == Seq(Atom)
TokenType == {symbolType[c] : c \in DOMAIN symbolType} \cup {"string"}
TokenSet == [type : TokenType, value : Text]
FieldSet == [name : Text, type : Text]
ModelSet == [kind : Kind, name : Text, members : Seq(FieldSet)]
EnumSet == [kind : Kind, name : Text, members : Seq(Text)]

Structure(kind) == IF kind = "enum" THEN EnumSet ELSE ModelSet

ParserOK ==
    /\ source \in Seq(Text) /\ unread \in Seq(Text)
    /\ m_tokens \in Seq(TokenSet)
    /\ m_currentIndex \in 0 .. Len(m_tokens)
    /\ fieldName \in Text
    /\ current \in Structure(current.kind)
    /\ at \in {"colon", "type"} => current.kind # "enum"
    /\ m_structures \in [enums : Seq(EnumSet), models : Seq(ModelSet)]

Behind == {"parsed", "generateCode", "written", "ModelGeneratorError"}

\* The generator begins when the parser has finished.
Finished ==
    /\ at \in Behind => ended
    /\ at \notin Behind \cup {"undefined"} => files = <<>> /\ m_customTypes = <<>>

\* The n-th file is that of the enum or model it should be.
IsFileOf(file, n) ==
    IF n <= Len(Enums)
    THEN file.path = Enums[n].name /\ file.headers = {}
    ELSE LET model == Models[n - Len(Enums)] IN
         /\ file.path = model.name
         /\ file.headers \subseteq Declared \cup {<<"vector">>, <<"unordered_map">>}
         /\ \A f \in ToSet(model.members) :
              /\ f.type \in allowedTypes \cup Declared \/ IsBracketed(f.type)
              /\ f.type \in ModelNames \ allowedTypes => f.type \in file.headers

Generated ==
    /\ files \in Seq(ToSet(files))
    /\ \A n \in 1 .. Len(files) : IsFileOf(files[n], n)

\* What is registered: the enums so far, then all enums and models, and the
\* models as such.
Known ==
    /\ at = "parsed" =>
         /\ Len(files) <= Len(Enums)
         /\ DOMAIN m_customTypes = {Enums[n].name : n \in 1 .. Len(files)}
    /\ at \in Behind \ {"parsed"} =>
         /\ Len(Enums) <= Len(files) /\ Len(files) <= Len(Enums) + Len(Models)
         /\ DOMAIN m_customTypes = Declared
         /\ \A name \in ModelNames : m_customTypes[name] = "model"

GeneratorInv ==
    /\ ParserOK /\ Finished
    /\ at \in Behind => Generated
    /\ Known
    /\ GeneratesDeclared

----------------------------------------------------------------------------
LEMMA OneElement == ASSUME NEW S, NEW x \in S PROVE <<x>> \in Seq(S)
  OBVIOUS

LEMMA ParsedToken == ASSUME NEW raw \in Text PROVE parseToken(raw) \in TokenSet
<1>1. isSymbol(raw) => symbolType[raw[1]] \in TokenType
  BY DEF isSymbol, TokenType
<1>2. <<>> \in Text
  BY DEF Text
<1>3. "string" \in TokenType
  BY DEF TokenType
<1>4. parseToken(raw) =
          IF isSymbol(raw)
          THEN [type |-> symbolType[raw[1]], value |-> IF raw = <<End>> THEN <<>> ELSE raw]
          ELSE [type |-> "string", value |-> raw]
  BY Zenon DEF parseToken, End
<1> QED BY <1>1, <1>2, <1>3, <1>4 DEF TokenSet

\* The tokens of a word.
LEMMA Tokens ==
    ASSUME NEW word \in Text
    PROVE  tokenize(word) \in Seq(TokenSet)
<1>1. Front(word) \in Text
  <2>1. Len(word) \in Nat /\ \A n \in 1 .. Len(word) - 1 : word[n] \in Atom
    BY DEF Text
  <2>2. SubSeq(word, 1, Len(word) - 1) \in Text
    BY <2>1, SubSeqProperties DEF Text
  <2> QED BY <2>2 DEF Front, Text
<1>2. ASSUME NEW last \in {":", End} PROVE <<last>> \in Text
  <2>1. last \in Atom
    BY DEF Atom
  <2> QED BY <2>1, OneElement DEF Text
<1> DEFINE first == parseToken(word)
           short == [first EXCEPT !.value = Front(word)]
<1>3. first \in TokenSet /\ short \in TokenSet
  BY <1>1, ParsedToken DEF TokenSet
<1>4. Last(word) \in {":", End} => parseToken(<<Last(word)>>) \in TokenSet
  BY <1>2, ParsedToken
<1>5. tokenize(word) = IF Len(first.value) > 1 /\ Last(word) \in {":", End}
                       THEN <<short, parseToken(<<Last(word)>>)>> ELSE <<first>>
  BY Zenon DEF tokenize, End
<1> HIDE DEF first, short
<1>6. <<first>> \in Seq(TokenSet)
  BY <1>3
<1>7. ASSUME NEW second \in TokenSet PROVE <<short, second>> \in Seq(TokenSet)
  BY <1>3
<1> QED BY <1>4, <1>5, <1>6, <1>7

LEMMA Texts == Word \subseteq Text /\ Given \cup {Free} \subseteq Seq(Text) /\ <<>> \in Text
<1>1. \A S, T : S \subseteq T => Seq(S) \subseteq Seq(T)
  OBVIOUS
<1>2. STRING \subseteq Atom /\ "free" \in Atom
  BY DEF Atom
<1>3. Seq(STRING) \subseteq Text
  BY <1>1, <1>2 DEF Text
<1>4. Seq(Seq(STRING)) \subseteq Seq(Text)
  BY <1>1, <1>3
<1>5. Free \in Seq(Text)
  BY <1>2, OneElement DEF Free, Text
<1>6. <<>> \in Text
  BY DEF Text
<1> QED BY <1>3, <1>4, <1>5, <1>6, WordAssumption

LEMMA ParserInitOK == ParserInit => ParserOK
<1>1. <<>> \in Text /\ \A S : <<>> \in Seq(S)
  BY Texts
<1>2. Nothing \in ModelSet /\ Nothing.kind # "enum"
  BY <1>1 DEF Nothing, ModelSet, Kind
<1>3. [enums |-> <<>>, models |-> <<>>] \in [enums : Seq(EnumSet), models : Seq(ModelSet)]
  BY <1>1
<1>4. Len(<<>>) = 0
  OBVIOUS
<1> QED BY <1>1, <1>2, <1>3, <1>4, Texts DEF ParserInit, ParserOK, Structure

LEMMA ReadOK ==
    ASSUME ParserOK, NEW word \in Text, Read(word), unread' \in Seq(Text)
    PROVE  ParserOK'
<1>1. source' \in Seq(Text)
  BY DEF ParserOK, Read
<1>2. tokenize(word) \in Seq(TokenSet)
  BY Tokens
<1>3. /\ m_tokens' \in Seq(TokenSet)
      /\ m_currentIndex' \in 0 .. Len(m_tokens')
  <2> DEFINE more == tokenize(word)
  <2>1. m_tokens' = m_tokens \o more
    BY DEF Read
  <2> HIDE DEF more
  <2>2. /\ m_tokens \o more \in Seq(TokenSet)
        /\ Len(m_tokens \o more) = Len(m_tokens) + Len(more)
        /\ Len(more) \in Nat /\ Len(m_tokens) \in Nat
    BY <1>2 DEF ParserOK, more
  <2> QED BY <2>1, <2>2 DEF ParserOK, Read
<1>4. at' = at \/ at' = "SyntaxError"
  BY DEF Read
<1> QED BY <1>1, <1>3, <1>4 DEF ParserOK, Read

\* A token that is there is one.
LEMMA NextToken ==
    ASSUME ParserOK, Ready
    PROVE  /\ nextToken \in TokenSet /\ nextToken.value \in Text
           /\ m_currentIndex + 1 \in 0 .. Len(m_tokens)
<1>1. Len(m_tokens) \in Nat /\ m_currentIndex + 1 \in 1 .. Len(m_tokens)
  BY DEF ParserOK, Ready
<1>2. nextToken \in TokenSet
  BY <1>1 DEF ParserOK, nextToken
<1> QED BY <1>1, <1>2 DEF TokenSet

\* One token further, with what is under construction as it should be.
LEMMA TokenOK ==
    ASSUME ParserOK, NEW here, NEW type, NEW next, getNextToken(here, type, next),
           fieldName' \in Text, current' \in Structure(current'.kind),
           next \in {"colon", "type"} => current'.kind # "enum",
           m_structures' \in [enums : Seq(EnumSet), models : Seq(ModelSet)]
    PROVE  ParserOK'
<1>1. m_currentIndex' \in 0 .. Len(m_tokens')
  BY NextToken DEF getNextToken, inputVars
<1> QED BY <1>1 DEF ParserOK, getNextToken, inputVars

LEMMA Keywords ==
    ASSUME ParserOK, Ready, IsKeyword(nextToken)
    PROVE  [Nothing EXCEPT !.kind = nextToken.value[1]] \in Structure(nextToken.value[1])
<1> DEFINE k == nextToken.value[1]
<1>1. k \in Kind
  BY DEF IsKeyword, Kind
<1> HIDE DEF k
<1>2. /\ [Nothing EXCEPT !.kind = k] = [kind |-> k, name |-> <<>>, members |-> <<>>]
      /\ <<>> \in Text /\ <<>> \in Seq(Text) /\ <<>> \in Seq(FieldSet)
  BY Texts DEF Nothing
<1> QED BY <1>1, <1>2 DEF Structure, ModelSet, EnumSet, k

LEMMA CurrentOK ==
    ASSUME ParserOK
    PROVE  /\ current.kind = "enum" => current \in EnumSet
           /\ current.kind # "enum" => current \in ModelSet
           /\ m_structures.enums \in Seq(EnumSet) /\ m_structures.models \in Seq(ModelSet)
BY DEF ParserOK, Structure

LEMMA NameOK ==
    ASSUME ParserOK, ProcessName
    PROVE  ParserOK'
<1>1. nextToken.value \in Text
  BY NextToken DEF ProcessName, getNextToken
<1>2. current' \in Structure(current'.kind)
  <2>1. CASE current.kind = "enum"
    <3>1. current' \in EnumSet /\ current'.kind = current.kind
      BY <1>1, <2>1, CurrentOK DEF ProcessName, EnumSet
    <3> QED BY <2>1, <3>1 DEF Structure
  <2>2. CASE current.kind # "enum"
    <3>1. current' \in ModelSet /\ current'.kind = current.kind
      BY <1>1, <2>2, CurrentOK DEF ProcessName, ModelSet
    <3> QED BY <2>2, <3>1 DEF Structure
  <2> QED BY <2>1, <2>2
<1> QED BY <1>2, TokenOK DEF ProcessName, ParserOK

LEMMA TypeOK ==
    ASSUME ParserOK, ProcessType
    PROVE  ParserOK'
<1>1. nextToken.value \in Text /\ fieldName \in Text /\ current.kind # "enum"
  BY NextToken DEF ProcessType, getNextToken, ParserOK
<1> DEFINE field == [name |-> fieldName, type |-> nextToken.value]
<1>2. field \in FieldSet
  BY <1>1 DEF FieldSet
<1>3. current' = [current EXCEPT !.members = Append(@, field)]
  BY DEF ProcessType
<1> HIDE DEF field
<1>4. current' \in ModelSet /\ current'.kind = current.kind
  <2>1. current \in ModelSet /\ current.members \in Seq(FieldSet)
    BY <1>1, CurrentOK DEF ModelSet
  <2>2. Append(current.members, field) \in Seq(FieldSet)
    BY <1>2, <2>1
  <2> QED BY <1>3, <2>1, <2>2 DEF ModelSet
<1>5. current' \in Structure(current'.kind)
  BY <1>1, <1>4 DEF Structure
<1>6. fieldName' \in Text
  BY Texts DEF ProcessType
<1> QED BY <1>5, <1>6, TokenOK DEF ProcessType, ParserOK

LEMMA EnumFieldOK ==
    ASSUME ParserOK, ProcessEnumField
    PROVE  ParserOK'
<1>1. nextToken.value \in Text /\ current.kind = "enum"
  BY NextToken DEF ProcessEnumField, getNextToken
<1>2. current' \in EnumSet /\ current'.kind = current.kind
  <2>1. current \in EnumSet /\ current.members \in Seq(Text)
    BY <1>1, CurrentOK DEF EnumSet
  <2>2. Append(current.members, nextToken.value) \in Seq(Text)
    BY <1>1, <2>1
  <2> QED BY <2>1, <2>2 DEF ProcessEnumField, EnumSet
<1>3. current' \in Structure(current'.kind)
  BY <1>1, <1>2 DEF Structure
<1> QED BY <1>3, TokenOK DEF ProcessEnumField, ParserOK

LEMMA ClosingBraceOK ==
    ASSUME ParserOK, ProcessClosingBrace
    PROVE  ParserOK'
<1>1. current' \in Structure(current'.kind)
  BY ParserInitOK, Texts DEF ProcessClosingBrace, Nothing, Structure, ModelSet, Kind
<1>2. m_structures' \in [enums : Seq(EnumSet), models : Seq(ModelSet)]
  <2>1. CASE current.kind = "enum"
    <3>1. Append(m_structures.enums, current) \in Seq(EnumSet)
      BY <2>1, CurrentOK
    <3> QED BY <2>1, <3>1 DEF ProcessClosingBrace, ParserOK
  <2>2. CASE current.kind # "enum"
    <3>1. Append(m_structures.models, current) \in Seq(ModelSet)
      BY <2>2, CurrentOK
    <3> QED BY <2>2, <3>1 DEF ProcessClosingBrace, ParserOK
  <2> QED BY <2>1, <2>2
<1> QED BY <1>1, <1>2, TokenOK DEF ProcessClosingBrace, ParserOK

LEMMA ParserNextOK == ParserOK /\ ParserNext => ParserOK'
<1> SUFFICES ASSUME ParserOK, ParserNext PROVE ParserOK'
  OBVIOUS
<1>1. CASE ReadGiven
  <2>1. unread \in Seq(Text) /\ unread # <<>>
    BY <1>1 DEF ReadGiven, ParserOK
  <2>2. Head(unread) \in Text /\ Tail(unread) \in Seq(Text)
    BY <2>1
  <2> QED BY <1>1, <2>2, ReadOK DEF ReadGiven
<1>2. CASE ReadFree
  BY <1>2, ReadOK, Texts DEF ReadFree, ParserOK
<1>3. CASE EndOfFile \/ ParseNothing \/ ProcessEnd \/ Fail
  BY <1>3 DEF EndOfFile, ParseNothing, ProcessEnd, Fail, otherVars, inputVars, ParserOK
<1>4. CASE ParseTokens \/ ProcessHeader \/ ProcessOpeningBrace \/ ProcessColon \/ ProcessSemicolon
  BY <1>4, TokenOK DEF ParseTokens, ProcessHeader, ProcessOpeningBrace, ProcessColon,
     ProcessSemicolon, getNextToken, ParserOK
<1>5. CASE ProcessDeclaration
  <2>1. /\ current' = [Nothing EXCEPT !.kind = nextToken.value[1]]
        /\ current'.kind = nextToken.value[1]
    BY <1>5 DEF ProcessDeclaration, Nothing
  <2>2. current' \in Structure(current'.kind)
    BY <1>5, <2>1, Keywords DEF ProcessDeclaration, getNextToken
  <2> QED BY <1>5, <2>2, TokenOK DEF ProcessDeclaration, ParserOK
<1>6. CASE ProcessModelField
  <2>1. fieldName' \in Text
    BY <1>6, NextToken DEF ProcessModelField, getNextToken
  <2> QED BY <1>6, <2>1, TokenOK DEF ProcessModelField, ParserOK
<1> QED
  BY <1>1, <1>2, <1>3, <1>4, <1>5, <1>6, NameOK, TypeOK, EnumFieldOK, ClosingBraceOK
  DEF ParserNext

\* The parser does nothing behind its end, and only its last step leads there.
LEMMA ParserEnds ==
    ASSUME ParserNext, at \in Behind => ended
    PROVE  /\ at \notin Behind \cup {"undefined"}
           /\ at' \in Behind => at' = "parsed" /\ ended'
<1>1. CASE ReadGiven \/ ReadFree \/ EndOfFile
  BY <1>1 DEF ReadGiven, ReadFree, EndOfFile, Read, Starved, Behind
<1>2. CASE ProcessEnd
  BY <1>2 DEF ProcessEnd, AtEnd, otherVars, inputVars, Behind
<1>3. CASE ParseNothing \/ Fail
  BY <1>3 DEF ParseNothing, Fail, Wanted, Behind
<1>4. ASSUME NEW here, NEW type, NEW next, getNextToken(here, type, next),
             here \notin Behind \cup {"undefined"}, next \notin Behind
      PROVE  at \notin Behind \cup {"undefined"} /\ at' \notin Behind
  BY <1>4 DEF getNextToken
<1>5. CASE ParseTokens \/ ProcessHeader \/ ProcessDeclaration \/ ProcessName
             \/ ProcessOpeningBrace
  BY <1>4, <1>5 DEF ParseTokens, ProcessHeader, ProcessDeclaration, ProcessName,
     ProcessOpeningBrace, Behind
<1>6. CASE ProcessModelField \/ ProcessColon \/ ProcessType \/ ProcessEnumField
             \/ ProcessSemicolon \/ ProcessClosingBrace
  BY <1>4, <1>6 DEF ProcessModelField, ProcessColon, ProcessType, ProcessEnumField,
     ProcessSemicolon, ProcessClosingBrace, Behind
<1> QED BY <1>1, <1>2, <1>3, <1>5, <1>6 DEF ParserNext

----------------------------------------------------------------------------
\* Operators on sequences and sets of positions.
LEMMA AppendSequence ==
    ASSUME NEW s, s \in Seq(ToSet(s)), NEW x
    PROVE  /\ Append(s, x) \in Seq(ToSet(Append(s, x)))
           /\ Len(Append(s, x)) = Len(s) + 1 /\ Len(s) \in Nat
           /\ \A n \in 1 .. Len(s) : Append(s, x)[n] = s[n]
           /\ Append(s, x)[Len(s) + 1] = x
<1> DEFINE S == ToSet(s) \cup {x}
<1>1. \A U, V : U \subseteq V => Seq(U) \subseteq Seq(V)
  OBVIOUS
<1>2. s \in Seq(S) /\ x \in S
  BY <1>1
<1> HIDE DEF S
<1>3. /\ Append(s, x) \in Seq(S)
      /\ Len(Append(s, x)) = Len(s) + 1 /\ Len(s) \in Nat
      /\ \A n \in 1 .. Len(s) : Append(s, x)[n] = s[n]
      /\ Append(s, x)[Len(s) + 1] = x
  BY <1>2
<1>4. \A t : t \in Seq(S) => t \in Seq({t[n] : n \in DOMAIN t})
  OBVIOUS
<1> QED BY <1>3, <1>4 DEF ToSet

LEMMA Smallest ==
    ASSUME NEW S, S \subseteq Nat, S # {}
    PROVE  Min(S) \in S /\ \A n \in S : Min(S) <= n
<1> DEFINE Less == {ss \in Nat \X Nat : ss[1] < ss[2]}
<1>1. IsWellFoundedOn(Less, Nat)
  BY NatLessThanWellFounded DEF OpToRel
<1>2. ASSUME NEW a \in Nat, NEW b \in Nat, a < b PROVE <<a, b>> \in Less
  <2> DEFINE c == <<a, b>>
  <2>1. c \in Nat \X Nat /\ c[1] < c[2]
    BY <1>2
  <2> HIDE DEF c
  <2>2. c \in Less
    BY <2>1
  <2> QED BY <2>2 DEF c
<1> HIDE DEF Less
<1>3. PICK x \in S : \A y \in S : ~ (<<y, x>> \in Less)
  BY <1>1, WFMin
<1>4. ASSUME NEW y \in S PROVE x <= y
  <2>1. x \in Nat /\ y \in Nat
    OBVIOUS
  <2>2. ~ (y < x)
    BY <1>2, <1>3, <2>1
  <2> QED BY <2>1, <2>2
<1>5. Min(S) \in S /\ \A n \in S : Min(S) <= n
  BY <1>4 DEF Min
<1> QED BY <1>5

\* A finite set of positions has a largest one.
LEMMA Largest ==
    ASSUME NEW N \in Nat, NEW S, S \subseteq 1 .. N, S # {}
    PROVE  Max(S) \in S /\ \A n \in S : n <= Max(S)
<1> DEFINE T == {N - n : n \in S}
<1>1. T \subseteq Nat /\ T # {}
  <2>1. PICK i \in S : TRUE
    OBVIOUS
  <2>2. N - i \in T
    OBVIOUS
  <2>3. \A n \in S : N - n \in Nat
    OBVIOUS
  <2> QED BY <2>2, <2>3
<1> DEFINE least == Min(T)
<1>2. least \in T /\ \A n \in S : least <= N - n
  BY <1>1, Smallest
<1>3. PICK m \in S : least = N - m
  BY <1>2
<1> HIDE DEF T, least
<1>4. \A n \in S : m >= n
  BY <1>2, <1>3
<1>5. Max(S) \in S /\ \A n \in S : Max(S) >= n
  BY <1>4 DEF Max
<1> QED BY <1>5

----------------------------------------------------------------------------
(***************************************************************************)
(* The generator.                                                          *)
(***************************************************************************)
\* What the collected enums and models are.
LEMMA Collected ==
    ASSUME ParserOK
    PROVE  /\ Len(Enums) \in Nat /\ DOMAIN Enums = 1 .. Len(Enums)
           /\ Len(Models) \in Nat /\ DOMAIN Models = 1 .. Len(Models)
           /\ \A n \in DOMAIN Models : /\ Models[n].members \in Seq(FieldSet)
                                       /\ DOMAIN Models[n].members \subseteq Nat
<1>1. Enums \in Seq(EnumSet) /\ Models \in Seq(ModelSet)
  BY CurrentOK DEF Enums, Models
<1>2. \A n \in DOMAIN Models : Models[n] \in ModelSet
  BY <1>1
<1>3. \A n \in DOMAIN Models : Models[n].members \in Seq(FieldSet)
  BY <1>2 DEF ModelSet
<1>4. \A s : s \in Seq(FieldSet) => DOMAIN s \subseteq Nat
  OBVIOUS
<1> QED BY <1>1, <1>3, <1>4

\* The declarations as long as the parser collects nothing.
LEMMA DeclarationsKept ==
    ASSUME UNCHANGED m_structures
    PROVE  /\ Enums' = Enums /\ Models' = Models
           /\ Declared' = Declared /\ ModelNames' = ModelNames
           /\ Undeclared' = Undeclared
BY DEF Enums, Models, Declared, ModelNames, Undeclared, Fields

\* A step that leaves the files and what was collected alone.
LEMMA FilesKept ==
    ASSUME Generated, UNCHANGED <<files, m_structures>>
    PROVE  Generated'
BY DEF Generated, IsFileOf, Declared, ModelNames, Enums, Models

\* One more file, which is what it should be.
LEMMA FileAppended ==
    ASSUME Generated, NEW file, IsFileOf(file, Len(files) + 1),
           files' = Append(files, file), UNCHANGED m_structures
    PROVE  Generated' /\ Len(files') = Len(files) + 1 /\ Len(files) \in Nat
<1>1. /\ files' \in Seq(ToSet(files'))
      /\ Len(files') = Len(files) + 1 /\ Len(files) \in Nat
      /\ \A n \in 1 .. Len(files) : files'[n] = files[n]
      /\ files'[Len(files) + 1] = file
  BY AppendSequence DEF Generated
<1>2. \A f, n : IsFileOf(f, n)' <=> IsFileOf(f, n)
  BY DEF IsFileOf, Declared, ModelNames, Enums, Models
<1>3. \A n : IsFileOf(files[n], n)' <=> IsFileOf(files'[n], n)
  BY DEF IsFileOf, Declared, ModelNames, Enums, Models
<1>4. \A n \in 1 .. Len(files') : IsFileOf(files'[n], n)
  BY <1>1 DEF Generated
<1> QED BY <1>1, <1>3, <1>4 DEF Generated

LEMMA GenerateEnumInv == GeneratorInv /\ GenerateEnum => GeneratorInv'
<1> SUFFICES ASSUME GeneratorInv, GenerateEnum PROVE GeneratorInv'
  OBVIOUS
<1> USE DEF GeneratorInv
<1>1. /\ at = "parsed" /\ at' = at /\ at \in Behind /\ ParserOK' /\ m_structures' = m_structures
      /\ ended' = ended
  BY DEF GenerateEnum, parserVars, otherVars, inputVars, Behind, ParserOK
<1> DEFINE k == Len(files) + 1
           file == generateEnum(Enums[k])
<1>2. /\ Len(files) \in Nat /\ k \in 1 .. Len(Enums) /\ k \in DOMAIN Enums
  BY <1>1, Collected DEF Generated, GenerateEnum
<1>3. file.path = Enums[k].name /\ file.headers = {}
  BY DEF generateEnum
<1>4. files' = Append(files, file)
  BY DEF GenerateEnum
<1> HIDE DEF file
<1>5. IsFileOf(file, k)
  BY <1>2, <1>3 DEF IsFileOf
<1>6. Generated' /\ Len(files') = k
  BY <1>1, <1>4, <1>5, FileAppended
<1>7. DOMAIN m_customTypes' = {Enums[n].name : n \in 1 .. k}
  <2>1. DOMAIN m_customTypes' = {Enums[k].name} \cup {Enums[n].name : n \in 1 .. Len(files)}
    BY <1>1 DEF GenerateEnum, Registered, Known
  <2>2. 1 .. k = 1 .. Len(files) \cup {k}
    BY <1>2
  <2> QED BY <2>1, <2>2
<1>8. Known'
  BY <1>1, <1>2, <1>6, <1>7 DEF Known, Enums
<1>9. Finished' /\ GeneratesDeclared'
  BY <1>1 DEF Finished, GeneratesDeclared
<1> QED BY <1>1, <1>6, <1>8, <1>9

LEMMA RegisterModelsInv == GeneratorInv /\ RegisterModels => GeneratorInv'
<1> SUFFICES ASSUME GeneratorInv, RegisterModels PROVE GeneratorInv'
  OBVIOUS
<1> USE DEF GeneratorInv
<1>1. /\ at = "parsed" /\ at' = "generateCode" /\ at \in Behind /\ at' \in Behind
      /\ Len(files) = Len(Enums)
      /\ UNCHANGED <<files, m_structures, ended>>
  BY DEF RegisterModels, otherVars, inputVars, Behind
<1>2. ParserOK'
  BY <1>1 DEF RegisterModels, otherVars, inputVars, ParserOK
<1>3. Generated'
  BY <1>1, FilesKept
<1>4. Len(Enums) \in Nat /\ Len(Models) \in Nat /\ DOMAIN Enums = 1 .. Len(Enums)
  BY Collected
<1>5. m_customTypes' = Registered(ModelNames, "model")
  BY DEF RegisterModels, ModelNames
<1>6. /\ DOMAIN m_customTypes' = Declared
      /\ \A name \in ModelNames : m_customTypes'[name] = "model"
  BY <1>1, <1>4, <1>5 DEF Registered, Known, Declared
<1>7. Known'
  BY <1>1, <1>4, <1>6, DeclarationsKept DEF Known
<1>8. Finished' /\ GeneratesDeclared'
  BY <1>1 DEF Finished, GeneratesDeclared
<1> QED BY <1>1, <1>2, <1>3, <1>7, <1>8

\* The headers of a type are declared, and a model's own is among them.
LEMMA Headers ==
    ASSUME DOMAIN m_customTypes = Declared,
           \A name \in ModelNames : m_customTypes[name] = "model",
           NEW type
    PROVE  /\ HeadersOf(type) \subseteq Declared \cup {<<"vector">>, <<"unordered_map">>}
           /\ type \in ModelNames \ allowedTypes => type \in HeadersOf(type)
<1>1. type \in ModelNames => IsModel(type)
  BY DEF IsModel, Declared
<1>2. IsModel(type) => type \in Declared
  BY DEF IsModel
<1> QED BY <1>1, <1>2 DEF HeadersOf

LEMMA GenerateModelInv == GeneratorInv /\ GenerateModel => GeneratorInv'
<1> SUFFICES ASSUME GeneratorInv, GenerateModel PROVE GeneratorInv'
  OBVIOUS
<1> USE DEF GeneratorInv
<1>1. /\ at = "generateCode" /\ at' = at /\ at \in Behind /\ ParserOK'
      /\ UNCHANGED <<m_structures, m_customTypes, ended>>
  BY DEF GenerateModel, parserVars, otherVars, inputVars, Behind, ParserOK
<1> DEFINE k == Len(files) - Len(Enums) + 1
           model == Models[k]
           file == generateModel(model)
<1>2. /\ Len(files) \in Nat /\ Len(Enums) \in Nat /\ Len(Models) \in Nat
      /\ Len(Enums) <= Len(files) /\ k \in 1 .. Len(Models)
      /\ k \in DOMAIN Models /\ k = (Len(files) + 1) - Len(Enums)
  BY <1>1, Collected DEF Generated, Known, Behind, GenerateModel
<1>3. NextModel = model /\ Problems = {} /\ files' = Append(files, file)
  BY DEF GenerateModel, NextModel
<1>4. /\ file.path = model.name
      /\ file.headers = UNION {HeadersOf(model.members[n].type) : n \in DOMAIN model.members}
  BY DEF generateModel
<1>5. \A n \in DOMAIN model.members : ~ IsUnknown(model.members[n].type)
  BY <1>3 DEF Problems
<1>6. /\ DOMAIN m_customTypes = Declared
      /\ \A name \in ModelNames : m_customTypes[name] = "model"
  BY <1>1 DEF Known, Behind
<1> HIDE DEF file, model, k
<1>7. file.headers \subseteq Declared \cup {<<"vector">>, <<"unordered_map">>}
  BY <1>4, <1>6, Headers
<1>8. ASSUME NEW f \in ToSet(model.members)
      PROVE  /\ f.type \in allowedTypes \cup Declared \/ IsBracketed(f.type)
             /\ f.type \in ModelNames \ allowedTypes => f.type \in file.headers
  <2>1. PICK n \in DOMAIN model.members : f = model.members[n]
    BY DEF ToSet
  <2>2. ~ IsUnknown(f.type)
    BY <1>5, <2>1
  <2>3. HeadersOf(f.type) \subseteq file.headers
    BY <1>4, <2>1
  <2> QED BY <1>6, <2>2, <2>3, Headers DEF IsUnknown
<1>9. IsFileOf(file, Len(files) + 1)
  <2>1. ~ (Len(files) + 1 <= Len(Enums)) /\ Models[(Len(files) + 1) - Len(Enums)] = model
    BY <1>2 DEF model
  <2> QED BY <1>4, <1>7, <1>8, <2>1 DEF IsFileOf
<1>10. Generated' /\ Len(files') = Len(files) + 1
  BY <1>1, <1>3, <1>9, FileAppended
<1>11. Known'
  <2>1. Len(files') <= Len(Enums) + Len(Models)
    BY <1>2, <1>10 DEF k
  <2>2. Len(Enums) <= Len(files') /\ at' # "parsed"
    BY <1>1, <1>2, <1>10
  <2> QED BY <1>1, <1>6, <2>1, <2>2, DeclarationsKept DEF Known
<1>12. Finished' /\ GeneratesDeclared'
  BY <1>1 DEF Finished, GeneratesDeclared
<1> QED BY <1>1, <1>10, <1>11, <1>12

LEMMA GenerateModelFailsInv == GeneratorInv /\ GenerateModelFails => GeneratorInv'
<1> SUFFICES ASSUME GeneratorInv, GenerateModelFails PROVE GeneratorInv'
  OBVIOUS
<1> USE DEF GeneratorInv
<1>1. /\ at = "generateCode" /\ at \in Behind
      /\ at' \in {"ModelGeneratorError", "undefined"}
      /\ UNCHANGED <<m_structures, m_customTypes, files, ended>>
  BY DEF GenerateModelFails, otherVars, inputVars, generatorVars, Behind
<1>2. ParserOK'
  BY <1>1 DEF GenerateModelFails, otherVars, inputVars, ParserOK
<1>3. Generated'
  BY <1>1, FilesKept
<1>4. Known' /\ Finished'
  BY <1>1, DeclarationsKept DEF Known, Finished, Behind
<1>5. at' = "ModelGeneratorError" => Undeclared # {}
  <2> SUFFICES ASSUME at' = "ModelGeneratorError" PROVE Undeclared # {}
    OBVIOUS
  <2> DEFINE k == Len(files) - Len(Enums) + 1
             model == Models[k]
             n == Min(Problems)
  <2>1. k \in DOMAIN Models
    BY <1>1, Collected DEF Generated, Known, Behind, GenerateModelFails
  <2>2. NextModel = model /\ model.members \in Seq(FieldSet) /\ DOMAIN model.members \subseteq Nat
    BY <2>1, Collected DEF NextModel
  <2>3. IsUnknown(model.members[n].type) /\ Problems # {}
    BY <2>2 DEF GenerateModelFails
  <2>4. n \in DOMAIN model.members
    <3>1. Problems \subseteq DOMAIN model.members
      BY <2>2 DEF Problems
    <3> QED BY <2>2, <2>3, <3>1, Smallest
  <2> HIDE DEF n, model
  <2>5. model.members[n] \in Fields
    BY <2>1, <2>4 DEF Fields, ToSet, model
  <2>6. DOMAIN m_customTypes = Declared
    BY <1>1 DEF Known, Behind
  <2> QED BY <2>3, <2>5, <2>6 DEF Undeclared, IsUnknown
<1>6. GeneratesDeclared'
  BY <1>1, <1>5, DeclarationsKept DEF GeneratesDeclared
<1> QED BY <1>1, <1>2, <1>3, <1>4, <1>6

LEMMA WriteFilesInv == GeneratorInv /\ WriteFiles => GeneratorInv'
<1> SUFFICES ASSUME GeneratorInv, WriteFiles PROVE GeneratorInv'
  OBVIOUS
<1> USE DEF GeneratorInv
<1>1. /\ at = "generateCode" /\ at \in Behind /\ at' = "written" /\ at' \in Behind
      /\ Len(files) = Len(Enums) + Len(Models)
      /\ UNCHANGED <<m_structures, m_customTypes, files, ended>>
  BY DEF WriteFiles, otherVars, inputVars, Behind
<1>2. ParserOK'
  BY <1>1 DEF WriteFiles, otherVars, inputVars, ParserOK
<1>3. Generated'
  BY <1>1, FilesKept
<1>4. Known' /\ Finished'
  BY <1>1, DeclarationsKept DEF Known, Finished, Behind
<1> DEFINE size == Len(files)
           Named_(name) == {n \in DOMAIN files : files[n].path = name}
<1>5. /\ Len(Enums) \in Nat /\ DOMAIN Enums = 1 .. Len(Enums)
      /\ Len(Models) \in Nat /\ DOMAIN Models = 1 .. Len(Models)
      /\ size \in Nat /\ DOMAIN files = 1 .. size
  BY <1>1, Collected DEF Generated
<1>6. /\ \A n \in DOMAIN Enums : n \in DOMAIN files /\ files[n].path = Enums[n].name
      /\ \A n \in DOMAIN Models : /\ Len(Enums) + n \in DOMAIN files
                                  /\ IsFileOf(files[Len(Enums) + n], Len(Enums) + n)
                                  /\ ~ (Len(Enums) + n <= Len(Enums))
                                  /\ (Len(Enums) + n) - Len(Enums) = n
      /\ \A n \in DOMAIN files : n \in DOMAIN Enums \/ n - Len(Enums) \in DOMAIN Models
  BY <1>1, <1>5 DEF Generated, IsFileOf
<1>7. \A n \in DOMAIN Models :
         /\ files[Len(Enums) + n].path = Models[n].name
         /\ \A f \in ToSet(Models[n].members) :
              /\ f.type \in allowedTypes \cup Declared \/ IsBracketed(f.type)
              /\ f.type \in ModelNames \ allowedTypes => f.type \in files[Len(Enums) + n].headers
  BY <1>6 DEF IsFileOf
<1>8. {files[n].path : n \in DOMAIN files} = Declared
  <2>1. ASSUME NEW n \in DOMAIN files PROVE files[n].path \in Declared
    <3>1. CASE n \in DOMAIN Enums
      BY <1>6, <3>1 DEF Declared
    <3>2. CASE n - Len(Enums) \in DOMAIN Models
      <4>1. n = Len(Enums) + (n - Len(Enums))
        BY <1>5
      <4> QED BY <1>7, <3>2, <4>1 DEF Declared, ModelNames
    <3> QED BY <1>6, <3>1, <3>2
  <2>2. \A n \in DOMAIN Models : \E m \in DOMAIN files : files[m].path = Models[n].name
    BY <1>6, <1>7
  <2> QED BY <1>6, <2>1, <2>2 DEF Declared, ModelNames
<1>9. ASSUME NEW name \in Declared
      PROVE  /\ Max(Named_(name)) \in Named_(name)
             /\ \A n \in Named_(name) : n <= Max(Named_(name))
             /\ written'[name] = files[Max(Named_(name))]
  <2>1. Named_(name) # {} /\ Named_(name) \subseteq 1 .. size
    BY <1>5, <1>8
  <2>2. written'[name] = files[Max(Named_(name))]
    BY <1>8 DEF WriteFiles
  <2> HIDE DEF Named_
  <2> QED BY <1>5, <2>1, <2>2, Largest
<1>10. DOMAIN written' = Declared
  BY <1>8 DEF WriteFiles
<1>11. Undeclared = {}
  <2>1. ASSUME NEW f \in Fields PROVE f.type \in allowedTypes \cup Declared \/ IsBracketed(f.type)
    BY <1>7 DEF Fields
  <2> QED BY <2>1 DEF Undeclared
<1>12. \A n \in DOMAIN files :
         files[n].headers \subseteq Declared \cup {<<"vector">>, <<"unordered_map">>}
  <2>1. \A n \in DOMAIN files : IsFileOf(files[n], n)
    BY <1>1, <1>5 DEF Generated
  <2> QED BY <2>1 DEF IsFileOf
<1>13. ASSUME NEW n \in DOMAIN Models,
              \A k \in DOMAIN Models : Models[k].name = Models[n].name => k <= n
       PROVE  written'[Models[n].name] = files[Len(Enums) + n]
  <2> DEFINE name == Models[n].name
             last == Max(Named_(name))
  <2>1. name \in Declared /\ Len(Enums) + n \in Named_(name)
    BY <1>6, <1>7 DEF Declared, ModelNames
  <2>2. last \in DOMAIN files /\ files[last].path = name /\ Len(Enums) + n <= last
    BY <1>9, <2>1
  <2> HIDE DEF last
  <2>3. last - Len(Enums) \in DOMAIN Models /\ last = Len(Enums) + (last - Len(Enums))
    BY <1>5, <1>6, <2>2
  <2>4. Models[last - Len(Enums)].name = name
    BY <1>7, <2>2, <2>3
  <2>5. last = Len(Enums) + n
    BY <1>5, <1>13, <2>2, <2>3, <2>4
  <2> QED BY <1>9, <2>1, <2>5 DEF last
<1>14. GeneratesDeclared'
  <2>1. /\ Undeclared' = Undeclared /\ Declared' = Declared /\ Models' = Models
        /\ ModelNames' = ModelNames
    BY <1>1, DeclarationsKept
  <2>2. \A name \in Declared :
          written'[name].headers \subseteq Declared \cup {<<"vector">>, <<"unordered_map">>}
    BY <1>9, <1>12
  <2>3. \A n \in DOMAIN Models : \A f \in ToSet(Models[n].members) :
           (/\ \A k \in DOMAIN Models : Models[k].name = Models[n].name => k <= n
            /\ f.type \in ModelNames \ allowedTypes)
               => f.type \in written'[Models[n].name].headers
    BY <1>7, <1>13
  <2> QED BY <1>1, <1>10, <1>11, <2>1, <2>2, <2>3 DEF GeneratesDeclared
<1> QED BY <1>1, <1>2, <1>3, <1>4, <1>14

----------------------------------------------------------------------------
LEMMA GeneratorInitInv == ParserInit /\ GeneratorInit => GeneratorInv
BY ParserInitOK
DEF ParserInit, GeneratorInit, GeneratorInv, Finished, Behind, Known, GeneratesDeclared

LEMMA ParserNextInv ==
    ASSUME GeneratorInv, ParserNext, UNCHANGED generatorVars
    PROVE  GeneratorInv'
<1>1. ParserOK'
  BY ParserNextOK DEF GeneratorInv
<1>2. /\ at \notin Behind \cup {"undefined"}
      /\ at' \in Behind => at' = "parsed" /\ ended'
      /\ files = <<>> /\ m_customTypes = <<>> /\ files' = files /\ m_customTypes' = m_customTypes
  BY ParserEnds DEF GeneratorInv, Finished, generatorVars
<1>3. Finished' /\ GeneratesDeclared'
  BY <1>2 DEF Finished, GeneratesDeclared, Behind
<1>4. Generated'
  BY <1>2 DEF Generated, ToSet
<1>5. Known'
  BY <1>1, <1>2, Collected DEF Known
<1> QED BY <1>1, <1>3, <1>4, <1>5 DEF GeneratorInv

LEMMA GeneratorNextInv ==
    GeneratorInv /\ [(ParserNext /\ UNCHANGED generatorVars) \/ GeneratorNext]_<<parserVars, generatorVars>>
        => GeneratorInv'
<1>1. ASSUME GeneratorInv, UNCHANGED <<parserVars, generatorVars>> PROVE GeneratorInv'
  <2>1. /\ UNCHANGED <<source, unread, m_tokens, ended, m_currentIndex, at, current, fieldName>>
        /\ UNCHANGED <<m_structures, m_customTypes, files, written>>
    BY <1>1 DEF parserVars, otherVars, inputVars, generatorVars
  <2>2. ParserOK' /\ Finished' /\ Known'
    BY <1>1, <2>1, DeclarationsKept DEF GeneratorInv, ParserOK, Finished, Known
  <2>3. at' \in Behind => Generated'
    BY <1>1, <2>1, FilesKept DEF GeneratorInv
  <2>4. GeneratesDeclared'
    BY <1>1, <2>1, DeclarationsKept DEF GeneratorInv, GeneratesDeclared
  <2> QED BY <2>2, <2>3, <2>4 DEF GeneratorInv
<1> QED
  BY <1>1, ParserNextInv, GenerateEnumInv, RegisterModelsInv, GenerateModelInv,
     GenerateModelFailsInv, WriteFilesInv
  DEF GeneratorNext

\* Whatever the files are: modelgen fails only if a field's type is not declared
\* anywhere, and what it writes for a name includes what its fields need, all of
\* it written (Generator).
THEOREM GeneratesDeclaredCorrect == ModelgenSpec => []GeneratesDeclared
<1>1. GeneratorInv => GeneratesDeclared
  BY DEF GeneratorInv
<1> QED BY <1>1, GeneratorInitInv, GeneratorNextInv, PTL DEF ModelgenSpec

----------------------------------------------------------------------------
(***************************************************************************)
(* The functions on strings, for strings of any length over any            *)
(* characters. split() and join() are loops: after n characters or values  *)
(* the loop's state is that of a shorter string, which is the induction.   *)
(***************************************************************************)

\* Induction over the numbers up to a bound.
LEMMA UpTo ==
    ASSUME NEW N \in Nat, NEW S, 0 \in S,
           \A n \in 0 .. N : n < N /\ n \in S => n + 1 \in S
    PROVE  0 .. N \subseteq S
<1> DEFINE Missing == {n \in 0 .. N : n \notin S}
           T == {N + 1 - n : n \in Missing}
<1> SUFFICES ASSUME Missing # {} PROVE FALSE
  OBVIOUS
<1>1. T \subseteq 1 .. N + 1 /\ T # {}
  <2>1. \A n \in Missing : n \in 1 .. N
    OBVIOUS
  <2> QED BY <2>1
<1>2. PICK m \in T : \A k \in T : k <= m
  <2>1. N + 1 \in Nat
    OBVIOUS
  <2> QED BY <1>1, <2>1, Largest
<1>3. PICK n \in Missing : m = N + 1 - n
  OBVIOUS
<1>4. n \in 1 .. N
  OBVIOUS
<1>5. n - 1 \in S
  <2> SUFFICES ASSUME n - 1 \notin S PROVE FALSE
    OBVIOUS
  <2>1. n - 1 \in Missing
    BY <1>4
  <2>2. N + 1 - (n - 1) \in T
    BY <2>1
  <2>3. N + 1 - (n - 1) <= m
    BY <1>2, <2>2
  <2> HIDE DEF Missing, T
  <2> QED BY <1>3, <1>4, <2>3
<1> QED BY <1>4, <1>5

\* A loop of N rounds that computes its next state from the last one, starting
\* from x, has a state after each of its rounds.
Round(N, X) == [1 .. N -> [X -> X]]

LoopStates(N, X, x, g) ==
    {f \in [0 .. N -> X] : f[0] = x /\ \A n \in 1 .. N : f[n] = g[n][f[n - 1]]}

LEMMA Rounds ==
    ASSUME NEW N \in Nat, NEW X, NEW x \in X, NEW g \in Round(N, X)
    PROVE  LoopStates(N, X, x, g) # {}
<1>0. g \in [1 .. N -> [X -> X]]
  BY DEF Round
<1> DEFINE Good(n, f) == f[0] = x /\ \A k \in 1 .. n : f[k] = g[k][f[k - 1]]
           S == {n \in 0 .. N : \E f \in [0 .. n -> X] : Good(n, f)}
<1>1. 0 \in S
  <2>1. [k \in 0 .. 0 |-> x] \in [0 .. 0 -> X] /\ Good(0, [k \in 0 .. 0 |-> x])
    OBVIOUS
  <2>2. PICK f \in [0 .. 0 -> X] : Good(0, f)
    BY <2>1
  <2>3. 0 \in 0 .. N
    OBVIOUS
  <2> HIDE DEF Good
  <2> QED BY <2>2, <2>3
<1>2. ASSUME NEW n \in 0 .. N, n < N, n \in S PROVE n + 1 \in S
  <2>1. PICK f \in [0 .. n -> X] : Good(n, f)
    BY <1>2
  <2> DEFINE h == [k \in 0 .. n + 1 |-> IF k = n + 1 THEN g[n + 1][f[n]] ELSE f[k]]
  <2>2. g[n + 1][f[n]] \in X
    <3>1. n + 1 \in 1 .. N /\ f[n] \in X
      BY <1>2
    <3> QED BY <1>0, <3>1
  <2>3. h \in [0 .. n + 1 -> X]
    BY <2>2
  <2>4. \A k \in 0 .. n : h[k] = f[k]
    OBVIOUS
  <2>5. h[n + 1] = g[n + 1][f[n]]
    OBVIOUS
  <2>6. \A k \in 1 .. n + 1 : h[k] = g[k][h[k - 1]]
    <3> TAKE k \in 1 .. n + 1
    <3>1. k - 1 \in 0 .. n /\ h[k - 1] = f[k - 1]
      BY <2>4
    <3> HIDE DEF h
    <3>2. CASE k = n + 1
      BY <2>5, <3>1, <3>2
    <3>3. CASE k # n + 1
      BY <2>1, <2>4, <3>1, <3>3
    <3> QED BY <3>2, <3>3
  <2>7. h[0] = x
    BY <2>1, <2>4
  <2>8. Good(n + 1, h)
    BY <2>6, <2>7
  <2>9. n + 1 \in 0 .. N
    BY <1>2
  <2> HIDE DEF h, Good
  <2> QED BY <2>3, <2>8, <2>9
<1>3. N \in S
  <2>1. N \in 0 .. N
    OBVIOUS
  <2> HIDE DEF S
  <2> QED BY <1>1, <1>2, <2>1, UpTo
<1> QED BY <1>3 DEF LoopStates

\* The state of split()'s loop behind the n-th character, from the one before.
NextSplit(str, n, last) ==
    IF str[n] # "/" THEN last
    ELSE [begin |-> n,
          output |-> IF n - 1 > last.begin
                     THEN Append(last.output, SubSeq(str, last.begin + 1, n - 1))
                     ELSE last.output]

LEMMA SplitRounds ==
    ASSUME NEW C, NEW str \in Seq(C)
    PROVE  \E state \in [0 .. Len(str) -> [begin : 0 .. Len(str), output : Seq(Seq(C))]] :
              /\ state[0] = [begin |-> 0, output |-> <<>>]
              /\ \A n \in 1 .. Len(str) : state[n] = NextSplit(str, n, state[n - 1])
              /\ splitLoop(str, "/") = state[Len(str)]
<1> DEFINE N == Len(str)
           X == [begin : 0 .. N, output : Seq(Seq(C))]
           x == [begin |-> 0, output |-> <<>>]
           g == [n \in 1 .. N |-> [last \in X |-> NextSplit(str, n, last)]]
           Unrolled(f) == [n \in 0 .. N |-> IF n = 0 THEN x ELSE NextSplit(str, n, f[n - 1])]
<1>1. N \in Nat /\ x \in X
  OBVIOUS
<1>2. ASSUME NEW n \in 1 .. N, NEW last \in X PROVE NextSplit(str, n, last) \in X
  <2>1. last.begin \in 0 .. N /\ last.output \in Seq(Seq(C))
    OBVIOUS
  <2>2. SubSeq(str, last.begin + 1, n - 1) \in Seq(C)
    <3>1. last.begin + 1 \in 1 .. N + 1 /\ n - 1 \in 0 .. N
      BY <2>1
    <3> QED BY <3>1, SubSeqProperties
  <2>3. Append(last.output, SubSeq(str, last.begin + 1, n - 1)) \in Seq(Seq(C))
    BY <2>1, <2>2, AppendProperties
  <2>4. n \in 0 .. N
    OBVIOUS
  <2> QED BY <2>1, <2>3, <2>4 DEF NextSplit
<1>3. g \in [1 .. N -> [X -> X]]
  BY <1>2
<1> HIDE DEF X, x
<1>4. PICK f \in [0 .. N -> X] : f[0] = x /\ \A n \in 1 .. N : f[n] = g[n][f[n - 1]]
  <2> HIDE DEF g, N
  <2>1. g \in Round(N, X)
    BY <1>3 DEF Round
  <2>2. LoopStates(N, X, x, g) # {}
    BY <1>1, <2>1, Rounds
  <2> QED BY <2>2 DEF LoopStates
<1>5. \A n \in 1 .. N : f[n] = NextSplit(str, n, f[n - 1])
  <2> TAKE n \in 1 .. N
  <2>1. n - 1 \in 0 .. N
    OBVIOUS
  <2>2. f[n - 1] \in X
    BY <1>4, <2>1
  <2> QED BY <1>4, <2>2
<1>6. f = Unrolled(f)
  BY <1>4, <1>5
<1>7. PICK state : state = Unrolled(state) /\ splitLoop(str, "/") = state[N]
  <2> DEFINE chosen == CHOOSE h : h = Unrolled(h)
  <2>1. chosen = Unrolled(chosen)
    <3> HIDE DEF Unrolled
    <3> QED BY <1>6
  <2>2. splitLoop(str, "/") = chosen[N]
    BY DEF splitLoop, NextSplit, x
  <2> HIDE DEF chosen, Unrolled
  <2> QED BY <2>1, <2>2
<1>8. state[0] = x /\ \A n \in 1 .. N : state[n] = NextSplit(str, n, state[n - 1])
  <2> DEFINE unrolled == Unrolled(state)
  <2>1. unrolled[0] = x
    OBVIOUS
  <2>2. \A n \in 1 .. N : unrolled[n] = NextSplit(str, n, state[n - 1])
    OBVIOUS
  <2>3. state = unrolled
    BY <1>7
  <2> HIDE DEF unrolled
  <2> QED BY <2>1, <2>2, <2>3
<1>9. state \in [0 .. N -> X]
  <2> DEFINE S == {n \in 0 .. N : state[n] \in X}
  <2>1. 0 \in S
    BY <1>1, <1>8
  <2>2. \A n \in 0 .. N : n < N /\ n \in S => n + 1 \in S
    <3> TAKE n \in 0 .. N
    <3> HAVE n < N /\ n \in S
    <3>1. n + 1 \in 1 .. N /\ (n + 1) - 1 = n
      OBVIOUS
    <3>2. state[n + 1] = NextSplit(str, n + 1, state[n])
      BY <1>8, <3>1
    <3> QED BY <1>2, <3>1, <3>2
  <2>3. 0 .. N \subseteq S
    <3> HIDE DEF S
    <3> QED BY <1>1, <2>1, <2>2, UpTo
  <2> QED BY <1>7, <2>3
<1> QED BY <1>7, <1>8, <1>9 DEF X, x

\* The least number of a set of numbers above a bound.
LEMMA Least ==
    ASSUME NEW S, NEW m \in S, S \subseteq Nat, \A n \in S : m <= n
    PROVE  Min(S) = m
<1>1. \A x \in S : (\A n \in S : x <= n) => x = m
  <2> TAKE x \in S
  <2> HAVE \A n \in S : x <= n
  <2>1. x <= m /\ m <= x /\ x \in Nat /\ m \in Nat
    OBVIOUS
  <2> QED BY <2>1
<1> DEFINE least == CHOOSE x \in S : \A n \in S : x <= n
<1>2. least \in S /\ \A n \in S : least <= n
  OBVIOUS
<1>3. Min(S) = least
  BY DEF Min
<1> HIDE DEF least
<1> QED BY <1>1, <1>2, <1>3

\* The starts in front of a place are finitely many.
StartsTo(str, n) == {s \in Starts(str) : s <= n}

LEMMA StartsFinite ==
    ASSUME NEW C, NEW str \in Seq(C), NEW n
    PROVE  /\ IsFiniteSet(StartsTo(str, n)) /\ Cardinality(StartsTo(str, n)) \in Nat
           /\ Starts(str) \subseteq 1 .. Len(str) /\ DOMAIN str = 1 .. Len(str)
           /\ IsFiniteSet(Starts(str)) /\ Cardinality(Starts(str)) \in Nat
           /\ StartsTo(str, Len(str)) = Starts(str)
           /\ \A s : Rank(str, s) = Cardinality(StartsTo(str, s))
<1>1. Starts(str) \subseteq 1 .. Len(str) /\ Len(str) \in Nat /\ DOMAIN str = 1 .. Len(str)
  BY DEF Starts
<1>2. IsFiniteSet(1 .. Len(str))
  BY <1>1, FS_Interval
<1>3. StartsTo(str, n) \in SUBSET (1 .. Len(str)) /\ Starts(str) \in SUBSET (1 .. Len(str))
  BY <1>1 DEF StartsTo
<1>4. StartsTo(str, Len(str)) = Starts(str)
  BY <1>1 DEF StartsTo
<1>5. IsFiniteSet(StartsTo(str, n)) /\ IsFiniteSet(Starts(str))
  BY <1>2, <1>3, FS_Subset
<1> QED BY <1>1, <1>4, <1>5, FS_CardinalityType DEF Rank, StartsTo

\* The starts have the ranks from 1 to their number.
LEMMA Ranks ==
    ASSUME NEW C, NEW str \in Seq(C)
    PROVE  /\ \A s \in Starts(str) : Rank(str, s) \in 1 .. Cardinality(Starts(str))
           /\ \A r, s \in Starts(str) : Rank(str, r) = Rank(str, s) => r = s
           /\ \A n \in 1 .. Cardinality(Starts(str)) : \E s \in Starts(str) : Rank(str, s) = n
<1> DEFINE S == Starts(str)
           T == 1 .. Cardinality(S)
<1>0. /\ S \subseteq Nat /\ IsFiniteSet(S) /\ Cardinality(S) \in Nat
      /\ \A s : Rank(str, s) = Cardinality(StartsTo(str, s))
  BY StartsFinite
<1>1. ASSUME NEW s \in S
      PROVE  /\ IsFiniteSet(StartsTo(str, s)) /\ StartsTo(str, s) \in SUBSET S
             /\ s \in StartsTo(str, s) /\ Rank(str, s) \in 1 .. Cardinality(S)
  <2>1. StartsTo(str, s) \in SUBSET S /\ s \in StartsTo(str, s)
    BY <1>0 DEF StartsTo
  <2>2. /\ IsFiniteSet(StartsTo(str, s)) /\ Cardinality(StartsTo(str, s)) <= Cardinality(S)
        /\ Cardinality(StartsTo(str, s)) \in Nat
    BY <1>0, <2>1, FS_Subset, FS_CardinalityType
  <2>3. Cardinality(StartsTo(str, s)) # 0
    BY <2>1, <2>2, FS_EmptySet
  <2> QED BY <1>0, <2>1, <2>2, <2>3
<1>2. ASSUME NEW r \in S, NEW s \in S, r < s PROVE Rank(str, r) # Rank(str, s)
  <2>1. StartsTo(str, r) \in SUBSET StartsTo(str, s) /\ s \notin StartsTo(str, r)
    BY <1>0, <1>2 DEF StartsTo
  <2> QED BY <1>0, <1>1, <2>1, FS_Subset
<1>3. \A r, s \in S : Rank(str, r) = Rank(str, s) => r = s
  <2> TAKE r, s \in S
  <2>1. r < s \/ s < r \/ r = s
    BY <1>0
  <2> QED BY <1>2, <2>1
<1> DEFINE f == [s \in S |-> Rank(str, s)]
<1>4. f \in [S -> T]
  BY <1>1
<1>5. f \in Injection(S, T)
  <2>1. \A r, s \in S : f[r] = f[s] => r = s
    BY <1>3
  <2> HIDE DEF f, T
  <2> QED BY <1>4, <2>1 DEF Injection, IsInjective
<1>6. IsFiniteSet(T) /\ Cardinality(T) = Cardinality(S)
  BY <1>0, FS_Interval
<1>7. f \in Surjection(S, T)
  <2> HIDE DEF f, T, S
  <2> QED BY <1>5, <1>6, FS_Injection
<1>8. \A n \in T : \E s \in S : f[s] = n
  <2> HIDE DEF f, T, S
  <2> QED BY <1>7 DEF Surjection
<1>9. \A n \in T : \E s \in S : Rank(str, s) = n
  BY <1>8
<1> QED BY <1>1, <1>3, <1>9

\* The sequence that has each part in the place of its rank is that of the parts.
LEMMA PartsByRank ==
    ASSUME NEW C, NEW str \in Seq(C), NEW D, NEW output \in Seq(D),
           Len(output) = Cardinality(Starts(str)),
           \A s \in Starts(str) : output[Rank(str, s)] = PartFrom(str, s)
    PROVE  output = Parts(str)
<1>1. /\ DOMAIN output = 1 .. Cardinality(Starts(str))
      /\ output = [n \in 1 .. Cardinality(Starts(str)) |-> output[n]]
  OBVIOUS
<1>2. ASSUME NEW n \in 1 .. Cardinality(Starts(str))
      PROVE  output[n] = PartFrom(str, CHOOSE start \in Starts(str) : Rank(str, start) = n)
  <2> DEFINE start == CHOOSE start \in Starts(str) : Rank(str, start) = n
  <2>1. start \in Starts(str) /\ Rank(str, start) = n
    BY Ranks
  <2> HIDE DEF start
  <2>2. output[n] = PartFrom(str, start)
    BY <2>1
  <2> QED BY <2>2 DEF start
<1> QED BY <1>1, <1>2 DEF Parts

\* A stretch without separators: b is 0 or a separator, n the next separator or
\* the end. If there are characters in between they are a part, the only one
\* that starts between b and n.
Stretch(str, b, n) ==
    /\ b \in 0 .. Len(str) /\ n \in 1 .. Len(str) + 1 /\ b < n
    /\ b > 0 => str[b] = "/"
    /\ n <= Len(str) => str[n] = "/"
    /\ \A k \in b + 1 .. n - 1 : str[k] # "/"

LEMMA StretchIsPart ==
    ASSUME NEW C, NEW str \in Seq(C), NEW b, NEW n, Stretch(str, b, n)
    PROVE  /\ n - 1 > b => /\ b + 1 \in Starts(str)
                           /\ PartFrom(str, b + 1) = SubSeq(str, b + 1, n - 1)
                           /\ StartsTo(str, n) = StartsTo(str, b) \cup {b + 1}
           /\ ~ (n - 1 > b) => StartsTo(str, n) = StartsTo(str, b)
<1>1. /\ Len(str) \in Nat /\ DOMAIN str = 1 .. Len(str)
      /\ b \in 0 .. Len(str) /\ n \in 1 .. Len(str) + 1 /\ b < n /\ b \in Nat /\ n \in Nat
  BY DEF Stretch
<1>2. \A k \in Starts(str) : k \in 1 .. Len(str) /\ str[k] # "/" /\ (k > 1 => str[k - 1] = "/")
  BY <1>1 DEF Starts
<1>3. \A k \in Starts(str) : k <= n /\ ~ (k <= b) => k = b + 1 /\ n - 1 > b
  <2> SUFFICES ASSUME NEW k \in Starts(str), k <= n, ~ (k <= b) PROVE k = b + 1 /\ n - 1 > b
    OBVIOUS
  <2>1. k \in 1 .. Len(str) /\ str[k] # "/"
    BY <1>2
  <2>2. k # n
    BY <1>1, <2>1 DEF Stretch
  <2>3. n - 1 > b
    BY <1>1, <2>1, <2>2
  <2>4. CASE k > b + 1
    <3>1. str[k - 1] = "/" /\ k - 1 \in b + 1 .. n - 1
      BY <1>1, <1>2, <2>1, <2>2, <2>4
    <3> QED BY <3>1 DEF Stretch
  <2> QED BY <1>1, <2>1, <2>3, <2>4
<1>4. ASSUME n - 1 > b PROVE b + 1 \in Starts(str) /\ PartFrom(str, b + 1) = SubSeq(str, b + 1, n - 1)
  <2>1. b + 1 \in 1 .. Len(str) /\ str[b + 1] # "/" /\ (b + 1 > 1 => str[(b + 1) - 1] = "/")
    BY <1>1, <1>4 DEF Stretch
  <2> DEFINE ends == {k \in DOMAIN str : str[k] = "/"} \cup {Len(str) + 1}
             S == {k \in ends : k > b + 1}
  <2>2. n \in S
    BY <1>1, <1>4 DEF Stretch
  <2>3. S \subseteq Nat
    BY <1>1
  <2>4. \A k \in S : n <= k
    <3> SUFFICES ASSUME NEW k \in S, k < n PROVE FALSE
      BY <1>1, <2>3
    <3>1. k \in 1 .. Len(str) /\ str[k] = "/"
      BY <1>1
    <3>2. k \in b + 1 .. n - 1
      BY <1>1, <3>1
    <3> QED BY <3>1, <3>2 DEF Stretch
  <2>5. Min(S) = n
    <3> HIDE DEF S
    <3> QED BY <2>2, <2>3, <2>4, Least
  <2>6. PartFrom(str, b + 1) = SubSeq(str, b + 1, Min(S) - 1)
    BY DEF PartFrom
  <2> HIDE DEF S
  <2> QED BY <1>1, <2>1, <2>5, <2>6 DEF Starts
<1>5. StartsTo(str, n) \subseteq StartsTo(str, b) \cup (IF n - 1 > b THEN {b + 1} ELSE {})
  BY <1>3 DEF StartsTo
<1>6. StartsTo(str, b) \subseteq StartsTo(str, n)
  BY <1>1, <1>2 DEF StartsTo
<1>7. n - 1 > b => b + 1 \in StartsTo(str, n)
  BY <1>1, <1>4 DEF StartsTo
<1> QED BY <1>4, <1>5, <1>6, <1>7

\* What has been put out when all in front of b has been looked at.
PutOut(str, b, output) ==
    /\ Len(output) = Cardinality(StartsTo(str, b))
    /\ \A s \in StartsTo(str, b) : output[Rank(str, s)] = PartFrom(str, s)

\* A stretch is looked at: its part is put out if there is one.
LEMMA CollectStretch ==
    ASSUME NEW C, NEW str \in Seq(C), NEW b, NEW n, Stretch(str, b, n),
           NEW output \in Seq(Seq(C)), PutOut(str, b, output)
    PROVE  PutOut(str, n, IF n - 1 > b THEN Append(output, SubSeq(str, b + 1, n - 1)) ELSE output)
<1>1. CASE ~ (n - 1 > b)
  BY <1>1, StretchIsPart DEF PutOut
<1>2. CASE n - 1 > b
  <2> DEFINE part == SubSeq(str, b + 1, n - 1)
             after == Append(output, part)
  <2>0. b \in Nat /\ n \in Nat /\ Len(str) \in Nat /\ b <= Len(str) /\ n <= Len(str) + 1
    BY DEF Stretch
  <2>1. /\ b + 1 \in Starts(str) /\ PartFrom(str, b + 1) = part
        /\ StartsTo(str, n) = StartsTo(str, b) \cup {b + 1}
    BY <1>2, StretchIsPart
  <2>2. part \in Seq(C)
    BY <1>2, <2>0, SubSeqProperties
  <2>3. /\ Len(after) = Len(output) + 1 /\ after[Len(output) + 1] = part
        /\ \A k \in 1 .. Len(output) : after[k] = output[k]
    <3> HIDE DEF part
    <3> QED BY <2>2, AppendProperties
  <2>. Starts(str) \subseteq 1 .. Len(str) /\ IsFiniteSet(StartsTo(str, b))
    BY StartsFinite
  <2>4. b + 1 \notin StartsTo(str, b)
    BY <2>0 DEF StartsTo
  <2>5. Cardinality(StartsTo(str, n)) = Len(output) + 1
    BY <2>1, <2>4, FS_AddElement DEF PutOut
  <2>6. StartsTo(str, b + 1) = StartsTo(str, n)
    <3>1. \A s \in StartsTo(str, n) : s <= b + 1
      <4>1. \A s \in StartsTo(str, b) : s \in Nat /\ s <= b
        BY DEF StartsTo
      <4> QED BY <2>0, <2>1, <4>1
    <3>2. \A s \in Starts(str) : s \in Nat
      OBVIOUS
    <3>3. \A s \in Starts(str) : s <= b + 1 => s <= n
      BY <1>2, <2>0, <3>2
    <3> QED BY <3>1, <3>3 DEF StartsTo
  <2>7. Rank(str, b + 1) = Len(output) + 1
    BY <2>5, <2>6, StartsFinite
  <2>8. ASSUME NEW s \in StartsTo(str, b) PROVE Rank(str, s) \in 1 .. Len(output)
    <3>1. /\ s \in Nat /\ StartsTo(str, s) \in SUBSET StartsTo(str, b) /\ s \in StartsTo(str, s)
      <4>1. \A r \in Starts(str) : r \in Nat
        OBVIOUS
      <4> QED BY <2>0, <4>1 DEF StartsTo
    <3>2. /\ IsFiniteSet(StartsTo(str, s)) /\ Cardinality(StartsTo(str, s)) \in Nat
          /\ Cardinality(StartsTo(str, s)) <= Cardinality(StartsTo(str, b))
      BY <2>4, <3>1, StartsFinite, FS_Subset
    <3>3. Cardinality(StartsTo(str, s)) # 0
      BY <3>1, <3>2, FS_EmptySet
    <3>4. Rank(str, s) = Cardinality(StartsTo(str, s))
      BY StartsFinite
    <3> QED BY <3>2, <3>3, <3>4 DEF PutOut
  <2>9. \A s \in StartsTo(str, n) : after[Rank(str, s)] = PartFrom(str, s)
    <3> TAKE s \in StartsTo(str, n)
    <3>1. CASE s \in StartsTo(str, b)
      BY <2>3, <2>8, <3>1 DEF PutOut
    <3>2. CASE s = b + 1
      BY <2>1, <2>3, <2>7, <3>2
    <3> QED BY <2>1, <3>1, <3>2
  <2> HIDE DEF after
  <2>10. PutOut(str, n, after)
    BY <2>3, <2>5, <2>9 DEF PutOut
  <2> QED BY <1>2, <2>10 DEF after
<1> QED BY <1>1, <1>2

\* split() yields the parts.
LEMMA SplitIsParts ==
    ASSUME NEW C, NEW str \in Seq(C)
    PROVE  split(str, "/") = Parts(str) /\ split(str, "/") \in Seq(Seq(C))
<1> DEFINE N == Len(str)
           X == [begin : 0 .. N, output : Seq(Seq(C))]
<1>1. PICK state \in [0 .. N -> X] :
              /\ state[0] = [begin |-> 0, output |-> <<>>]
              /\ \A n \in 1 .. N : state[n] = NextSplit(str, n, state[n - 1])
              /\ splitLoop(str, "/") = state[N]
  BY SplitRounds
<1> DEFINE After(n) ==
              /\ state[n].begin <= n
              /\ state[n].begin > 0 => str[state[n].begin] = "/"
              /\ \A k \in state[n].begin + 1 .. n : str[k] # "/"
              /\ PutOut(str, state[n].begin, state[n].output)
           S == {n \in 0 .. N : After(n)}
<1>2. N \in Nat /\ Starts(str) \subseteq 1 .. N
  BY StartsFinite
<1>3. \A n \in 0 .. N : state[n].begin \in 0 .. N /\ state[n].output \in Seq(Seq(C))
  BY <1>1
<1>4. 0 \in S
  <2>1. StartsTo(str, 0) = {}
    BY <1>2 DEF StartsTo
  <2>2. PutOut(str, 0, <<>>)
    BY <2>1, FS_EmptySet DEF PutOut
  <2>3. state[0].begin = 0 /\ state[0].output = <<>>
    BY <1>1
  <2>4. 0 \in 0 .. N /\ \A k \in 0 + 1 .. 0 : FALSE
    BY <1>2
  <2>5. After(0)
    BY <2>2, <2>3, <2>4
  <2> HIDE DEF N, After
  <2> QED BY <2>4, <2>5
<1>5. ASSUME NEW n \in 0 .. N, n < N, n \in S PROVE n + 1 \in S
  <2> DEFINE last == state[n]
             b == last.begin
  <2>1. n + 1 \in 1 .. N /\ (n + 1) - 1 = n
    BY <1>5
  <2>2. state[n + 1] = NextSplit(str, n + 1, last)
    BY <1>1, <2>1
  <2>3. After(n) /\ b \in 0 .. N /\ last.output \in Seq(Seq(C))
    BY <1>3, <1>5
  <2>4. CASE str[n + 1] # "/"
    <3>1. state[n + 1] = last
      BY <2>2, <2>4 DEF NextSplit
    <3>2. \A k \in b + 1 .. n + 1 : k \in b + 1 .. n \/ k = n + 1
      BY <2>3
    <3>3. After(n + 1)
      BY <2>1, <2>3, <2>4, <3>1, <3>2
    <3> QED BY <2>1, <3>3
  <2>5. CASE str[n + 1] = "/"
    <3>1. Stretch(str, b, n + 1)
      BY <2>1, <2>3, <2>5 DEF Stretch
    <3> DEFINE output == IF (n + 1) - 1 > b THEN Append(last.output, SubSeq(str, b + 1, (n + 1) - 1))
                         ELSE last.output
    <3>2. PutOut(str, n + 1, output)
      BY <2>3, <3>1, CollectStretch
    <3>3. state[n + 1].begin = n + 1 /\ state[n + 1].output = output
      BY <2>1, <2>2, <2>5 DEF NextSplit
    <3> HIDE DEF output
    <3>4. After(n + 1)
      BY <2>1, <2>5, <3>2, <3>3
    <3> QED BY <2>1, <3>4
  <2> QED BY <2>4, <2>5
<1>6. N \in S
  <2>1. \A n \in 0 .. N : n < N /\ n \in S => n + 1 \in S
    BY <1>5
  <2>2. N \in 0 .. N
    BY <1>2
  <2> HIDE DEF S, N
  <2> QED BY <1>2, <1>4, <2>1, <2>2, UpTo
<1> DEFINE last == state[N]
           b == last.begin
<1>7. After(N) /\ b \in 0 .. N /\ last.output \in Seq(Seq(C)) /\ splitLoop(str, "/") = last
  BY <1>1, <1>2, <1>3, <1>6
<1>8. CASE b = N
  <2>1. split(str, "/") = last.output
    BY <1>7, <1>8 DEF split
  <2>2. PutOut(str, N, last.output) /\ StartsTo(str, N) = Starts(str)
    BY <1>7, <1>8, StartsFinite
  <2> HIDE DEF last, N
  <2>3. last.output = Parts(str)
    BY <1>7, <2>2, PartsByRank DEF PutOut
  <2> QED BY <1>7, <2>1, <2>3
<1>9. CASE b # N
  <2> DEFINE output == Append(last.output, SubSeq(str, b + 1, N))
  <2>1. split(str, "/") = output
    BY <1>7, <1>9 DEF split
  <2>2. Stretch(str, b, N + 1) /\ (N + 1) - 1 = N /\ N > b
    BY <1>2, <1>7, <1>9 DEF Stretch
  <2>3. PutOut(str, N + 1, IF (N + 1) - 1 > b THEN Append(last.output, SubSeq(str, b + 1, (N + 1) - 1))
                              ELSE last.output)
    BY <1>7, <2>2, CollectStretch
  <2>4. PutOut(str, N + 1, output)
    <3> HIDE DEF last, N, b
    <3> QED BY <2>2, <2>3
  <2>5. StartsTo(str, N + 1) = Starts(str)
    BY <1>2 DEF StartsTo
  <2>6. output \in Seq(Seq(C))
    <3>1. SubSeq(str, b + 1, N) \in Seq(C)
      BY <1>2, <1>7, SubSeqProperties
    <3> HIDE DEF N, b
    <3> QED BY <1>7, <3>1, AppendProperties
  <2> HIDE DEF output
  <2>7. output = Parts(str)
    BY <2>4, <2>5, <2>6, PartsByRank DEF PutOut
  <2> QED BY <2>1, <2>6, <2>7
<1> QED BY <1>8, <1>9

----------------------------------------------------------------------------
\* The part that starts somewhere ends at the next separator or at the end.
LEMMA PartEnds ==
    ASSUME NEW C, NEW str \in Seq(C), NEW s \in Starts(str)
    PROVE  \E n \in 1 .. Len(str) + 1 :
              /\ Stretch(str, s - 1, n) /\ n > s
              /\ PartFrom(str, s) = SubSeq(str, s, n - 1)
<1> DEFINE N == Len(str) + 1
           ends == {k \in 1 .. Len(str) : str[k] = "/" /\ k > s} \cup {N}
           T == {N + 1 - k : k \in ends}
<1>1. /\ Len(str) \in Nat /\ DOMAIN str = 1 .. Len(str)
      /\ s \in 1 .. Len(str) /\ str[s] # "/" /\ (s > 1 => str[s - 1] = "/")
  BY DEF Starts
<1>2. T \subseteq 1 .. N /\ T # {} /\ N \in Nat /\ ends \subseteq 1 .. N
  <2>1. ends \subseteq 1 .. N /\ N \in ends /\ N \in Nat
    BY <1>1
  <2> HIDE DEF ends, N
  <2> QED BY <2>1
<1>3. PICK m \in T : \A k \in T : k <= m
  <2> HIDE DEF T, N
  <2> QED BY <1>2, Largest
<1>4. PICK n \in ends : m = N + 1 - n
  OBVIOUS
<1>5. \A k \in ends : n <= k
  <2> TAKE k \in ends
  <2>1. N + 1 - k \in T
    OBVIOUS
  <2>2. N + 1 - k <= N + 1 - n
    BY <1>3, <1>4, <2>1
  <2>3. k \in Nat /\ n \in Nat /\ N \in Nat
    BY <1>2
  <2> HIDE DEF T, ends, N
  <2> QED BY <2>2, <2>3
<1>6. n \in 1 .. Len(str) + 1 /\ n > s /\ (n <= Len(str) => str[n] = "/")
  BY <1>1
<1>7. \A k \in s .. n - 1 : str[k] # "/"
  <2> SUFFICES ASSUME NEW k \in s .. n - 1, str[k] = "/" PROVE FALSE
    OBVIOUS
  <2>1. k \in 1 .. Len(str) /\ k > s
    BY <1>1, <1>6
  <2>2. k \in ends
    BY <2>1
  <2>3. n <= k
    BY <1>5, <2>2
  <2> QED BY <1>6, <2>1, <2>3
<1>8. Stretch(str, s - 1, n)
  <2>1. (s - 1) + 1 = s /\ s - 1 \in 0 .. Len(str) /\ s - 1 < n /\ (s - 1 > 0 => str[s - 1] = "/")
    BY <1>1, <1>6
  <2> HIDE DEF ends, T
  <2> QED BY <1>6, <1>7, <2>1 DEF Stretch
<1>9. PartFrom(str, s) = SubSeq(str, s, n - 1)
  <2>1. (s - 1) + 1 = s /\ n - 1 > s - 1
    BY <1>1, <1>6
  <2>2. PartFrom(str, (s - 1) + 1) = SubSeq(str, (s - 1) + 1, n - 1)
    BY <1>8, <2>1, StretchIsPart
  <2> QED BY <2>1, <2>2
<1> QED BY <1>6, <1>8, <1>9

\* A part starts in the same place and is the same part in two strings that are
\* alike up to its end.
LEMMA SamePart ==
    ASSUME NEW C, NEW str \in Seq(C), NEW D, NEW other \in Seq(D), NEW b, NEW n,
           Stretch(str, b, n), n - 1 > b, n - 1 <= Len(other),
           n <= Len(other) => other[n] = "/",
           \A k \in 1 .. n - 1 : other[k] = str[k]
    PROVE  PartFrom(other, b + 1) = PartFrom(str, b + 1)
<1>1. /\ b \in Nat /\ n \in Nat /\ Len(str) \in Nat /\ Len(other) \in Nat /\ n - 1 <= Len(str)
      /\ b + 1 \in Nat /\ n - 1 \in Nat
  BY DEF Stretch
<1>2. Stretch(other, b, n)
  <2>1. b \in 0 .. Len(other) /\ n \in 1 .. Len(other) + 1 /\ b < n
    BY <1>1
  <2>2. b > 0 => other[b] = "/"
    <3>1. b > 0 => b \in 1 .. n - 1
      BY <1>1
    <3> QED BY <3>1 DEF Stretch
  <2>3. \A k \in b + 1 .. n - 1 : other[k] # "/"
    <3>1. \A k \in b + 1 .. n - 1 : k \in 1 .. n - 1
      BY <1>1
    <3> QED BY <3>1 DEF Stretch
  <2> QED BY <2>1, <2>2, <2>3 DEF Stretch
<1>3. /\ PartFrom(other, b + 1) = SubSeq(other, b + 1, n - 1)
      /\ PartFrom(str, b + 1) = SubSeq(str, b + 1, n - 1)
  BY <1>2, StretchIsPart
<1>4. SubSeq(other, b + 1, n - 1) = SubSeq(str, b + 1, n - 1)
  <2>1. /\ SubSeq(other, b + 1, n - 1) = [k \in 1 .. (n - 1) - (b + 1) + 1 |-> other[k + (b + 1) - 1]]
        /\ SubSeq(str, b + 1, n - 1) = [k \in 1 .. (n - 1) - (b + 1) + 1 |-> str[k + (b + 1) - 1]]
    BY <1>1
  <2>2. \A k \in 1 .. (n - 1) - (b + 1) + 1 : k + (b + 1) - 1 \in 1 .. n - 1
    BY <1>1
  <2>3. \A k \in 1 .. (n - 1) - (b + 1) + 1 : other[k + (b + 1) - 1] = str[k + (b + 1) - 1]
    BY <2>2
  <2> QED BY <2>1, <2>3
<1> QED BY <1>3, <1>4

\* A string that is empty or ends with a separator, with a further part and a
\* separator behind it: it has the same parts and this one.
LEMMA PartAdded ==
    ASSUME NEW D, NEW str \in Seq(D), str # <<>> => str[Len(str)] = "/",
           NEW part \in Seq(D), part # <<>>, \A k \in 1 .. Len(part) : part[k] # "/",
           "/" \in D
    PROVE  LET longer == str \o part \o <<"/">>
           IN /\ longer \in Seq(D) /\ longer # <<>> /\ longer[Len(longer)] = "/"
              /\ Starts(longer) = Starts(str) \cup {Len(str) + 1}
              /\ \A s \in Starts(str) : PartFrom(longer, s) = PartFrom(str, s)
              /\ PartFrom(longer, Len(str) + 1) = part
<1> DEFINE N == Len(str)
           M == Len(part)
           longer == str \o part \o <<"/">>
<1>1. /\ N \in Nat /\ M \in Nat \ {0} /\ longer \in Seq(D) /\ Len(longer) = N + M + 1
      /\ \A k \in 1 .. N : longer[k] = str[k]
      /\ \A k \in 1 .. M : longer[N + k] = part[k]
      /\ longer[N + M + 1] = "/"
  <2> DEFINE front == str \o part
  <2>1. N \in Nat /\ M \in Nat /\ M # 0
    OBVIOUS
  <2>2. /\ front \in Seq(D) /\ Len(front) = N + M
        /\ \A k \in 1 .. N + M : front[k] = IF k <= N THEN str[k] ELSE part[k - N]
    BY ConcatProperties
  <2>3. /\ <<"/">> \in Seq(D) /\ Len(<<"/">>) = 1 /\ <<"/">>[1] = "/"
    OBVIOUS
  <2> HIDE DEF front, N, M
  <2>4. /\ front \o <<"/">> \in Seq(D) /\ Len(front \o <<"/">>) = N + M + 1
        /\ \A k \in 1 .. N + M + 1 :
              (front \o <<"/">>)[k] = IF k <= N + M THEN front[k] ELSE <<"/">>[k - (N + M)]
    BY <2>1, <2>2, <2>3, ConcatProperties
  <2>5. longer = front \o <<"/">>
    BY DEF front
  <2> HIDE DEF longer
  <2>6. \A k \in 1 .. N : longer[k] = str[k]
    BY <2>1, <2>2, <2>4, <2>5
  <2>7. \A k \in 1 .. M : longer[N + k] = part[k]
    <3> TAKE k \in 1 .. M
    <3>1. N + k \in 1 .. N + M /\ N + k \in 1 .. N + M + 1 /\ N + k <= N + M /\ ~ (N + k <= N) /\ (N + k) - N = k
      BY <2>1
    <3> QED BY <2>2, <2>4, <2>5, <3>1
  <2>8. longer[N + M + 1] = "/"
    <3>1. N + M + 1 \in 1 .. N + M + 1 /\ ~ (N + M + 1 <= N + M) /\ (N + M + 1) - (N + M) = 1
      BY <2>1
    <3> QED BY <2>3, <2>4, <2>5, <3>1
  <2> QED BY <2>1, <2>4, <2>5, <2>6, <2>7, <2>8
<1>2. /\ DOMAIN longer = 1 .. N + M + 1 /\ DOMAIN str = 1 .. N
      /\ N > 0 => N \in 1 .. N /\ str[N] = "/"
  BY <1>1
<1> HIDE DEF longer, N, M
<1>3. \A k \in 1 .. M : longer[N + k] # "/"
  BY <1>1 DEF M
<1>4. N > 0 => longer[N] = "/"
  BY <1>1, <1>2
<1>5. Stretch(longer, N, N + M + 1) /\ (N + M + 1) - 1 > N
  <2>1. \A k \in N + 1 .. (N + M + 1) - 1 : longer[k] # "/"
    <3> TAKE k \in N + 1 .. (N + M + 1) - 1
    <3>1. k - N \in 1 .. M /\ k = N + (k - N)
      BY <1>1
    <3> QED BY <1>3, <3>1
  <2> QED BY <1>1, <1>4, <2>1 DEF Stretch
<1>6. N + 1 \in Starts(longer) /\ PartFrom(longer, N + 1) = part
  <2>1. N + 1 \in Starts(longer) /\ PartFrom(longer, N + 1) = SubSeq(longer, N + 1, (N + M + 1) - 1)
    <3> DEFINE top == N + M + 1
    <3> HIDE DEF top
    <3>1. Stretch(longer, N, top) /\ top - 1 > N /\ longer \in Seq(D)
      BY <1>1, <1>5 DEF top
    <3>2. N + 1 \in Starts(longer) /\ PartFrom(longer, N + 1) = SubSeq(longer, N + 1, top - 1)
      BY <3>1, StretchIsPart
    <3> QED BY <3>2 DEF top
  <2>2. SubSeq(longer, N + 1, (N + M + 1) - 1)
            = [k \in 1 .. ((N + M + 1) - 1) - (N + 1) + 1 |-> longer[k + (N + 1) - 1]]
    BY <1>1
  <2>3. ((N + M + 1) - 1) - (N + 1) + 1 = M /\ \A k \in 1 .. M : k + (N + 1) - 1 = N + k
    BY <1>1
  <2>4. SubSeq(longer, N + 1, (N + M + 1) - 1) = [k \in 1 .. M |-> part[k]]
    BY <1>1, <2>2, <2>3
  <2>5. part = [k \in 1 .. M |-> part[k]]
    BY DEF M
  <2> QED BY <2>1, <2>4, <2>5
<1>7. ASSUME NEW s \in Starts(longer) PROVE s \in Starts(str) \/ s = N + 1
  <2>1. s \in 1 .. N + M + 1 /\ longer[s] # "/" /\ (s > 1 => longer[s - 1] = "/")
    BY <1>2 DEF Starts
  <2>2. s # N + M + 1
    BY <1>1, <2>1
  <2>3. CASE s \in 1 .. N
    <3>1. s > 1 => s - 1 \in 1 .. N
      BY <1>1, <2>3
    <3> QED BY <1>1, <1>2, <2>1, <2>3, <3>1 DEF Starts
  <2>4. CASE s > N + 1
    <3>1. (s - 1) - N \in 1 .. M /\ s - 1 = N + ((s - 1) - N) /\ s > 1
      BY <1>1, <2>1, <2>2, <2>4
    <3> QED BY <1>3, <2>1, <3>1
  <2> QED BY <1>1, <2>1, <2>3, <2>4
<1>8. ASSUME NEW s \in Starts(str)
      PROVE  s \in Starts(longer) /\ PartFrom(longer, s) = PartFrom(str, s)
  <2>1. s \in 1 .. N /\ str[s] # "/" /\ (s > 1 => str[s - 1] = "/")
    BY <1>2 DEF Starts
  <2>2. s \in Starts(longer)
    <3>1. s \in 1 .. N + M + 1 /\ (s > 1 => s - 1 \in 1 .. N)
      BY <1>1, <2>1
    <3> QED BY <1>1, <1>2, <2>1, <3>1 DEF Starts
  <2>3. PICK n \in 1 .. N + 1 : Stretch(str, s - 1, n) /\ n > s
    BY PartEnds DEF N
  <2>4. n \in 1 .. N
    <3>1. n # N + 1
      <4> SUFFICES ASSUME n = N + 1 PROVE FALSE
        OBVIOUS
      <4>1. N \in (s - 1) + 1 .. n - 1 /\ str[N] = "/"
        BY <1>1, <1>2, <2>1
      <4> QED BY <2>3, <4>1 DEF Stretch
    <3> QED BY <1>1, <2>3, <3>1
  <2>5. /\ n - 1 > s - 1 /\ n - 1 <= Len(longer) /\ n <= Len(str) /\ (s - 1) + 1 = s
        /\ \A k \in 1 .. n - 1 : k \in 1 .. N
    BY <1>1, <2>1, <2>3, <2>4 DEF N
  <2>6. longer[n] = "/"
    BY <1>1, <2>3, <2>4, <2>5 DEF Stretch
  <2>7. PartFrom(longer, (s - 1) + 1) = PartFrom(str, (s - 1) + 1)
    <3> DEFINE b == s - 1
    <3> HIDE DEF b
    <3>1. /\ Stretch(str, b, n) /\ n - 1 > b /\ n - 1 <= Len(longer) /\ longer \in Seq(D)
          /\ n <= Len(longer) => longer[n] = "/"
          /\ \A k \in 1 .. n - 1 : longer[k] = str[k]
      BY <1>1, <2>3, <2>5, <2>6 DEF b
    <3>2. PartFrom(longer, b + 1) = PartFrom(str, b + 1)
      BY <3>1, SamePart
    <3> QED BY <3>2 DEF b
  <2> QED BY <2>2, <2>5, <2>7
<1>9. Starts(longer) = Starts(str) \cup {N + 1}
  BY <1>6, <1>7, <1>8
<1>10. longer # <<>> /\ longer[Len(longer)] = "/"
  BY <1>1
<1> QED BY <1>1, <1>6, <1>8, <1>9, <1>10 DEF longer, N

\* Without the separator at its end a string has the same parts.
LEMMA SeparatorCut ==
    ASSUME NEW D, NEW str \in Seq(D), str # <<>>, str[Len(str)] = "/"
    PROVE  LET shorter == SubSeq(str, 1, Len(str) - 1)
           IN /\ shorter \in Seq(D)
              /\ Starts(shorter) = Starts(str)
              /\ \A s \in Starts(str) : PartFrom(shorter, s) = PartFrom(str, s)
<1> DEFINE N == Len(str) - 1
           shorter == SubSeq(str, 1, N)
<1>1. /\ N \in Nat /\ Len(str) = N + 1 /\ DOMAIN str = 1 .. N + 1
      /\ shorter \in Seq(D) /\ Len(shorter) = N /\ DOMAIN shorter = 1 .. N
      /\ \A k \in 1 .. N : shorter[k] = str[k]
  <2>1. N \in Nat /\ Len(str) = N + 1 /\ DOMAIN str = 1 .. N + 1
    OBVIOUS
  <2> HIDE DEF N
  <2>2. SubSeq(str, 1, N) = [k \in 1 .. N |-> str[k]] /\ SubSeq(str, 1, N) \in Seq(D)
    BY <2>1
  <2> QED BY <2>1, <2>2
<1> HIDE DEF shorter, N
<1>2. \A s \in Starts(str) : s \in 1 .. N
  BY <1>1 DEF Starts
<1>3. Starts(shorter) = Starts(str)
  <2>1. \A s \in 1 .. N : s > 1 => s - 1 \in 1 .. N
    BY <1>1
  <2>2. \A s \in 1 .. N : s \in 1 .. N + 1
    BY <1>1
  <2> QED BY <1>1, <1>2, <2>1, <2>2 DEF Starts
<1>4. ASSUME NEW s \in Starts(str) PROVE PartFrom(shorter, s) = PartFrom(str, s)
  <2>1. PICK n \in 1 .. Len(str) + 1 : Stretch(str, s - 1, n) /\ n > s
    BY PartEnds
  <2>2. n <= N + 1
    <3> SUFFICES ASSUME n = N + 2 PROVE FALSE
      BY <1>1, <2>1
    <3>1. N + 1 \in (s - 1) + 1 .. n - 1 /\ str[N + 1] = "/"
      BY <1>1, <1>2
    <3> QED BY <2>1, <3>1 DEF Stretch
  <2>3. /\ n - 1 > s - 1 /\ n - 1 <= Len(shorter) /\ (s - 1) + 1 = s
        /\ \A k \in 1 .. n - 1 : k \in 1 .. N
    BY <1>1, <1>2, <2>1, <2>2
  <2>4. n <= Len(shorter) => shorter[n] = "/"
    BY <1>1, <2>1, <2>2 DEF Stretch
  <2>5. PartFrom(shorter, (s - 1) + 1) = PartFrom(str, (s - 1) + 1)
    <3> DEFINE b == s - 1
    <3> HIDE DEF b
    <3>1. /\ Stretch(str, b, n) /\ n - 1 > b /\ n - 1 <= Len(shorter) /\ shorter \in Seq(D)
          /\ n <= Len(shorter) => shorter[n] = "/"
          /\ \A k \in 1 .. n - 1 : shorter[k] = str[k]
      BY <1>1, <2>1, <2>3, <2>4 DEF b
    <3>2. PartFrom(shorter, b + 1) = PartFrom(str, b + 1)
      BY <3>1, SamePart
    <3> QED BY <3>2 DEF b
  <2> QED BY <2>3, <2>5
<1> QED BY <1>1, <1>3, <1>4 DEF shorter, N

\* What join() has written after each value.
LEMMA JoinRounds ==
    ASSUME NEW D, "/" \in D, NEW container \in Seq(Seq(D))
    PROVE  \E stream \in [0 .. Len(container) -> Seq(D)] :
              /\ stream[0] = <<>>
              /\ \A n \in 1 .. Len(container) : stream[n] = stream[n - 1] \o container[n] \o <<"/">>
              /\ joinLoop(container, <<"/">>) = stream[Len(container)]
<1> DEFINE N == Len(container)
           X == Seq(D)
           SoFar(n, last) == last \o container[n] \o <<"/">>
           g == [n \in 1 .. N |-> [last \in X |-> SoFar(n, last)]]
           Unrolled(f) == [n \in 0 .. N |-> IF n = 0 THEN <<>> ELSE SoFar(n, f[n - 1])]
<1>1. N \in Nat /\ <<>> \in X /\ \A n \in 1 .. N : container[n] \in X
  OBVIOUS
<1>2. ASSUME NEW n \in 1 .. N, NEW last \in X PROVE SoFar(n, last) \in X
  BY <1>1
<1>3. g \in [1 .. N -> [X -> X]]
  BY <1>2
<1> HIDE DEF X, SoFar
<1>4. PICK f \in [0 .. N -> X] : f[0] = <<>> /\ \A n \in 1 .. N : f[n] = g[n][f[n - 1]]
  <2> HIDE DEF g, N
  <2>1. g \in Round(N, X)
    BY <1>3 DEF Round
  <2>2. LoopStates(N, X, <<>>, g) # {}
    BY <1>1, <2>1, Rounds
  <2> QED BY <2>2 DEF LoopStates
<1>5. \A n \in 1 .. N : f[n] = SoFar(n, f[n - 1])
  <2> TAKE n \in 1 .. N
  <2>1. n - 1 \in 0 .. N
    OBVIOUS
  <2>2. f[n - 1] \in X
    BY <1>4, <2>1
  <2> QED BY <1>4, <2>2
<1>6. f = Unrolled(f)
  BY <1>4, <1>5
<1>7. PICK stream : stream = Unrolled(stream) /\ joinLoop(container, <<"/">>) = stream[N]
  <2> DEFINE chosen == CHOOSE h : h = Unrolled(h)
  <2>1. chosen = Unrolled(chosen)
    <3> HIDE DEF Unrolled
    <3> QED BY <1>6
  <2>2. joinLoop(container, <<"/">>) = chosen[N]
    BY DEF joinLoop, SoFar
  <2> HIDE DEF chosen, Unrolled
  <2> QED BY <2>1, <2>2
<1>8. stream[0] = <<>> /\ \A n \in 1 .. N : stream[n] = SoFar(n, stream[n - 1])
  <2> DEFINE unrolled == Unrolled(stream)
  <2>1. unrolled[0] = <<>>
    OBVIOUS
  <2>2. \A n \in 1 .. N : unrolled[n] = SoFar(n, stream[n - 1])
    OBVIOUS
  <2>3. stream = unrolled
    BY <1>7
  <2> HIDE DEF unrolled
  <2> QED BY <2>1, <2>2, <2>3
<1>9. stream \in [0 .. N -> X]
  <2> DEFINE S == {n \in 0 .. N : stream[n] \in X}
  <2>1. 0 \in S
    BY <1>1, <1>8
  <2>2. \A n \in 0 .. N : n < N /\ n \in S => n + 1 \in S
    <3> TAKE n \in 0 .. N
    <3> HAVE n < N /\ n \in S
    <3>1. n + 1 \in 1 .. N /\ (n + 1) - 1 = n
      OBVIOUS
    <3>2. stream[n + 1] = SoFar(n + 1, stream[n])
      BY <1>8, <3>1
    <3> QED BY <1>2, <3>1, <3>2
  <2>3. 0 .. N \subseteq S
    <3> HIDE DEF S
    <3> QED BY <1>1, <2>1, <2>2, UpTo
  <2> QED BY <1>7, <2>3
<1> QED BY <1>7, <1>8, <1>9 DEF X, SoFar

\* A part has characters, none of which is a separator.
LEMMA PartsHaveCharacters ==
    ASSUME NEW C, NEW str \in Seq(C), NEW n \in 1 .. Len(Parts(str))
    PROVE  Parts(str)[n] # <<>> /\ \A k \in 1 .. Len(Parts(str)[n]) : Parts(str)[n][k] # "/"
<1> DEFINE start == CHOOSE start \in Starts(str) : Rank(str, start) = n
<1>1. Cardinality(Starts(str)) \in Nat /\ Starts(str) \subseteq 1 .. Len(str)
  BY StartsFinite
<1>2. n \in 1 .. Cardinality(Starts(str))
  BY <1>1 DEF Parts
<1>3. start \in Starts(str)
  BY <1>2, Ranks
<1>4. Parts(str)[n] = PartFrom(str, start)
  BY <1>2 DEF Parts
<1> HIDE DEF start
<1>5. PICK e \in 1 .. Len(str) + 1 :
         Stretch(str, start - 1, e) /\ e > start /\ PartFrom(str, start) = SubSeq(str, start, e - 1)
  BY <1>3, PartEnds
<1> DEFINE M == e - start
           part == SubSeq(str, start, e - 1)
<1>6. /\ start \in Int /\ e - 1 \in Int /\ start <= e - 1 /\ (e - 1) - start + 1 = M
      /\ M \in Nat \ {0} /\ (start - 1) + 1 = start
      /\ \A i \in start .. e - 1 : i \in 1 .. Len(str)
      /\ \A k \in 1 .. M : start + k - 1 \in start .. e - 1
  <2>1. Len(str) \in Nat /\ start \in 1 .. Len(str) /\ e \in 1 .. Len(str) + 1 /\ start < e
    BY <1>1, <1>3, <1>5
  <2> QED BY <2>1
<1>7. Len(part) = M /\ \A k \in 1 .. M : part[k] = str[start + k - 1]
  <2>1. \A i \in start .. e - 1 : str[i] \in C
    BY <1>6
  <2> HIDE DEF M
  <2> QED BY <1>6, <2>1, SubSeqProperties
<1>8. \A i \in start .. e - 1 : str[i] # "/"
  BY <1>5, <1>6 DEF Stretch
<1>9. Parts(str)[n] = part
  BY <1>4, <1>5
<1> HIDE DEF M, part
<1>10. part # <<>> /\ \A k \in 1 .. Len(part) : part[k] # "/"
  BY <1>6, <1>7, <1>8
<1> QED BY <1>9, <1>10

\* join() puts together what split() has taken apart, so that it has the same parts.
LEMMA JoinSplitParts ==
    ASSUME NEW C, NEW str \in Seq(C)
    PROVE  Parts(join(split(str, "/"), <<"/">>)) = Parts(str)
<1> DEFINE D == C \cup {"/"}
           parts == split(str, "/")
           N == Len(parts)
<1>1. /\ parts = Parts(str) /\ parts \in Seq(Seq(D)) /\ "/" \in D /\ N \in Nat
      /\ \A n \in 1 .. N : /\ parts[n] \in Seq(D) /\ parts[n] # <<>>
                           /\ \A k \in 1 .. Len(parts[n]) : parts[n][k] # "/"
  <2>1. parts = Parts(str) /\ parts \in Seq(Seq(C))
    BY SplitIsParts
  <2> HIDE DEF parts
  <2>2. Seq(C) \subseteq Seq(D) /\ Seq(Seq(C)) \subseteq Seq(Seq(D))
    <3>1. \A A, B : A \subseteq B => Seq(A) \subseteq Seq(B)
      BY SeqMonotonic
    <3> QED BY <3>1
  <2>3. parts \in Seq(Seq(D))
    BY <2>1, <2>2
  <2>4. \A n \in 1 .. N : parts[n] # <<>> /\ \A k \in 1 .. Len(parts[n]) : parts[n][k] # "/"
    BY <2>1, PartsHaveCharacters
  <2> HIDE DEF D
  <2>5. N \in Nat /\ \A n \in 1 .. N : parts[n] \in Seq(D)
    BY <2>3
  <2> QED BY <2>1, <2>3, <2>4, <2>5 DEF D
<1> HIDE DEF D, parts, N
<1>2. PICK stream \in [0 .. N -> Seq(D)] :
              /\ stream[0] = <<>>
              /\ \A n \in 1 .. N : stream[n] = stream[n - 1] \o parts[n] \o <<"/">>
              /\ joinLoop(parts, <<"/">>) = stream[N]
  BY <1>1, JoinRounds DEF N
\* The starts of what is written, and the parts they have.
<1> DEFINE SoFar(n, s) ==
              /\ s # <<>> => s[Len(s)] = "/"
              /\ n > 0 => s # <<>>
              /\ Cardinality(Starts(s)) = n
              /\ \A r \in Starts(s) : PartFrom(s, r) = parts[Rank(s, r)]
           S == {n \in 0 .. N : SoFar(n, stream[n])}
<1>3. 0 \in S
  <2>1. Starts(<<>>) = {}
    BY DEF Starts
  <2>2. Cardinality(Starts(<<>>)) = 0
    BY <2>1, FS_EmptySet
  <2>3. SoFar(0, <<>>)
    BY <2>1, <2>2
  <2> HIDE DEF SoFar
  <2> QED BY <1>1, <1>2, <2>3
<1>4. ASSUME NEW n \in 0 .. N, n < N, n \in S PROVE n + 1 \in S
  <2> DEFINE s == stream[n]
             part == parts[n + 1]
             longer == s \o part \o <<"/">>
             top == Len(s) + 1
  <2>1. /\ n \in Nat /\ n + 1 \in 1 .. N /\ n + 1 \in 0 .. N /\ (n + 1) - 1 = n
        /\ s \in Seq(D) /\ Len(s) \in Nat
    BY <1>1, <1>2, <1>4
  <2>2. stream[n + 1] = longer
    BY <1>2, <2>1
  <2>3. SoFar(n, s)
    BY <1>4
  <2> HIDE DEF s, part
  <2>4. /\ longer \in Seq(D) /\ longer # <<>> /\ longer[Len(longer)] = "/"
        /\ Starts(longer) = Starts(s) \cup {top}
        /\ \A r \in Starts(s) : PartFrom(longer, r) = PartFrom(s, r)
        /\ PartFrom(longer, top) = part
    <3>1. part \in Seq(D) /\ part # <<>> /\ \A k \in 1 .. Len(part) : part[k] # "/"
      BY <1>1, <2>1 DEF part
    <3> QED BY <1>1, <2>1, <2>3, <3>1, PartAdded
  <2> HIDE DEF longer
  <2>5. /\ Starts(s) \subseteq 1 .. Len(s) /\ IsFiniteSet(Starts(s))
        /\ \A r : Rank(s, r) = Cardinality(StartsTo(s, r))
    BY <2>1, StartsFinite
  <2>6. \A r : Rank(longer, r) = Cardinality(StartsTo(longer, r))
    BY <2>4, StartsFinite
  <2>7. top \notin Starts(s) /\ \A r \in Starts(s) : r < top /\ r \in Nat
    BY <2>1, <2>5
  <2>8. Cardinality(Starts(longer)) = n + 1
    BY <2>3, <2>4, <2>5, <2>7, FS_AddElement
  <2>9. \A r \in Starts(s) : Rank(longer, r) = Rank(s, r)
    <3> TAKE r \in Starts(s)
    <3>1. ~ (top <= r)
      BY <2>1, <2>7
    <3>2. StartsTo(longer, r) = StartsTo(s, r)
      BY <2>4, <3>1 DEF StartsTo
    <3> QED BY <2>5, <2>6, <3>2
  <2>10. Rank(longer, top) = n + 1
    <3>1. \A r \in Starts(longer) : r <= top
      BY <2>1, <2>4, <2>7
    <3>2. StartsTo(longer, top) = Starts(longer)
      BY <3>1 DEF StartsTo
    <3> QED BY <2>6, <2>8, <3>2
  <2>11. SoFar(n + 1, longer)
    BY <2>3, <2>4, <2>8, <2>9, <2>10 DEF part
  <2> HIDE DEF SoFar
  <2> QED BY <2>1, <2>2, <2>11
<1>5. SoFar(N, stream[N])
  <2>1. \A n \in 0 .. N : n < N /\ n \in S => n + 1 \in S
    BY <1>4
  <2>2. N \in 0 .. N
    BY <1>1
  <2>3. N \in S
    <3> HIDE DEF S
    <3> QED BY <1>1, <1>3, <2>1, <2>2, UpTo
  <2> HIDE DEF SoFar
  <2> QED BY <2>3
<1> DEFINE s == stream[N]
           joined == join(parts, <<"/">>)
<1>6. s \in Seq(D) /\ N \in 0 .. N
  BY <1>1, <1>2
<1>7. joined \in Seq(D) /\ Starts(joined) = Starts(s)
      /\ \A r \in Starts(s) : PartFrom(joined, r) = PartFrom(s, r)
  <2>1. CASE parts = <<>>
    <3>1. joined = s
      BY <1>2, <2>1 DEF join
    <3> QED BY <1>6, <3>1
  <2>2. CASE parts # <<>>
    <3>1. N > 0
      BY <1>1, <2>2 DEF N
    <3>2. joined = SubSeq(s, 1, Len(s) - 1)
      <4>1. Len(<<"/">>) = 1
        OBVIOUS
      <4>2. joined = SubSeq(joinLoop(parts, <<"/">>), 1, Len(joinLoop(parts, <<"/">>)) - Len(<<"/">>))
        BY <2>2 DEF join
      <4> QED BY <1>2, <4>1, <4>2
    <3> HIDE DEF s, joined
    <3>3. s # <<>> /\ s[Len(s)] = "/"
      BY <1>5, <3>1 DEF s
    <3> QED BY <1>6, <3>2, <3>3, SeparatorCut
  <2> QED BY <2>1, <2>2
<1>8. \A r : Rank(joined, r) = Rank(s, r)
  BY <1>7 DEF Rank
<1>9. parts = Parts(joined)
  <2>1. Len(parts) = Cardinality(Starts(joined))
    BY <1>5, <1>7 DEF N
  <2>2. \A r \in Starts(joined) : parts[Rank(joined, r)] = PartFrom(joined, r)
    BY <1>5, <1>7, <1>8
  <2> HIDE DEF joined
  <2> QED BY <1>1, <1>7, <2>1, <2>2, PartsByRank
<1> QED BY <1>1, <1>9 DEF parts

----------------------------------------------------------------------------
\* The greatest number of a set of numbers.
LEMMA Greatest ==
    ASSUME NEW S, NEW m \in S, S \subseteq Nat, \A n \in S : n <= m
    PROVE  Max(S) = m
<1>1. \A x \in S : (\A n \in S : n <= x) => x = m
  <2> TAKE x \in S
  <2> HAVE \A n \in S : n <= x
  <2>1. x <= m /\ m <= x /\ x \in Nat /\ m \in Nat
    OBVIOUS
  <2> QED BY <2>1
<1> DEFINE greatest == CHOOSE x \in S : \A n \in S : x >= n
<1>2. greatest \in S /\ \A n \in S : n <= greatest
  <2>1. \A n \in S : m >= n
    OBVIOUS
  <2> QED BY <2>1
<1>3. Max(S) = greatest
  BY DEF Max
<1> HIDE DEF greatest
<1> QED BY <1>1, <1>2, <1>3

\* The last place of a set of places; 0, or another least place, if it is empty.
LEMMA LastPlace ==
    ASSUME NEW N \in Nat, NEW S, S \subseteq 1 .. N, NEW low \in {0, 1}, low <= N
    PROVE  LET last == Max({low} \cup S)
           IN /\ last \in low .. N
              /\ last \in S \/ last = low
              /\ \A n \in S : n <= last
              /\ S # {} => last = Max(S)
<1>1. CASE S = {}
  <2>1. Max({low} \cup S) = low
    <3>1. low \in {low} \cup S /\ {low} \cup S \subseteq Nat /\ \A n \in {low} \cup S : n <= low
      BY <1>1
    <3> HIDE <1>1
    <3> QED BY <3>1, Greatest
  <2> QED BY <1>1, <2>1
<1>2. CASE S # {}
  <2> DEFINE m == Max(S)
  <2>1. m \in S /\ \A n \in S : n <= m
    BY <1>2, Largest
  <2> HIDE DEF m
  <2>2. m \in {low} \cup S /\ {low} \cup S \subseteq Nat /\ \A n \in {low} \cup S : n <= m
    BY <2>1
  <2>3. Max({low} \cup S) = m
    BY <2>2, Greatest
  <2> HIDE <1>2
  <2>4. m \in low .. N
    BY <2>1, <2>2
  <2>5. m \in S /\ \A n \in S : n <= m
    BY <2>1
  <2> QED BY <2>3, <2>4, <2>5 DEF m
<1> QED BY <1>1, <1>2

\* strip() takes all of its characters off the end but leaves one character.
LEMMA StripExact ==
    ASSUME NEW C, NEW str \in Seq(C), str # <<>>
    PROVE  LET kept == strip(str, ".")
           IN /\ str = kept \o [n \in 1 .. Len(str) - Len(kept) |-> "."]
              /\ kept # <<>> /\ (Len(kept) > 1 => Last(kept) # ".")
<1> DEFINE S == {n \in DOMAIN str : str[n] # "."}
           N == Len(str)
           m == Max({1} \cup S)
           kept == SubSeq(str, 1, m)
           dots == [n \in 1 .. N - Len(kept) |-> "."]
<1>1. N \in Nat /\ 1 <= N /\ DOMAIN str = 1 .. N /\ S \subseteq 1 .. N
  OBVIOUS
<1>2. /\ m \in 1 .. N /\ (m \in S \/ m = 1)
      /\ \A n \in S : n <= m
  <2> HIDE DEF S, N
  <2>1. 1 \in {0, 1}
    OBVIOUS
  <2> QED BY <1>1, <2>1, LastPlace
<1>3. strip(str, ".") = kept
  BY DEF strip
<1> HIDE DEF m
<1>4. Len(kept) = m /\ kept \in Seq(C) /\ \A k \in 1 .. m : kept[k] = str[k]
  BY <1>1, <1>2
<1>5. \A k \in m + 1 .. N : str[k] = "."
  BY <1>1, <1>2
<1>6. m > 1 => str[m] # "."
  BY <1>2
<1> HIDE DEF kept, N, S
<1>7. dots \in Seq({"."}) /\ Len(dots) = N - m /\ \A k \in 1 .. N - m : dots[k] = "."
  BY <1>1, <1>2, <1>4
<1> HIDE DEF dots
<1>8. str = kept \o dots
  <2>1. /\ kept \o dots \in Seq(C \cup {"."}) /\ Len(kept \o dots) = N
        /\ \A k \in 1 .. N : (kept \o dots)[k] = IF k <= m THEN kept[k] ELSE dots[k - m]
    <3>1. kept \in Seq(C \cup {"."}) /\ dots \in Seq(C \cup {"."})
      BY <1>4, <1>7
    <3>2. /\ kept \o dots \in Seq(C \cup {"."}) /\ Len(kept \o dots) = Len(kept) + Len(dots)
          /\ \A k \in 1 .. Len(kept) + Len(dots) :
                (kept \o dots)[k] = IF k <= Len(kept) THEN kept[k] ELSE dots[k - Len(kept)]
      BY <3>1, ConcatProperties
    <3>3. Len(kept) = m /\ Len(dots) = N - m /\ m + (N - m) = N
      BY <1>1, <1>2, <1>4, <1>7
    <3> QED BY <3>2, <3>3
  <2>2. str \in Seq(C \cup {"."}) /\ Len(str) = N
    BY DEF N
  <2>3. \A k \in 1 .. N : str[k] = (kept \o dots)[k]
    <3> TAKE k \in 1 .. N
    <3>1. CASE k <= m
      <4>1. k \in 1 .. m
        BY <1>2, <3>1
      <4> QED BY <1>4, <2>1, <3>1, <4>1
    <3>2. CASE ~ (k <= m)
      <4>1. k \in m + 1 .. N /\ k - m \in 1 .. N - m
        BY <1>1, <1>2, <3>2
      <4> QED BY <1>5, <1>7, <2>1, <3>2, <4>1
    <3> QED BY <3>1, <3>2
  <2> HIDE DEF N
  <2> QED BY <2>1, <2>2, <2>3, SeqEqual
<1>9. kept # <<>> /\ (Len(kept) > 1 => Last(kept) # ".")
  <2>1. m \in 1 .. m
    BY <1>2
  <2> QED BY <1>2, <1>4, <1>6, <2>1 DEF Last
<1> QED BY <1>3, <1>8, <1>9 DEF dots, N

\* A part of a sequence, as a function.
LEMMA Slice ==
    ASSUME NEW s, NEW a \in Nat, NEW b \in Int, a <= b
    PROVE  SubSeq(s, a + 1, b) = [k \in 1 .. b - a |-> s[a + k]]
<1>1. SubSeq(s, a + 1, b) = [k \in 1 .. b - (a + 1) + 1 |-> s[k + (a + 1) - 1]]
  BY DEF SubSeq
<1>2. b - (a + 1) + 1 = b - a /\ \A k \in 1 .. b - a : k + (a + 1) - 1 = a + k
  OBVIOUS
<1> QED BY <1>1, <1>2

\* extractNameFromPath() yields what follows the last separator, and without
\* the extension it is what is in front of the last dot of that.
LEMMA NameExact ==
    ASSUME NEW C, NEW str \in Seq(C), NEW mode \in BOOLEAN
    PROVE  extractNameFromPath(str, mode) = FileName(str, mode)
<1> DEFINE N == Len(str)
           separators == {n \in DOMAIN str : str[n] = "/"}
           dots == {n \in DOMAIN str : str[n] = "."}
           p == find_last_of(str, "/")
           d == find_last_of(str, ".")
           name == SubSeq(str, Max(separators) + 1, N)
           extensions == {n \in DOMAIN name : name[n] = "."}
<1>0. FileName(str, mode) = IF separators = {} THEN str
                            ELSE IF mode \/ extensions = {} THEN name
                            ELSE SubSeq(name, 1, Max(extensions) - 1)
  BY DEF FileName
<1>1. N \in Nat /\ DOMAIN str = 1 .. N /\ separators \subseteq 1 .. N /\ dots \subseteq 1 .. N
  OBVIOUS
<1>2. /\ p \in 0 .. N /\ (p \in separators \/ p = 0) /\ \A n \in separators : n <= p
      /\ separators # {} => p = Max(separators)
  <2>1. p = Max({0} \cup separators)
    BY DEF find_last_of
  <2>2. 0 \in {0, 1} /\ 0 <= N
    BY <1>1
  <2> HIDE DEF p, separators, N
  <2> QED BY <1>1, <2>1, <2>2, LastPlace
<1>3. d \in 0 .. N /\ (d \in dots \/ d = 0) /\ \A n \in dots : n <= d
  <2>1. d = Max({0} \cup dots)
    BY DEF find_last_of
  <2>2. 0 \in {0, 1} /\ 0 <= N
    BY <1>1
  <2> HIDE DEF d, dots, N
  <2> QED BY <1>1, <2>1, <2>2, LastPlace
<1> HIDE DEF p, d
<1>4. extractNameFromPath(str, mode) =
          CASE p = 0 -> str
            [] p # 0 /\ (mode \/ d < p) -> SubSeq(str, p + 1, N)
            [] OTHER -> SubSeq(str, p + 1, d - 1)
  BY DEF extractNameFromPath, p, d
<1>5. CASE separators = {}
  <2>1. p = 0
    BY <1>2, <1>5
  <2> QED BY <1>0, <1>4, <1>5, <2>1
<1>6. CASE separators # {}
  <2>1. p \in 1 .. N /\ p \in Nat /\ p <= N /\ p = Max(separators)
    <3> HIDE DEF separators, N
    <3>1. PICK n \in separators : n \in 1 .. N /\ n <= p
      BY <1>1, <1>2, <1>6
    <3>2. p = Max(separators) /\ p \in 0 .. N /\ N \in Nat
      BY <1>1, <1>2, <1>6
    <3> QED BY <3>1, <3>2
  <2>2. name = SubSeq(str, p + 1, N)
    BY <2>1
  <2>3. name = [k \in 1 .. N - p |-> str[p + k]]
    <3> HIDE DEF N, name, separators
    <3>1. N \in Int /\ p \in Nat /\ p <= N
      BY <1>1, <2>1
    <3> QED BY <2>2, <3>1, Slice
  <2>4. DOMAIN name = 1 .. N - p /\ \A k \in 1 .. N - p : name[k] = str[p + k]
    <3> HIDE DEF name
    <3> QED BY <2>3
  <2>5. /\ \A n \in dots : n \in 1 .. N /\ str[n] = "."
        /\ \A n \in 1 .. N : str[n] = "." => n \in dots
    BY <1>1
  <2> HIDE DEF name
  <2>6. /\ \A k \in extensions : k \in 1 .. N - p /\ str[p + k] = "."
        /\ \A k \in 1 .. N - p : str[p + k] = "." => k \in extensions
    BY <2>4
  <2> HIDE DEF N, dots, separators, extensions
  <2>7. N \in Nat /\ p \in Nat /\ p <= N /\ p >= 1
    BY <1>1, <2>1
  <2>8. \A k \in extensions : p + k \in dots /\ k \in Nat /\ k >= 1
    <3> TAKE k \in extensions
    <3>1. k \in 1 .. N - p /\ str[p + k] = "."
      BY <2>6
    <3>2. k \in Nat /\ k >= 1 /\ p + k \in 1 .. N
      BY <2>7, <3>1
    <3> QED BY <2>5, <3>1, <3>2
  <2>9. extractNameFromPath(str, mode) = IF mode \/ d < p THEN name ELSE SubSeq(str, p + 1, d - 1)
    BY <1>4, <2>1, <2>2
  <2>10. CASE d < p
    <3>1. extensions = {}
      BY <1>3, <2>1, <2>8, <2>10
    <3> QED BY <1>0, <1>6, <2>9, <2>10, <3>1
  <2>11. CASE ~ (d < p)
    <3>1. d # p
      <4>1. p \in separators /\ p # 0
        BY <1>2, <2>1
      <4> QED BY <1>3, <2>1, <4>1 DEF dots, separators
    <3>2. d \in dots /\ d \in Nat /\ d - p \in 1 .. N - p /\ d - p \in Nat /\ p + (d - p) = d
      BY <1>1, <1>3, <2>1, <2>11, <3>1
    <3> DEFINE e == d - p
    <3>3. e \in extensions
      BY <2>5, <2>6, <3>2
    <3>4. extensions \subseteq Nat /\ \A k \in extensions : k <= e
      <4>1. \A k \in extensions : p + k <= d /\ k \in Nat
        BY <1>3, <2>8
      <4> QED BY <2>7, <3>2, <4>1
    <3>5. e - 1 \in Nat /\ (d - 1) - p = e - 1 /\ p <= d - 1 /\ d - 1 \in Int
          /\ \A k \in 1 .. e - 1 : k \in 1 .. N - p
      BY <2>7, <3>2
    <3> HIDE DEF e
    <3>6. Max(extensions) = e
      BY <3>3, <3>4, Greatest
    <3>7. SubSeq(str, p + 1, d - 1) = [k \in 1 .. e - 1 |-> str[p + k]]
      <4>1. SubSeq(str, p + 1, d - 1) = [k \in 1 .. (d - 1) - p |-> str[p + k]]
        <5> DEFINE b == d - 1
        <5> HIDE DEF b
        <5>1. b \in Int /\ p <= b /\ p \in Nat
          BY <2>1, <3>5 DEF b
        <5>2. SubSeq(str, p + 1, b) = [k \in 1 .. b - p |-> str[p + k]]
          BY <5>1, Slice
        <5> QED BY <5>2 DEF b
      <4> QED BY <3>5, <4>1
    <3>8. SubSeq(name, 1, e - 1) = [k \in 1 .. e - 1 |-> name[k]]
      <4> DEFINE b == e - 1
      <4> HIDE DEF b
      <4>1. b \in Int /\ 0 \in Nat /\ 0 <= b
        BY <3>5 DEF b
      <4>2. SubSeq(name, 0 + 1, b) = [k \in 1 .. b - 0 |-> name[0 + k]]
        BY <4>1, Slice
      <4>3. 0 + 1 = 1 /\ b - 0 = b /\ \A k \in 1 .. b : 0 + k = k
        BY <4>1
      <4>4. SubSeq(name, 1, b) = [k \in 1 .. b |-> name[k]]
        BY <4>2, <4>3
      <4> QED BY <4>4 DEF b
    <3>9. SubSeq(str, p + 1, d - 1) = SubSeq(name, 1, Max(extensions) - 1)
      BY <2>4, <3>5, <3>6, <3>7, <3>8
    <3>10. extensions # {}
      BY <3>3
    <3> HIDE DEF name
    <3>11. CASE mode
      BY <1>0, <1>6, <2>9, <3>11
    <3>12. CASE ~ mode
      BY <1>0, <1>6, <2>9, <2>11, <3>9, <3>10, <3>12
    <3> QED BY <3>11, <3>12
  <2> QED BY <2>10, <2>11
<1> QED BY <1>5, <1>6

----------------------------------------------------------------------------
StringInv == expression \in Loop \cup Call /\ StringsExact

\* The strings of a call are strings over Char.
LEMMA Strings ==
    /\ String \subseteq Seq(Char)
    /\ Loop \cap Call = {}
    /\ \A e \in Call : /\ e[2] \in Seq(Char)
                       /\ e[1] = "strip" => e[2] # <<>>
                       /\ e[1] \in {"strip", "split", "extractNameFromPath", "joinSplit"}
                       /\ e[1] = "extractNameFromPath" => e[3] \in BOOLEAN
<1>1. String \subseteq Seq(Char)
  BY LengthAssumption DEF String, BoundedSeq, SeqOf
<1>2. \A e \in Loop : e[1] \in {"range", "withStep", "indicesOf", "enumerate", "zip"}
  BY DEF Loop
<1>3. \A e \in Call : /\ e[2] \in String
                      /\ e[1] = "strip" => e[2] # <<>>
                      /\ e[1] \in {"strip", "split", "extractNameFromPath", "joinSplit"}
                      /\ e[1] = "extractNameFromPath" => e[3] \in BOOLEAN
  <2> HIDE <1>1
  <2> QED BY DEF Call
<1> QED BY <1>1, <1>2, <1>3

LEMMA EvaluateExact == ASSUME StringInv, Evaluate PROVE StringsExact'
<1>1. /\ UNCHANGED expression /\ tag' = tag /\ ~ IsLoop
      /\ visited' = CASE tag = "strip" -> strip(expression[2], ".")
                      [] tag = "split" -> split(expression[2], "/")
                      [] tag = "joinSplit" -> join(split(expression[2], "/"), <<"/">>)
                      [] OTHER -> extractNameFromPath(expression[2], expression[3])
  BY DEF Evaluate, tag
<1>2. /\ expression[2] \in Seq(Char)
      /\ tag = "strip" => expression[2] # <<>>
      /\ tag \in {"strip", "split", "extractNameFromPath", "joinSplit"}
      /\ tag = "extractNameFromPath" => expression[3] \in BOOLEAN
  <2>1. expression \in Call
    BY <1>1 DEF StringInv, IsLoop, Loop, tag
  <2> QED BY <2>1, Strings DEF tag
<1> DEFINE str == expression[2]
<1>3. CASE tag = "strip"
  <2>1. visited' = strip(str, ".")
    BY <1>1, <1>3
  <2>2. /\ str = visited' \o [n \in 1 .. Len(str) - Len(visited') |-> "."]
        /\ visited' # <<>> /\ (Len(visited') > 1 => Last(visited') # ".")
    BY <1>2, <1>3, <2>1, StripExact
  <2> QED BY <1>1, <1>3, <2>2 DEF StringsExact
<1>4. CASE tag = "split"
  <2>1. visited' = Parts(str)
    BY <1>1, <1>2, <1>4, SplitIsParts
  <2> QED BY <1>1, <1>4, <2>1 DEF StringsExact
<1>5. CASE tag = "joinSplit"
  <2>1. visited' = join(split(str, "/"), <<"/">>)
    BY <1>1, <1>5
  <2>2. Parts(visited') = Parts(str)
    BY <1>2, <2>1, JoinSplitParts
  <2> QED BY <1>1, <1>5, <2>2 DEF StringsExact
<1>6. CASE tag = "extractNameFromPath"
  <2>1. visited' = extractNameFromPath(str, expression[3])
    BY <1>1, <1>6
  <2>2. visited' = FileName(str, expression[3])
    BY <1>2, <1>6, <2>1, NameExact
  <2> QED BY <1>1, <1>6, <2>2 DEF StringsExact
<1> QED BY <1>2, <1>3, <1>4, <1>5, <1>6

\* Whatever string they are called with, over any characters and of any length,
\* strip(), split(), join() and extractNameFromPath() return what they should
\* (Algorithms).
THEOREM StringsExactCorrect == AlgorithmsSpec => []StringsExact
<1>1. AlgorithmsInit => StringInv
  BY DEF AlgorithmsInit, StringInv, StringsExact
<1>2. StringInv /\ [AlgorithmsNext]_algorithmVars => StringInv'
  <2> SUFFICES ASSUME StringInv, [AlgorithmsNext]_algorithmVars PROVE StringInv'
    OBVIOUS
  <2>1. UNCHANGED expression
    BY DEF AlgorithmsNext, Step, EndOfLoop, Evaluate, algorithmVars
  <2>2. StringsExact'
    <3>1. CASE Step \/ EndOfLoop
      <4>1. IsLoop'
        BY <2>1, <3>1 DEF Step, EndOfLoop, IsLoop, tag
      <4> QED BY <4>1 DEF StringsExact
    <3>2. CASE Evaluate
      BY <3>2, EvaluateExact
    <3>3. CASE UNCHANGED algorithmVars
      <4>1. UNCHANGED <<expression, visited, running>> /\ StringsExact
        BY <3>3 DEF algorithmVars, StringInv
      <4> QED BY <4>1 DEF StringsExact, IsLoop, tag
    <3> QED BY <3>1, <3>2, <3>3 DEF AlgorithmsNext
  <2> QED BY <2>1, <2>2 DEF StringInv, Loop, Call
<1>3. StringInv => StringsExact
  BY DEF StringInv
<1> QED BY <1>1, <1>2, <1>3, PTL DEF AlgorithmsSpec

----------------------------------------------------------------------------
(***************************************************************************)
(* FlattenSeq() of the community modules: what is appended to a sequence   *)
(* of sequences is concatenated behind what they are concatenated to.      *)
(***************************************************************************)
LEMMA FlattenRounds ==
    ASSUME NEW A, NEW seqs \in Seq(Seq(A)), seqs # <<>>
    PROVE  \E f \in [1 .. Len(seqs) -> Seq(A)] :
              /\ f[1] = seqs[1]
              /\ \A n \in 2 .. Len(seqs) : f[n] = f[n - 1] \o seqs[n]
              /\ FlattenSeq(seqs) = f[Len(seqs)]
<1> DEFINE N == Len(seqs)
           X == Seq(A)
           Longer(n, last) == IF n = 1 THEN seqs[n] ELSE last \o seqs[n]
           g == [n \in 1 .. N |-> [last \in X |-> Longer(n, last)]]
           Unrolled(f) == [n \in 1 .. N |-> Longer(n, f[n - 1])]
<1>1. N \in Nat \ {0} /\ <<>> \in X /\ \A n \in 1 .. N : seqs[n] \in X
  OBVIOUS
<1>2. ASSUME NEW n \in 1 .. N, NEW last \in X PROVE Longer(n, last) \in X
  BY <1>1
<1>3. g \in [1 .. N -> [X -> X]]
  BY <1>2
<1> HIDE DEF X, Longer
<1>4. PICK f \in [0 .. N -> X] : \A n \in 1 .. N : f[n] = g[n][f[n - 1]]
  <2> HIDE DEF g, N
  <2>1. g \in Round(N, X)
    BY <1>3 DEF Round
  <2>2. LoopStates(N, X, <<>>, g) # {}
    BY <1>1, <2>1, Rounds
  <2> QED BY <2>2 DEF LoopStates
<1>5. \A n \in 1 .. N : f[n] = Longer(n, f[n - 1])
  <2> TAKE n \in 1 .. N
  <2>1. n - 1 \in 0 .. N
    OBVIOUS
  <2>2. f[n - 1] \in X
    BY <1>4, <2>1
  <2> QED BY <1>4, <2>2
<1> DEFINE own == [n \in 1 .. N |-> f[n]]
<1>6. own = Unrolled(own)
  <2>1. ASSUME NEW n \in 1 .. N PROVE own[n] = Longer(n, own[n - 1])
    <3>1. CASE n = 1
      <4>1. own[n] = Longer(n, f[n - 1])
        BY <1>5
      <4> QED BY <3>1, <4>1 DEF Longer
    <3>2. CASE n # 1
      <4>1. n - 1 \in 1 .. N
        BY <3>2
      <4> QED BY <1>5, <4>1
    <3> QED BY <3>1, <3>2
  <2> QED BY <2>1
<1> HIDE DEF own
<1>7. PICK flat : flat = Unrolled(flat) /\ FlattenSeq(seqs) = flat[N]
  <2> DEFINE chosen == CHOOSE h : h = Unrolled(h)
  <2>1. chosen = Unrolled(chosen)
    <3> HIDE DEF Unrolled
    <3> QED BY <1>6
  <2>2. FlattenSeq(seqs) = chosen[N]
    BY <1>1 DEF FlattenSeq, Longer
  <2> HIDE DEF chosen, Unrolled
  <2> QED BY <2>1, <2>2
<1>8. \A n \in 1 .. N : flat[n] = Longer(n, flat[n - 1])
  <2> DEFINE unrolled == Unrolled(flat)
  <2>1. \A n \in 1 .. N : unrolled[n] = Longer(n, flat[n - 1])
    OBVIOUS
  <2>2. flat = unrolled
    BY <1>7
  <2> HIDE DEF unrolled
  <2> QED BY <2>1, <2>2
<1>9. /\ flat[1] = seqs[1]
      /\ \A n \in 2 .. N : flat[n] = flat[n - 1] \o seqs[n]
  <2>1. 1 \in 1 .. N /\ \A n \in 2 .. N : n \in 1 .. N /\ n # 1
    BY <1>1
  <2> QED BY <1>8, <2>1 DEF Longer
<1>10. flat \in [1 .. N -> X]
  <2> DEFINE S == {n \in 0 .. N : n = 0 \/ flat[n] \in X}
  <2>1. 0 \in S
    BY <1>1
  <2>2. \A n \in 0 .. N : n < N /\ n \in S => n + 1 \in S
    <3> TAKE n \in 0 .. N
    <3> HAVE n < N /\ n \in S
    <3>1. n + 1 \in 1 .. N /\ (n + 1) - 1 = n
      OBVIOUS
    <3>2. flat[n + 1] = Longer(n + 1, flat[n])
      BY <1>8, <3>1
    <3>3. CASE n = 0
      BY <1>1, <1>9, <3>1, <3>3
    <3>4. CASE n # 0
      BY <1>2, <3>1, <3>2, <3>4
    <3> QED BY <3>3, <3>4
  <2>3. 0 .. N \subseteq S
    <3> HIDE DEF S
    <3> QED BY <1>1, <2>1, <2>2, UpTo
  <2>4. \A n \in 1 .. N : flat[n] \in X
    <3>1. \A n \in 1 .. N : n \in 0 .. N /\ n # 0
      OBVIOUS
    <3> QED BY <2>3, <3>1
  <2> QED BY <1>7, <2>4
<1> QED BY <1>7, <1>9, <1>10 DEF X

\* A concatenation is a sequence over the same set.
LEMMA FlattenType ==
    ASSUME NEW A, NEW seqs \in Seq(Seq(A))
    PROVE  FlattenSeq(seqs) \in Seq(A) /\ FlattenSeq(<<>>) = <<>>
<1>1. FlattenSeq(<<>>) = <<>>
  BY DEF FlattenSeq
<1>2. CASE seqs # <<>>
  <2>1. PICK f \in [1 .. Len(seqs) -> Seq(A)] : FlattenSeq(seqs) = f[Len(seqs)]
    BY <1>2, FlattenRounds
  <2>2. Len(seqs) \in 1 .. Len(seqs)
    BY <1>2
  <2> QED BY <1>1, <2>1, <2>2
<1> QED BY <1>1, <1>2

\* What is appended is concatenated behind the rest.
LEMMA FlattenAppend ==
    ASSUME NEW A, NEW seqs \in Seq(Seq(A)), NEW s \in Seq(A)
    PROVE  FlattenSeq(Append(seqs, s)) = FlattenSeq(seqs) \o s
<1> DEFINE N == Len(seqs)
           more == Append(seqs, s)
<1>1. /\ N \in Nat
      /\ more \in Seq(Seq(A)) /\ Len(more) = N + 1 /\ more # <<>>
      /\ more[N + 1] = s /\ \A n \in 1 .. N : more[n] = seqs[n]
  <2>1. N \in Nat
    OBVIOUS
  <2> QED BY <2>1, AppendProperties
<1> HIDE DEF more
<1>2. PICK h :
          /\ h[1] = more[1]
          /\ \A n \in 2 .. N + 1 : h[n] = h[n - 1] \o more[n]
          /\ FlattenSeq(more) = h[N + 1]
  <2>1. PICK h :
          /\ h[1] = more[1]
          /\ \A n \in 2 .. Len(more) : h[n] = h[n - 1] \o more[n]
          /\ FlattenSeq(more) = h[Len(more)]
    BY <1>1, FlattenRounds
  <2>2. Len(more) = N + 1
    BY <1>1
  <2> HIDE DEF N
  <2> QED BY <2>1, <2>2
<1>3. CASE seqs = <<>>
  <2>1. N = 0 /\ FlattenSeq(seqs) = <<>> /\ <<>> \o s = s
    <3>1. <<>> \o s = s
      BY ConcatEmptySeq
    <3>2. FlattenSeq(<<>>) = <<>>
      BY FlattenType
    <3> QED BY <1>3, <3>1, <3>2
  <2>2. h[1] = s
    BY <1>1, <1>2, <2>1
  <2> QED BY <1>2, <2>1, <2>2 DEF more
<1>4. CASE seqs # <<>>
  <2>1. N \in Nat \ {0}
    BY <1>4
  <2>2. PICK f \in [1 .. N -> Seq(A)] :
            /\ f[1] = seqs[1]
            /\ \A n \in 2 .. N : f[n] = f[n - 1] \o seqs[n]
            /\ FlattenSeq(seqs) = f[N]
    BY <1>4, FlattenRounds
  <2> DEFINE S == {n \in 0 .. N : n = 0 \/ h[n] = f[n]}
  <2>3. \A n \in 0 .. N : n < N /\ n \in S => n + 1 \in S
    <3> TAKE n \in 0 .. N
    <3> HAVE n < N /\ n \in S
    <3>1. CASE n = 0
      BY <1>1, <1>2, <2>1, <2>2, <3>1
    <3>2. CASE n # 0
      <4>1. n + 1 \in 2 .. N /\ n + 1 \in 2 .. N + 1 /\ (n + 1) - 1 = n /\ n + 1 \in 1 .. N
        BY <3>2
      <4>2. h[n + 1] = h[n] \o more[n + 1] /\ f[n + 1] = f[n] \o seqs[n + 1]
        BY <1>2, <2>2, <4>1
      <4>3. h[n] = f[n]
        BY <3>2
      <4>4. n + 1 \in 0 .. N /\ h[n + 1] = f[n + 1]
        <5>1. more[n + 1] = seqs[n + 1]
          BY <1>1, <4>1
        <5>2. n + 1 \in 0 .. N
          BY <4>1
        <5> QED BY <4>2, <4>3, <5>1, <5>2
      <4> QED BY <4>4
    <3> QED BY <3>1, <3>2
  <2>4. 0 .. N \subseteq S
    <3>1. 0 \in S
      OBVIOUS
    <3> HIDE DEF S
    <3> QED BY <1>1, <2>3, <3>1, UpTo
  <2>5. h[N] = f[N]
    <3>1. N \in 0 .. N /\ N # 0
      BY <2>1
    <3> QED BY <2>4, <3>1
  <2>6. N + 1 \in 2 .. N + 1 /\ (N + 1) - 1 = N
    BY <2>1
  <2>7. h[N + 1] = h[N] \o s
    BY <1>1, <1>2, <2>6
  <2> QED BY <1>2, <2>2, <2>5, <2>7 DEF more
<1> QED BY <1>3, <1>4

----------------------------------------------------------------------------
(***************************************************************************)
(* The parser collects what it reads: the text of the tokens behind it is  *)
(* that of the models and enums, in the order in which they were           *)
(* completed, and the part of the one under construction in front of where *)
(* the parser is. (Behind the last token of a member its semicolon is      *)
(* still missing.)                                                         *)
(***************************************************************************)
TextOf(token) ==
    IF token.type = "header" THEN <<>>
    ELSE IF token.type = "semicolon" THEN <<End>> ELSE token.value

TextsOf(tokens) == [n \in DOMAIN tokens |-> TextOf(tokens[n])]

WithoutHeader(word) == IF word = <<"#model">> THEN <<>> ELSE word
WithoutHeaders(words) == [n \in DOMAIN words |-> WithoutHeader(words[n])]

Passed == FlattenSeq(TextsOf(SubSeq(m_tokens, 1, m_currentIndex)))

MemberOf(kind, m) ==
    IF kind = "enum" THEN Append(m, End) ELSE m.name \o <<":">> \o m.type \o <<End>>

MembersOf(structure) ==
    [n \in DOMAIN structure.members |-> MemberOf(structure.kind, structure.members[n])]

Heading(structure) == <<structure.kind>> \o structure.name
Begun(structure) == Heading(structure) \o <<Opening>> \o FlattenSeq(MembersOf(structure))

Begin ==
    CASE at = "name" -> <<current.kind>>
      [] at = "openingBrace" -> Heading(current)
      [] at \in {"members", "semicolon"} -> Begun(current)
      [] at = "colon" -> Begun(current) \o fieldName
      [] at = "type" -> Begun(current) \o fieldName \o <<":">>
      [] OTHER -> <<>>

Missing == IF at = "semicolon" THEN <<End>> ELSE <<>>

Declarations(order) == [n \in DOMAIN order |-> Declaration(order[n])]

\* The tokens that are symbols have the values they stand for.
Plain(token) ==
    /\ token.type = "openingBrace" => token.value = <<Opening>>
    /\ token.type = "closingBrace" => token.value = <<Closing>>
    /\ token.type = "colon" => token.value = <<":">>

TokensInv ==
    /\ \A n \in DOMAIN m_tokens : Plain(m_tokens[n])
    /\ FlattenSeq(TextsOf(m_tokens)) = FlattenSeq(WithoutHeaders(source))

KindsInv ==
    /\ \A n \in DOMAIN m_structures.enums : m_structures.enums[n].kind = "enum"
    /\ \A n \in DOMAIN m_structures.models : m_structures.models[n].kind # "enum"
    /\ at \in {"name", "openingBrace"} => current.members = <<>>

\* What holds of the text in front of the parser.
Agrees(order) == Passed \o Missing = FlattenSeq(Declarations(order)) \o Begin

Parsing == DOMAIN Wanted \cup {"parsed"}

SourceInv ==
    /\ TokensInv /\ KindsInv
    /\ at \in Parsing => \E order \in Orders : Agrees(order)
    /\ at = "parsed" => m_currentIndex = Len(m_tokens)

\* A sequence of sequences is flattened one by one.
LEMMA FlattenLonger ==
    ASSUME NEW A, NEW seqs \in Seq(Seq(A)), NEW longer \in Seq(Seq(A)), NEW s \in Seq(A),
           Len(longer) = Len(seqs) + 1, longer[Len(seqs) + 1] = s,
           \A n \in 1 .. Len(seqs) : longer[n] = seqs[n]
    PROVE  FlattenSeq(longer) = FlattenSeq(seqs) \o s
<1> DEFINE more == Append(seqs, s)
<1>1. more \in Seq(Seq(A)) /\ Len(more) = Len(seqs) + 1 /\ more[Len(seqs) + 1] = s
      /\ \A n \in 1 .. Len(seqs) : more[n] = seqs[n]
  BY AppendProperties
<1> HIDE DEF more
<1>2. Len(seqs) \in Nat
  OBVIOUS
<1>3. longer = more
  <2> DEFINE N == Len(seqs)
  <2>1. \A n \in 1 .. N + 1 : n \in 1 .. N \/ n = N + 1
    BY <1>2
  <2>2. \A n \in 1 .. N + 1 : longer[n] = more[n]
    BY <1>1, <2>1
  <2>3. Len(longer) = Len(more) /\ Len(longer) = N + 1
    BY <1>1
  <2> HIDE DEF N
  <2>4. \A n \in 1 .. Len(longer) : longer[n] = more[n]
    BY <2>2, <2>3
  <2> QED BY <1>1, <2>3, <2>4
<1> QED BY <1>3, FlattenAppend DEF more

\* The text of a token is a sequence of atoms,
LEMMA TextOfType ==
    ASSUME NEW token \in TokenSet PROVE TextOf(token) \in Text
<1>1. <<>> \in Text /\ <<End>> \in Text /\ token.value \in Text
  <2>1. End \in Atom
    BY DEF Atom
  <2> QED BY <2>1, OneElement DEF Text, TokenSet
<1> QED BY <1>1 DEF TextOf

\* and so is the text of several,
LEMMA TextsType ==
    ASSUME NEW tokens \in Seq(TokenSet)
    PROVE  TextsOf(tokens) \in Seq(Text) /\ Len(TextsOf(tokens)) = Len(tokens)
           /\ FlattenSeq(TextsOf(tokens)) \in Text
<1>1. \A n \in 1 .. Len(tokens) : TextOf(tokens[n]) \in Text
  BY TextOfType
<1>2. TextsOf(tokens) = [n \in 1 .. Len(tokens) |-> TextOf(tokens[n])]
  BY DEF TextsOf
<1>3. TextsOf(tokens) \in Seq(Text) /\ Len(TextsOf(tokens)) = Len(tokens)
  BY <1>1, <1>2
<1> QED BY <1>3, FlattenType DEF Text

\* which grows by that of each token that is read.
LEMMA TextsAppend ==
    ASSUME NEW tokens \in Seq(TokenSet), NEW token \in TokenSet
    PROVE  FlattenSeq(TextsOf(Append(tokens, token))) = FlattenSeq(TextsOf(tokens)) \o TextOf(token)
<1> DEFINE more == Append(tokens, token)
           N == Len(tokens)
<1>1. more \in Seq(TokenSet) /\ Len(more) = N + 1 /\ more[N + 1] = token
      /\ \A n \in 1 .. N : more[n] = tokens[n]
  BY AppendProperties
<1> HIDE DEF more
<1>2. N \in Nat /\ N + 1 \in 1 .. N + 1 /\ \A n \in 1 .. N : n \in 1 .. N + 1
  OBVIOUS
<1>3. /\ TextsOf(more) = [n \in 1 .. N + 1 |-> TextOf(more[n])]
      /\ TextsOf(tokens) = [n \in 1 .. N |-> TextOf(tokens[n])]
  BY <1>1 DEF TextsOf
<1>4. /\ TextsOf(more)[N + 1] = TextOf(token)
      /\ \A n \in 1 .. N : TextsOf(more)[n] = TextsOf(tokens)[n]
  BY <1>1, <1>2, <1>3
<1>5. /\ TextsOf(more) \in Seq(Text) /\ Len(TextsOf(more)) = N + 1
      /\ TextsOf(tokens) \in Seq(Text) /\ Len(TextsOf(tokens)) = N
      /\ TextOf(token) \in Text
  BY <1>1, TextsType, TextOfType
<1> HIDE DEF N
<1> QED BY <1>4, <1>5, FlattenLonger DEF Text, more

\* The text of the words, too, grows by that of each.
LEMMA WordsAppend ==
    ASSUME NEW words \in Seq(Text), NEW word \in Text
    PROVE  FlattenSeq(WithoutHeaders(Append(words, word)))
               = FlattenSeq(WithoutHeaders(words)) \o WithoutHeader(word)
<1> DEFINE more == Append(words, word)
           N == Len(words)
<1>1. more \in Seq(Text) /\ Len(more) = N + 1 /\ more[N + 1] = word
      /\ \A n \in 1 .. N : more[n] = words[n]
  BY AppendProperties
<1> HIDE DEF more
<1>2. N \in Nat /\ N + 1 \in 1 .. N + 1 /\ \A n \in 1 .. N : n \in 1 .. N + 1
  OBVIOUS
<1>3. /\ WithoutHeaders(more) = [n \in 1 .. N + 1 |-> WithoutHeader(more[n])]
      /\ WithoutHeaders(words) = [n \in 1 .. N |-> WithoutHeader(words[n])]
  BY <1>1 DEF WithoutHeaders
<1>4. \A w \in Text : WithoutHeader(w) \in Text
  BY Texts DEF WithoutHeader
<1>5. /\ WithoutHeaders(more) \in Seq(Text) /\ Len(WithoutHeaders(more)) = N + 1
      /\ WithoutHeaders(words) \in Seq(Text) /\ Len(WithoutHeaders(words)) = N
      /\ WithoutHeader(word) \in Text
  <2>1. /\ \A n \in 1 .. N + 1 : WithoutHeader(more[n]) \in Text
        /\ \A n \in 1 .. N : WithoutHeader(words[n]) \in Text
    BY <1>1, <1>4
  <2> QED BY <1>2, <1>3, <1>4, <2>1
<1>6. /\ WithoutHeaders(more)[N + 1] = WithoutHeader(word)
      /\ \A n \in 1 .. N : WithoutHeaders(more)[n] = WithoutHeaders(words)[n]
  BY <1>1, <1>2, <1>3
<1> HIDE DEF N
<1> QED BY <1>5, <1>6, FlattenLonger DEF Text, more

\* The characters that are symbols are different ones,
LEMMA Symbols ==
    /\ DOMAIN symbolType = {Opening, Closing, "#model", ":", End}
    /\ symbolType[Opening] = "openingBrace" /\ symbolType[Closing] = "closingBrace"
    /\ symbolType["#model"] = "header" /\ symbolType[":"] = "colon"
    /\ symbolType[End] = "semicolon"
    /\ "#model" \notin {Opening, Closing, ":", End} /\ End \notin {Opening, Closing, ":"}
<1>1. DOMAIN symbolType = {Opening, Closing, "#model", ":", End}
  BY Zenon DEF symbolType, Opening, Closing, End
<1>2. symbolType[Opening] = "openingBrace" /\ symbolType[Closing] = "closingBrace"
  BY Zenon DEF symbolType, Opening, Closing
<1>3. symbolType["#model"] = "header" /\ symbolType[":"] = "colon" /\ symbolType[End] = "semicolon"
  BY Zenon DEF symbolType, End
<1>4. "#model" \notin {Opening, Closing, ":", End} /\ End \notin {Opening, Closing, ":"}
  BY Zenon DEF Opening, Closing, End
<1> QED BY <1>1, <1>2, <1>3, <1>4

\* and the token of a word has its text, unless it is a header.
LEMMA SymbolTexts ==
    ASSUME NEW raw \in Text
    PROVE  /\ Plain(parseToken(raw)) /\ TextOf(parseToken(raw)) = WithoutHeader(raw)
           /\ isSymbol(raw) => Len(parseToken(raw).value) <= 1
           /\ ~ isSymbol(raw) => parseToken(raw) = [type |-> "string", value |-> raw]
<1> DEFINE token == parseToken(raw)
<1>1. token = IF isSymbol(raw)
              THEN [type |-> symbolType[raw[1]], value |-> IF raw = <<End>> THEN <<>> ELSE raw]
              ELSE [type |-> "string", value |-> raw]
  BY Zenon DEF parseToken, End
<1> HIDE DEF token
<1>2. CASE isSymbol(raw)
  <2>1. raw[1] \in {Opening, Closing, "#model", ":", End} /\ Len(raw) = 1
    BY <1>2, Symbols DEF isSymbol
  <2>2. PICK c \in {Opening, Closing, "#model", ":", End} : raw = <<c>>
    <3>1. raw = <<raw[1]>>
      BY <2>1 DEF Text
    <3> QED BY <2>1, <3>1
  <2>3. /\ raw[1] = c /\ Len(raw) = 1
        /\ raw = <<End>> <=> c = End
        /\ raw = <<"#model">> <=> c = "#model"
    BY <2>2
  <2>4. token = [type |-> symbolType[c], value |-> IF c = End THEN <<>> ELSE <<c>>]
    BY <1>1, <1>2, <2>2, <2>3
  <2>5. token.type = symbolType[c] /\ token.value = IF c = End THEN <<>> ELSE <<c>>
    BY <2>4
  <2>6. Len(token.value) <= 1
    <3>1. Len(<<>>) = 0 /\ Len(<<c>>) = 1
      OBVIOUS
    <3> QED BY <2>5, <3>1
  <2>7. Plain(token) /\ TextOf(token) = IF c = "#model" THEN <<>> ELSE <<c>>
    <3>1. CASE c = Opening
      BY <2>5, <3>1, Symbols DEF Plain, TextOf
    <3>2. CASE c = Closing
      BY <2>5, <3>2, Symbols DEF Plain, TextOf
    <3>3. CASE c = "#model"
      BY <2>5, <3>3, Symbols DEF Plain, TextOf
    <3>4. CASE c = ":"
      BY <2>5, <3>4, Symbols DEF Plain, TextOf
    <3>5. CASE c = End
      BY <2>5, <3>5, Symbols DEF Plain, TextOf
    <3> QED BY <2>2, <3>1, <3>2, <3>3, <3>4, <3>5
  <2> QED BY <1>2, <2>2, <2>3, <2>6, <2>7 DEF token, WithoutHeader
<1>3. CASE ~ isSymbol(raw)
  <2>1. token = [type |-> "string", value |-> raw]
    BY <1>1, <1>3
  <2>2. raw # <<"#model">>
    <3>1. "#model" \in DOMAIN symbolType
      BY Symbols
    <3> QED BY <1>3, <3>1 DEF isSymbol
  <2> QED BY <1>3, <2>1, <2>2 DEF Plain, TextOf, WithoutHeader, token
<1> QED BY <1>2, <1>3

\* The tokens of a word, one or two, have its text.
LEMMA TokenTexts ==
    ASSUME NEW word \in Text
    PROVE  \/ \E a \in TokenSet : /\ tokenize(word) = <<a>> /\ Plain(a)
                                  /\ TextOf(a) = WithoutHeader(word)
           \/ \E a, b \in TokenSet : /\ tokenize(word) = <<a, b>> /\ Plain(a) /\ Plain(b)
                                     /\ TextOf(a) \o TextOf(b) = WithoutHeader(word)
<1> DEFINE first == parseToken(word)
           last == Last(word)
           short == [first EXCEPT !.value = Front(word)]
           second == parseToken(<<last>>)
           two == Len(first.value) > 1 /\ last \in {":", End}
<1>1. tokenize(word) = IF two THEN <<short, second>> ELSE <<first>>
  BY Zenon DEF tokenize, End
<1>2. /\ Plain(first) /\ TextOf(first) = WithoutHeader(word)
      /\ isSymbol(word) => Len(first.value) <= 1
      /\ ~ isSymbol(word) => first = [type |-> "string", value |-> word]
  BY SymbolTexts
<1>3. CASE ~ two
  <2> HIDE DEF first, two
  <2>1. Len(<<first>>) = 1 /\ <<first>>[1] = first /\ tokenize(word) = <<first>>
    BY <1>1, <1>3
  <2>2. <<first>> \in Seq(TokenSet)
    BY <2>1, Tokens
  <2>3. first \in TokenSet
    BY <2>1, <2>2
  <2> QED BY <1>2, <2>1, <2>3
<1>4. CASE two
  <2>1. ~ isSymbol(word) /\ first = [type |-> "string", value |-> word] /\ Len(word) > 1
    <3>1. Len(first.value) > 1
      BY <1>4
    <3> HIDE DEF first, two
    <3>2. CASE isSymbol(word)
      <4>1. Len(first.value) <= 1 /\ first.value \in Text
        <5>1. parseToken(word) \in TokenSet
          BY ParsedToken
        <5> QED BY <1>2, <3>2, <5>1 DEF first, TokenSet
      <4>2. Len(first.value) \in Nat
        BY <4>1 DEF Text
      <4> QED BY <3>1, <4>1, <4>2
    <3>3. CASE ~ isSymbol(word)
      BY <1>2, <3>1, <3>3
    <3> QED BY <3>2, <3>3
  <2>2. short = [type |-> "string", value |-> Front(word)]
    <3> HIDE DEF first
    <3> QED BY <2>1
  <2>3. last \in {":", End} /\ <<last>> \in Text
    <3>1. last \in {":", End} /\ last \in Atom
      BY <1>4 DEF Atom
    <3> HIDE DEF last
    <3> QED BY <3>1, OneElement DEF Text
  <2>4. Plain(second) /\ TextOf(second) = <<last>>
    <3> HIDE DEF last
    <3>1. <<last>> # <<"#model">>
      BY <2>3, Symbols
    <3> QED BY <2>3, <3>1, SymbolTexts DEF WithoutHeader
  <2>5. Plain(short) /\ TextOf(short) = Front(word)
    <3> HIDE DEF short
    <3> QED BY <2>2 DEF Plain, TextOf
  <2>6. Front(word) \o <<last>> = word /\ WithoutHeader(word) = word
    <3> DEFINE N == Len(word)
    <3>1. N \in Nat /\ N > 1 /\ word \in Seq(Atom)
      BY <2>1 DEF Text
    <3>2. SubSeq(word, 1, N) = SubSeq(word, 1, N - 1) \o <<word[N]>>
      <4>1. 1 \in 1 .. N /\ N \in 1 .. N
        BY <3>1
      <4> QED BY <3>1, <4>1, SubSeqRecursiveSecond
    <3>3. SubSeq(word, 1, N) = word
      BY <3>1, SubSeqFull
    <3>4. word # <<"#model">>
      <4>1. Len(<<"#model">>) = 1
        OBVIOUS
      <4> HIDE DEF first
      <4> QED BY <2>1, <4>1
    <3>5. Front(word) = SubSeq(word, 1, N - 1) /\ last = word[N]
      BY DEF Front, Last
    <3> HIDE DEF N, last
    <3> QED BY <3>2, <3>3, <3>4, <3>5 DEF WithoutHeader
  <2> HIDE DEF short, second, two, last
  <2>7. tokenize(word) = <<short, second>>
    BY <1>1, <1>4
  <2>8. short \in TokenSet /\ second \in TokenSet
    <3>1. <<short, second>> \in Seq(TokenSet)
      BY <2>7, Tokens
    <3>2. Len(<<short, second>>) = 2 /\ <<short, second>>[1] = short /\ <<short, second>>[2] = second
      OBVIOUS
    <3> QED BY <3>1, <3>2
  <2> QED BY <2>4, <2>5, <2>6, <2>7, <2>8
<1> HIDE DEF two
<1> QED BY <1>3, <1>4

\* What holds of all tokens holds of them and another one.
LEMMA PlainAppend ==
    ASSUME NEW tokens \in Seq(TokenSet), NEW token \in TokenSet, Plain(token),
           \A n \in 1 .. Len(tokens) : Plain(tokens[n])
    PROVE  \A n \in 1 .. Len(Append(tokens, token)) : Plain(Append(tokens, token)[n])
<1> DEFINE more == Append(tokens, token)
           N == Len(tokens)
<1>1. Len(more) = N + 1 /\ more[N + 1] = token /\ \A n \in 1 .. N : more[n] = tokens[n]
  BY AppendProperties
<1> HIDE DEF more
<1>2. \A n \in 1 .. N + 1 : n \in 1 .. N \/ n = N + 1
  OBVIOUS
<1> HIDE DEF N
<1>3. \A n \in 1 .. N : Plain(tokens[n])
  BY DEF N
<1>4. \A n \in 1 .. N + 1 : Plain(more[n])
  BY <1>1, <1>2, <1>3
<1> QED BY <1>1, <1>4 DEF more

\* Reading a word adds its text to that of the tokens, and leaves what is behind
\* the parser as it is.
LEMMA ReadTokens ==
    ASSUME ParserOK, TokensInv, NEW word \in Text, Read(word)
    PROVE  TokensInv' /\ Passed' = Passed
<1>1. /\ m_tokens \in Seq(TokenSet) /\ source \in Seq(Text) /\ m_currentIndex \in 0 .. Len(m_tokens)
      /\ \A n \in 1 .. Len(m_tokens) : Plain(m_tokens[n])
      /\ FlattenSeq(TextsOf(m_tokens)) = FlattenSeq(WithoutHeaders(source))
      /\ m_tokens' = m_tokens \o tokenize(word) /\ source' = Append(source, word)
      /\ m_currentIndex' = m_currentIndex
  BY DEF ParserOK, TokensInv, Read
<1>2. tokenize(word) \in Seq(TokenSet)
  BY Tokens
<1>3. FlattenSeq(WithoutHeaders(source')) = FlattenSeq(TextsOf(m_tokens)) \o WithoutHeader(word)
  BY <1>1, WordsAppend
<1>4. TokensInv'
  <2>1. CASE \E a \in TokenSet : /\ tokenize(word) = <<a>> /\ Plain(a)
                                 /\ TextOf(a) = WithoutHeader(word)
    <3>1. PICK a \in TokenSet : /\ tokenize(word) = <<a>> /\ Plain(a)
                                /\ TextOf(a) = WithoutHeader(word)
      BY <2>1
    <3>2. m_tokens' = Append(m_tokens, a)
      BY <1>1, <3>1, AppendIsConcat
    <3>3. FlattenSeq(TextsOf(m_tokens')) = FlattenSeq(WithoutHeaders(source'))
      BY <1>1, <1>3, <3>1, <3>2, TextsAppend
    <3>4. \A n \in 1 .. Len(m_tokens') : Plain(m_tokens'[n])
      BY <1>1, <3>1, <3>2, PlainAppend
    <3> QED BY <3>3, <3>4, <1>1, <1>2 DEF TokensInv
  <2>2. CASE \E a, b \in TokenSet : /\ tokenize(word) = <<a, b>> /\ Plain(a) /\ Plain(b)
                                    /\ TextOf(a) \o TextOf(b) = WithoutHeader(word)
    <3>1. PICK a \in TokenSet, b \in TokenSet :
              /\ tokenize(word) = <<a, b>> /\ Plain(a) /\ Plain(b)
              /\ TextOf(a) \o TextOf(b) = WithoutHeader(word)
      BY <2>2
    <3> DEFINE middle == Append(m_tokens, a)
    <3>2. middle \in Seq(TokenSet) /\ m_tokens' = Append(middle, b)
      <4>1. middle \in Seq(TokenSet)
        BY <1>1, AppendProperties
      <4>2. middle = m_tokens \o <<a>> /\ Append(middle, b) = middle \o <<b>>
        BY <1>1, <4>1, AppendIsConcat
      <4>3. <<a>> \in Seq(TokenSet) /\ <<b>> \in Seq(TokenSet) /\ <<a>> \o <<b>> = <<a, b>>
        <5>1. <<a>> \in Seq(TokenSet) /\ <<b>> \in Seq(TokenSet)
          BY OneElement
        <5> DEFINE both == <<a>> \o <<b>>
        <5>2. both \in Seq(TokenSet) /\ Len(both) = 2 /\ both[1] = a /\ both[2] = b
          <6>1. Len(<<a>>) = 1 /\ Len(<<b>>) = 1 /\ <<a>>[1] = a /\ <<b>>[1] = b
            OBVIOUS
          <6> QED BY <5>1, <6>1, ConcatProperties
        <5> HIDE DEF both
        <5>3. both = <<a, b>>
          BY <5>2
        <5> QED BY <5>1, <5>3 DEF both
      <4>4. (m_tokens \o <<a>>) \o <<b>> = m_tokens \o (<<a>> \o <<b>>)
        BY <1>1, <4>3, ConcatAssociative
      <4> HIDE DEF middle
      <4> QED BY <1>1, <3>1, <4>1, <4>2, <4>3, <4>4
    <3>3. /\ FlattenSeq(TextsOf(middle)) = FlattenSeq(TextsOf(m_tokens)) \o TextOf(a)
          /\ \A n \in 1 .. Len(middle) : Plain(middle[n])
      BY <1>1, <3>1, TextsAppend, PlainAppend
    <3> HIDE DEF middle
    <3>4. /\ FlattenSeq(TextsOf(m_tokens')) = FlattenSeq(TextsOf(middle)) \o TextOf(b)
          /\ \A n \in 1 .. Len(m_tokens') : Plain(m_tokens'[n])
      BY <3>1, <3>2, <3>3, TextsAppend, PlainAppend
    <3>5. FlattenSeq(TextsOf(m_tokens')) = FlattenSeq(TextsOf(m_tokens)) \o (TextOf(a) \o TextOf(b))
      <4>1. FlattenSeq(TextsOf(m_tokens)) \in Seq(Atom) /\ TextOf(a) \in Seq(Atom) /\ TextOf(b) \in Seq(Atom)
        BY <1>1, <3>1, TextsType, TextOfType DEF Text
      <4> QED BY <3>3, <3>4, <4>1, ConcatAssociative
    <3>6. m_tokens' \in Seq(TokenSet)
      BY <3>1, <3>2, AppendProperties
    <3>7. DOMAIN m_tokens' = 1 .. Len(m_tokens')
      BY <3>6
    <3>8. FlattenSeq(TextsOf(m_tokens')) = FlattenSeq(WithoutHeaders(source'))
      BY <1>3, <3>1, <3>5
    <3> QED BY <3>4, <3>7, <3>8 DEF TokensInv
  <2> QED BY <2>1, <2>2, TokenTexts
<1>5. Passed' = Passed
  <2> DEFINE more == tokenize(word)
             top == m_currentIndex
  <2> HIDE DEF more, top
  <2>1. SubSeq(m_tokens \o more, 1, top) = SubSeq(m_tokens, 1, top)
    <3>1. CASE top = 0
      <4>1. SubSeq(m_tokens \o more, 1, 0) = <<>> /\ SubSeq(m_tokens, 1, 0) = <<>>
        BY SubSeqEmpty
      <4> QED BY <3>1, <4>1
    <3>2. CASE top # 0
      <4>1. 1 \in 1 .. Len(m_tokens) /\ top \in 1 .. Len(m_tokens)
        BY <1>1, <3>2 DEF top
      <4> QED BY <1>1, <1>2, <4>1, SubSeqOfConcat1 DEF more
    <3> QED BY <3>1, <3>2
  <2> QED BY <1>1, <2>1 DEF Passed, more, top
<1> QED BY <1>4, <1>5

\* One token further.
LEMMA PassedNext ==
    ASSUME ParserOK, NEW here, NEW type, NEW next, getNextToken(here, type, next)
    PROVE  /\ Passed' = Passed \o TextOf(nextToken)
           /\ Passed \in Text /\ TextOf(nextToken) \in Text
<1> DEFINE n == m_currentIndex
<1>1. /\ m_tokens \in Seq(TokenSet) /\ n \in 0 .. Len(m_tokens) /\ n < Len(m_tokens)
      /\ m_tokens' = m_tokens /\ m_currentIndex' = n + 1
  BY DEF ParserOK, getNextToken, inputVars, Ready
<1>2. nextToken = m_tokens[n + 1] /\ nextToken \in TokenSet
  BY NextToken DEF nextToken, getNextToken
<1> HIDE DEF n
<1> DEFINE behind == SubSeq(m_tokens, 1, n)
<1>3. behind \in Seq(TokenSet)
  <2>1. \A k \in 1 .. n : m_tokens[k] \in TokenSet
    BY <1>1
  <2> QED BY <1>1, <2>1, SubSeqProperties
<1>4. SubSeq(m_tokens, 1, n + 1) = Append(behind, nextToken)
  <2> DEFINE top == n + 1
  <2>1. 1 \in 1 .. Len(m_tokens) /\ top \in 1 .. Len(m_tokens) /\ top - 1 = n
    BY <1>1
  <2>2. nextToken = m_tokens[top]
    BY <1>2
  <2> HIDE DEF top
  <2>3. SubSeq(m_tokens, 1, top) = SubSeq(m_tokens, 1, top - 1) \o <<m_tokens[top]>>
    BY <1>1, <2>1, SubSeqRecursiveSecond
  <2>4. SubSeq(m_tokens, 1, top) = behind \o <<nextToken>>
    BY <2>1, <2>2, <2>3
  <2> QED BY <1>2, <1>3, <2>4, AppendIsConcat DEF top
<1>5. Passed = FlattenSeq(TextsOf(behind)) /\ Passed' = FlattenSeq(TextsOf(Append(behind, nextToken)))
  BY <1>1, <1>4 DEF Passed, n
<1> HIDE DEF behind
<1> QED BY <1>2, <1>3, <1>5, TextsAppend, TextsType, TextOfType

\* Texts can be concatenated in any grouping.
LEMMA Concatenation ==
    /\ \A a, b \in Text : a \o b \in Text
    /\ \A a, b, c \in Text : (a \o b) \o c = a \o (b \o c)
    /\ \A a \in Text : a \o <<>> = a /\ <<>> \o a = a
<1>1. ASSUME NEW a \in Text, NEW b \in Text PROVE a \o b \in Text
  BY ConcatProperties DEF Text
<1>2. ASSUME NEW a \in Text, NEW b \in Text, NEW c \in Text
      PROVE  (a \o b) \o c = a \o (b \o c)
  BY ConcatAssociative DEF Text
<1>3. ASSUME NEW a \in Text PROVE a \o <<>> = a /\ <<>> \o a = a
  BY ConcatEmptySeq DEF Text
<1> QED BY <1>1, <1>2, <1>3

\* The symbols are atoms.
LEMMA Signs ==
    /\ <<End>> \in Text /\ <<Opening>> \in Text /\ <<Closing>> \in Text /\ <<":">> \in Text
    /\ \A kind \in Kind : <<kind>> \in Text
<1>1. End \in Atom /\ Opening \in Atom /\ Closing \in Atom /\ ":" \in Atom /\ Kind \subseteq Atom
  BY DEF Atom
<1>2. \A x \in Atom : <<x>> \in Text
  BY OneElement DEF Text
<1> QED BY <1>1, <1>2

Whole == {s \in EnumSet \cup ModelSet : s \in Structure(s.kind)}

\* The members of a model or an enum have a text,
LEMMA MembersType ==
    ASSUME NEW s \in Whole
    PROVE  /\ s.kind \in Kind /\ s.name \in Text
           /\ MembersOf(s) \in Seq(Text) /\ Len(MembersOf(s)) = Len(s.members)
           /\ FlattenSeq(MembersOf(s)) \in Text
           /\ \E S : s.members \in Seq(S)
<1>1. PICK S \in {FieldSet, Text} :
          /\ s.members \in Seq(S)
          /\ \A m \in S : MemberOf(s.kind, m) \in Text
  <2>1. CASE s.kind = "enum"
    <3>1. s.members \in Seq(Text)
      BY <2>1 DEF Whole, Structure, EnumSet
    <3>2. ASSUME NEW m \in Text PROVE MemberOf(s.kind, m) \in Text
      <4>1. End \in Atom
        BY DEF Atom
      <4>2. Append(m, End) \in Text
        BY <4>1, AppendProperties DEF Text
      <4> QED BY <2>1, <4>2 DEF MemberOf
    <3> QED BY <3>1, <3>2
  <2>2. CASE s.kind # "enum"
    <3>1. s.members \in Seq(FieldSet)
      BY <2>2 DEF Whole, Structure, ModelSet
    <3>2. ASSUME NEW m \in FieldSet PROVE MemberOf(s.kind, m) \in Text
      <4>1. m.name \in Text /\ m.type \in Text
        BY DEF FieldSet
      <4>2. m.name \o <<":">> \o m.type \o <<End>> \in Text
        BY <4>1, Signs, Concatenation
      <4> QED BY <2>2, <4>2 DEF MemberOf
    <3> QED BY <3>1, <3>2
  <2> QED BY <2>1, <2>2
<1> DEFINE N == Len(s.members)
<1>2. N \in Nat /\ DOMAIN s.members = 1 .. N /\ \A n \in 1 .. N : s.members[n] \in S
  BY <1>1
<1>3. MembersOf(s) = [n \in 1 .. N |-> MemberOf(s.kind, s.members[n])]
  BY <1>2 DEF MembersOf
<1>4. \A n \in 1 .. N : MemberOf(s.kind, s.members[n]) \in Text
  BY <1>1, <1>2
<1> HIDE DEF N
<1>5. MembersOf(s) \in Seq(Text) /\ Len(MembersOf(s)) = N
  BY <1>2, <1>3, <1>4
<1>6. FlattenSeq(MembersOf(s)) \in Text
  BY <1>5, FlattenType DEF Text
<1>7. s.kind \in Kind /\ s.name \in Text
  BY DEF Whole, EnumSet, ModelSet
<1> QED BY <1>1, <1>5, <1>6, <1>7 DEF N

\* and so has the part of one that has been read.
LEMMA BegunType ==
    ASSUME NEW s \in Whole
    PROVE  /\ Heading(s) \in Text /\ Begun(s) \in Text
           /\ Declaration(s) = Begun(s) \o <<Closing>> /\ Declaration(s) \in Text
<1>1. Heading(s) \in Text
  BY MembersType, Signs, Concatenation DEF Heading
<1>2. Begun(s) \in Text
  BY <1>1, MembersType, Signs, Concatenation DEF Begun
<1>3. Declaration(s) = Begun(s) \o <<Closing>>
  BY Zenon DEF Declaration, Begun, Heading, MembersOf, MemberOf, Opening, Closing, End
<1>4. Begun(s) \o <<Closing>> \in Text
  BY <1>2, Signs, Concatenation
<1> QED BY <1>1, <1>2, <1>3, <1>4

WithMember(s, m) == [s EXCEPT !.members = Append(@, m)]

\* With one more member there is its text more.
LEMMA MemberAdded ==
    ASSUME NEW s \in Whole, NEW m, WithMember(s, m) \in Whole
    PROVE  Begun(WithMember(s, m)) = Begun(s) \o MemberOf(s.kind, m)
<1> DEFINE t == WithMember(s, m)
<1>1. /\ t.kind = s.kind /\ t.name = s.name /\ t.members = Append(s.members, m)
      /\ t \in Whole
  BY DEF Whole, EnumSet, ModelSet, WithMember
<1> HIDE DEF t
<1>2. PICK S : s.members \in Seq(S)
  BY MembersType
<1> DEFINE N == Len(s.members)
<1>3. /\ N \in Nat /\ DOMAIN s.members = 1 .. N /\ DOMAIN t.members = 1 .. N + 1
      /\ t.members[N + 1] = m /\ \A n \in 1 .. N : t.members[n] = s.members[n]
  <2>1. s.members \in Seq(S \cup {m}) /\ m \in S \cup {m}
    BY <1>2
  <2> QED BY <1>1, <2>1
<1>4. /\ MembersOf(s) \in Seq(Text) /\ Len(MembersOf(s)) = N
      /\ MembersOf(t) \in Seq(Text) /\ Len(MembersOf(t)) = N + 1
  <2>1. Len(t.members) = N + 1
    BY <1>1, <1>2
  <2> QED BY <1>1, <2>1, MembersType
<1> HIDE DEF N
<1>5. /\ MembersOf(t)[N + 1] = MemberOf(s.kind, m)
      /\ \A n \in 1 .. N : MembersOf(t)[n] = MembersOf(s)[n]
  <2> DEFINE before == s.members
             after == t.members
             text(x) == MemberOf(s.kind, x)
             texts == MembersOf(t)
  <2>1. /\ texts = [n \in 1 .. N + 1 |-> text(after[n])]
        /\ MembersOf(s) = [n \in 1 .. N |-> text(before[n])]
    BY <1>1, <1>3 DEF MembersOf
  <2>2. after[N + 1] = m /\ \A n \in 1 .. N : after[n] = before[n]
    BY <1>3
  <2>3. N + 1 \in 1 .. N + 1 /\ \A n \in 1 .. N : n \in 1 .. N + 1
    BY <1>3
  <2> HIDE DEF before, after, text, texts
  <2>4. texts[N + 1] = text(m) /\ \A n \in 1 .. N : texts[n] = MembersOf(s)[n]
    BY <2>1, <2>2, <2>3
  <2> QED BY <2>4 DEF text, texts
<1> DEFINE added == MemberOf(s.kind, m)
<1>6. added \in Text
  <2>1. N + 1 \in 1 .. N + 1
    BY <1>3
  <2> QED BY <1>4, <1>5, <2>1
<1> HIDE DEF added
<1>7. FlattenSeq(MembersOf(t)) = FlattenSeq(MembersOf(s)) \o added
  BY <1>4, <1>5, <1>6, FlattenLonger DEF Text, added
<1>8. /\ Heading(t) = Heading(s) /\ Heading(s) \in Text /\ Heading(s) \o <<Opening>> \in Text
      /\ FlattenSeq(MembersOf(s)) \in Text
  BY <1>1, BegunType, MembersType, Signs, Concatenation DEF Heading
<1> DEFINE head == Heading(s) \o <<Opening>>
           members == FlattenSeq(MembersOf(s))
<1>9. /\ Begun(t) = head \o (members \o added) /\ Begun(s) = head \o members
      /\ head \in Text /\ members \in Text
  BY <1>7, <1>8 DEF Begun
<1> HIDE DEF head, members
<1>10. (head \o members) \o added = head \o (members \o added)
  BY <1>6, <1>9, Concatenation
<1>11. Begun(t) = Begun(s) \o added
  BY <1>9, <1>10
<1> QED BY <1>11 DEF added, t

\* The models and enums in an order: S are the places of the models.
Before(S, n) == Cardinality({k \in S : k <= n})
Mixed(models, enums, S) ==
    LET place == 1 .. Len(models) + Len(enums)
    IN [n \in place |-> IF n \in S THEN models[Before(S, n)] ELSE enums[Before(place \ S, n)]]

Places(models, enums) ==
    {S \in SUBSET (1 .. Len(models) + Len(enums)) : Cardinality(S) = Len(models)}
NextPlace(models, enums) == Len(models) + Len(enums) + 1

OrdersOf(models, enums) == {Mixed(models, enums, S) : S \in Places(models, enums)}

\* The k-th place is that of the k-th model.
LEMMA Counting ==
    ASSUME NEW N \in Nat, NEW S, S \subseteq 1 .. N
    PROVE  /\ IsFiniteSet(S) /\ Cardinality(S) \in Nat
           /\ \A n \in S : Before(S, n) \in 1 .. Cardinality(S)
           /\ Cardinality((1 .. N) \ S) = N - Cardinality(S)
           /\ Cardinality(S \cup {N + 1}) = Cardinality(S) + 1
           /\ Before(S \cup {N + 1}, N + 1) = Cardinality(S) + 1
           /\ \A n \in 1 .. N : Before(S \cup {N + 1}, n) = Before(S, n)
<1>1. IsFiniteSet(1 .. N) /\ Cardinality(1 .. N) = N
  BY FS_Interval
<1>2. IsFiniteSet(S) /\ Cardinality(S) \in Nat
  BY <1>1, FS_Subset, FS_CardinalityType
<1>3. ASSUME NEW n \in S PROVE Before(S, n) \in 1 .. Cardinality(S)
  <2> DEFINE T == {k \in S : k <= n}
  <2>1. T \subseteq S /\ n \in T
    OBVIOUS
  <2> HIDE DEF T
  <2>2. IsFiniteSet(T) /\ Cardinality(T) <= Cardinality(S) /\ Cardinality(T) \in Nat
    BY <1>2, <2>1, FS_Subset, FS_CardinalityType
  <2>3. Cardinality(T) # 0
    BY <2>1, <2>2, FS_EmptySet
  <2>4. Before(S, n) = Cardinality(T)
    BY DEF Before, T
  <2> QED BY <1>2, <2>2, <2>3, <2>4
<1>4. Cardinality((1 .. N) \ S) = N - Cardinality(S)
  <2> DEFINE place == 1 .. N
  <2>1. place \cap S = S
    OBVIOUS
  <2>2. IsFiniteSet(place) /\ Cardinality(place) = N
    BY <1>1
  <2> HIDE DEF place
  <2>3. Cardinality(place \ S) = Cardinality(place) - Cardinality(place \cap S)
    BY <2>2, FS_Difference
  <2>4. Cardinality(place \ S) = N - Cardinality(S)
    BY <2>1, <2>2, <2>3
  <2> QED BY <2>4 DEF place
<1>5. Cardinality(S \cup {N + 1}) = Cardinality(S) + 1
  <2>1. N + 1 \notin S
    OBVIOUS
  <2> QED BY <1>2, <2>1, FS_AddElement
<1>6. Before(S \cup {N + 1}, N + 1) = Cardinality(S) + 1
  <2>1. {k \in S \cup {N + 1} : k <= N + 1} = S \cup {N + 1}
    <3>1. \A k \in S \cup {N + 1} : k <= N + 1
      OBVIOUS
    <3> QED BY <3>1
  <2> QED BY <1>5, <2>1 DEF Before
<1>7. ASSUME NEW n \in 1 .. N PROVE Before(S \cup {N + 1}, n) = Before(S, n)
  <2>1. {k \in S \cup {N + 1} : k <= n} = {k \in S : k <= n}
    OBVIOUS
  <2> QED BY <2>1 DEF Before
<1> QED BY <1>2, <1>3, <1>4, <1>5, <1>6, <1>7

\* A mixture of models and enums is a sequence of them.
LEMMA MixedType ==
    ASSUME NEW models \in Seq(Whole), NEW enums \in Seq(Whole),
           NEW S \in Places(models, enums)
    PROVE  /\ Mixed(models, enums, S) \in Seq(Whole)
           /\ Len(Mixed(models, enums, S)) = Len(models) + Len(enums)
<1> DEFINE m == Len(models)
           e == Len(enums)
           N == m + e
           rest == (1 .. N) \ S
           order == Mixed(models, enums, S)
<1>1. m \in Nat /\ e \in Nat /\ N \in Nat /\ N = m + e
  OBVIOUS
<1>2. S \subseteq 1 .. N /\ rest \subseteq 1 .. N /\ Cardinality(S) = m
  BY DEF Places
<1>3. order = [n \in 1 .. N |-> IF n \in S THEN models[Before(S, n)] ELSE enums[Before(rest, n)]]
  BY DEF Mixed
<1>4. (\A i \in 1 .. m : models[i] \in Whole) /\ (\A i \in 1 .. e : enums[i] \in Whole)
  OBVIOUS
<1>5. \A n \in 1 .. N : n \notin S => n \in rest
  OBVIOUS
<1> HIDE DEF m, e, N, rest, order
<1>6. Cardinality(rest) = e
  <2>1. Cardinality(rest) = N - Cardinality(S)
    BY <1>1, <1>2, Counting DEF rest
  <2> QED BY <1>1, <1>2, <2>1
<1>7. \A n \in S : models[Before(S, n)] \in Whole
  BY <1>1, <1>2, <1>4, Counting
<1>8. \A n \in rest : enums[Before(rest, n)] \in Whole
  BY <1>1, <1>2, <1>4, <1>6, Counting
<1>9. order \in [1 .. N -> Whole]
  BY <1>3, <1>5, <1>7, <1>8
<1>10. order \in Seq(Whole) /\ Len(order) = N
  BY <1>1, <1>9
<1> QED BY <1>1, <1>10 DEF order, m, e

\* A model or an enum is completed: it is the last one.
LEMMA MixedAppend ==
    ASSUME NEW models \in Seq(Whole), NEW enums \in Seq(Whole), NEW x \in Whole,
           NEW S \in Places(models, enums)
    PROVE  /\ Mixed(Append(models, x), enums, S \cup {NextPlace(models, enums)})
                  = Append(Mixed(models, enums, S), x)
           /\ Mixed(models, Append(enums, x), S) = Append(Mixed(models, enums, S), x)
<1> DEFINE m == Len(models)
           e == Len(enums)
           N == m + e
           rest == (1 .. N) \ S
           order == Mixed(models, enums, S)
           more == Append(models, x)
           others == Append(enums, x)
           after == Append(order, x)
<1>1. m \in Nat /\ e \in Nat /\ N \in Nat /\ N = m + e /\ NextPlace(models, enums) = N + 1
  BY DEF NextPlace
<1>2. S \subseteq 1 .. N /\ rest \subseteq 1 .. N /\ Cardinality(S) = m
  BY DEF Places
<1>3. order = [n \in 1 .. N |-> IF n \in S THEN models[Before(S, n)] ELSE enums[Before(rest, n)]]
  BY DEF Mixed
<1>4. /\ Len(more) = m + 1 /\ more[m + 1] = x /\ \A i \in 1 .. m : more[i] = models[i]
      /\ Len(others) = e + 1 /\ others[e + 1] = x /\ \A i \in 1 .. e : others[i] = enums[i]
  BY AppendProperties
<1>5. order \in Seq(Whole) /\ Len(order) = N
  BY MixedType
<1>6. \A n \in 1 .. N : n \notin S => n \in rest
  OBVIOUS
<1>7. 1 .. N + 1 = (1 .. N) \cup {N + 1} /\ N + 1 \notin S /\ N + 1 \notin 1 .. N
  <2> HIDE DEF m, e, N
  <2> QED BY <1>1, <1>2
<1>8. (1 .. N + 1) \ (S \cup {N + 1}) = rest /\ (1 .. N + 1) \ S = rest \cup {N + 1}
  BY <1>7
<1> HIDE DEF m, e, N, rest, order, more, others
<1>9. Cardinality(rest) = e
  <2>1. Cardinality(rest) = N - Cardinality(S)
    BY <1>1, <1>2, Counting DEF rest
  <2> QED BY <1>1, <1>2, <2>1
<1>10. after = [n \in 1 .. N + 1 |-> IF n = N + 1 THEN x ELSE order[n]]
  <2>1. after \in Seq(Whole) /\ Len(after) = N + 1 /\ after[N + 1] = x
        /\ \A n \in 1 .. N : after[n] = order[n]
    BY <1>5, AppendProperties
  <2> HIDE DEF after
  <2>2. DOMAIN after = 1 .. N + 1 /\ after = [n \in DOMAIN after |-> after[n]]
    BY <2>1
  <2>3. \A n \in 1 .. N + 1 : after[n] = IF n = N + 1 THEN x ELSE order[n]
    BY <1>7, <2>1
  <2> QED BY <2>2, <2>3
<1> HIDE DEF after
<1>11. Mixed(more, enums, S \cup {N + 1}) = after
  <2> DEFINE T == S \cup {N + 1}
  <2>1. (m + 1) + e = N + 1
    BY <1>1
  <2>2. Mixed(more, enums, T) =
          [n \in 1 .. N + 1 |-> IF n \in T THEN more[Before(T, n)] ELSE enums[Before(rest, n)]]
    <3>1. Len(more) + Len(enums) = N + 1
      BY <1>4, <2>1 DEF e
    <3>2. (1 .. N + 1) \ T = rest
      BY <1>8
    <3> HIDE DEF T
    <3> QED BY <3>1, <3>2 DEF Mixed
  <2>3. Before(T, N + 1) = m + 1 /\ \A n \in 1 .. N : Before(T, n) = Before(S, n)
    <3>1. Before(T, N + 1) = Cardinality(S) + 1
      BY <1>1, <1>2, Counting
    <3>2. \A n \in 1 .. N : Before(T, n) = Before(S, n)
      <4>1. N \in Nat /\ S \subseteq 1 .. N
        BY <1>1, <1>2
      <4> QED BY <4>1, Counting
    <3> HIDE DEF T
    <3> QED BY <1>2, <3>1, <3>2
  <2>4. \A n \in S : Before(S, n) \in 1 .. m
    BY <1>1, <1>2, Counting
  <2>5. \A n \in 1 .. N : n \in T <=> n \in S
    BY <1>7
  <2>6. N + 1 \in T
    OBVIOUS
  <2> HIDE DEF T
  <2>7. ASSUME NEW n \in 1 .. N + 1
        PROVE  (IF n \in T THEN more[Before(T, n)] ELSE enums[Before(rest, n)])
                   = IF n = N + 1 THEN x ELSE order[n]
    <3>1. CASE n = N + 1
      BY <1>4, <2>3, <2>6, <3>1
    <3>2. CASE n # N + 1
      <4>1. n \in 1 .. N
        BY <1>7, <3>2
      <4>2. order[n] = IF n \in S THEN models[Before(S, n)] ELSE enums[Before(rest, n)]
        BY <1>3, <4>1
      <4>3. n \in S => more[Before(T, n)] = models[Before(S, n)]
        BY <1>4, <2>3, <2>4, <4>1
      <4> QED BY <2>5, <3>2, <4>1, <4>2, <4>3
    <3> QED BY <3>1, <3>2
  <2>8. Mixed(more, enums, T) = after
    BY <1>10, <2>2, <2>7
  <2> QED BY <2>8 DEF T
<1>12. Mixed(models, others, S) = after
  <2> DEFINE T == rest \cup {N + 1}
  <2>1. m + (e + 1) = N + 1
    BY <1>1
  <2>2. Mixed(models, others, S) =
          [n \in 1 .. N + 1 |-> IF n \in S THEN models[Before(S, n)] ELSE others[Before(T, n)]]
    <3>1. Len(models) + Len(others) = N + 1
      BY <1>4, <2>1 DEF m
    <3>2. (1 .. N + 1) \ S = T
      BY <1>8
    <3> HIDE DEF T
    <3> QED BY <3>1, <3>2 DEF Mixed
  <2>3. Before(T, N + 1) = e + 1 /\ \A n \in 1 .. N : Before(T, n) = Before(rest, n)
    <3>1. Before(T, N + 1) = Cardinality(rest) + 1
      BY <1>1, <1>2, Counting
    <3>2. \A n \in 1 .. N : Before(T, n) = Before(rest, n)
      <4>1. N \in Nat /\ rest \subseteq 1 .. N
        BY <1>1, <1>2
      <4> QED BY <4>1, Counting
    <3> HIDE DEF T
    <3> QED BY <1>2, <1>9, <3>1, <3>2
  <2>4. \A n \in rest : Before(rest, n) \in 1 .. e
    BY <1>1, <1>2, <1>9, Counting
  <2> HIDE DEF T
  <2>5. ASSUME NEW n \in 1 .. N + 1
        PROVE  (IF n \in S THEN models[Before(S, n)] ELSE others[Before(T, n)])
                   = IF n = N + 1 THEN x ELSE order[n]
    <3>1. CASE n = N + 1
      BY <1>4, <1>7, <2>3, <3>1
    <3>2. CASE n # N + 1
      <4>1. n \in 1 .. N
        BY <1>7, <3>2
      <4>2. order[n] = IF n \in S THEN models[Before(S, n)] ELSE enums[Before(rest, n)]
        BY <1>3, <4>1
      <4>3. n \notin S => others[Before(T, n)] = enums[Before(rest, n)]
        BY <1>4, <1>6, <2>3, <2>4, <4>1
      <4> QED BY <3>2, <4>2, <4>3
    <3> QED BY <3>1, <3>2
  <2> QED BY <1>10, <2>2, <2>5
<1> QED BY <1>1, <1>11, <1>12 DEF order, more, others, after

\* An order of what was completed is continued by what is completed next.
LEMMA OrdersGrow ==
    ASSUME NEW models \in Seq(Whole), NEW enums \in Seq(Whole), NEW x \in Whole,
           NEW order \in OrdersOf(models, enums)
    PROVE  /\ order \in Seq(Whole)
           /\ Append(order, x) \in OrdersOf(Append(models, x), enums)
           /\ Append(order, x) \in OrdersOf(models, Append(enums, x))
<1> DEFINE m == Len(models)
           e == Len(enums)
           last == NextPlace(models, enums)
           more == Append(models, x)
           others == Append(enums, x)
<1>1. PICK S \in Places(models, enums) : order = Mixed(models, enums, S)
  BY DEF OrdersOf
<1> DEFINE T == S \cup {last}
<1>2. /\ Mixed(more, enums, T) = Append(order, x)
      /\ Mixed(models, others, S) = Append(order, x)
  <2>1. /\ Mixed(Append(models, x), enums, S \cup {NextPlace(models, enums)})
               = Append(Mixed(models, enums, S), x)
        /\ Mixed(models, Append(enums, x), S) = Append(Mixed(models, enums, S), x)
    BY Zenon, MixedAppend
  <2> QED BY <1>1, <2>1
<1>3. order \in Seq(Whole)
  BY <1>1, MixedType
<1>4. m \in Nat /\ e \in Nat /\ last = m + e + 1 /\ Len(more) = m + 1 /\ Len(others) = e + 1
  BY AppendProperties DEF NextPlace
<1>5. S \subseteq 1 .. m + e /\ Cardinality(S) = m
  BY DEF Places
<1> HIDE DEF m, e, last, more, others
<1>6. Cardinality(T) = Cardinality(S) + 1
  <2> DEFINE N == m + e
  <2>1. N \in Nat /\ S \subseteq 1 .. N /\ last = N + 1
    BY <1>4, <1>5
  <2> HIDE DEF N
  <2> QED BY <2>1, Counting
<1>7. T \subseteq 1 .. Len(more) + e /\ Cardinality(T) = Len(more)
  <2>1. T \subseteq 1 .. (m + 1) + e
    BY <1>4, <1>5
  <2> QED BY <1>4, <1>5, <1>6, <2>1
<1>8. S \subseteq 1 .. m + Len(others)
  <2>1. S \subseteq 1 .. m + (e + 1)
    BY <1>4, <1>5
  <2> QED BY <1>4, <2>1
<1> HIDE DEF T
<1>9. Append(order, x) \in OrdersOf(more, enums)
  BY <1>2, <1>7 DEF OrdersOf, Places, e
<1>10. Append(order, x) \in OrdersOf(models, others)
  BY <1>2, <1>5, <1>8 DEF OrdersOf, Places, m
<1> QED BY <1>3, <1>9, <1>10 DEF more, others

\* The text of the declarations in an order.
LEMMA DeclarationsType ==
    ASSUME NEW order \in Seq(Whole)
    PROVE  /\ Declarations(order) \in Seq(Text) /\ Len(Declarations(order)) = Len(order)
           /\ FlattenSeq(Declarations(order)) \in Text
<1> DEFINE N == Len(order)
<1>1. N \in Nat /\ DOMAIN order = 1 .. N /\ \A n \in 1 .. N : order[n] \in Whole
  OBVIOUS
<1> HIDE DEF N
<1>2. Declarations(order) = [n \in 1 .. N |-> Declaration(order[n])]
  BY <1>1 DEF Declarations
<1>3. \A n \in 1 .. N : Declaration(order[n]) \in Text
  BY <1>1, BegunType
<1>4. Declarations(order) \in Seq(Text) /\ Len(Declarations(order)) = N
  BY <1>1, <1>2, <1>3
<1> QED BY <1>4, FlattenType DEF Text, N

\* The text of the declarations grows by that of the last one.
LEMMA DeclarationsAppend ==
    ASSUME NEW order \in Seq(Whole), NEW s \in Whole
    PROVE  FlattenSeq(Declarations(Append(order, s)))
               = FlattenSeq(Declarations(order)) \o Declaration(s)
<1> DEFINE more == Append(order, s)
           N == Len(order)
<1>1. more \in Seq(Whole) /\ Len(more) = N + 1 /\ more[N + 1] = s
      /\ \A n \in 1 .. N : more[n] = order[n]
  BY AppendProperties
<1> HIDE DEF more
<1>2. N \in Nat /\ N + 1 \in 1 .. N + 1 /\ \A n \in 1 .. N : n \in 1 .. N + 1
  OBVIOUS
<1>3. /\ Declarations(more) = [n \in 1 .. N + 1 |-> Declaration(more[n])]
      /\ Declarations(order) = [n \in 1 .. N |-> Declaration(order[n])]
  BY <1>1 DEF Declarations
<1>4. /\ Declarations(more)[N + 1] = Declaration(s)
      /\ \A n \in 1 .. N : Declarations(more)[n] = Declarations(order)[n]
  BY <1>1, <1>2, <1>3
<1>5. /\ Declarations(more) \in Seq(Text) /\ Len(Declarations(more)) = N + 1
      /\ Declarations(order) \in Seq(Text) /\ Len(Declarations(order)) = N
      /\ Declaration(s) \in Text
  BY <1>1, DeclarationsType, BegunType
<1> HIDE DEF N
<1> QED BY <1>4, <1>5, FlattenLonger DEF Text, more

\* The orders of what has been completed, now and in the next state.
LEMMA OrdersAre ==
    /\ Orders = OrdersOf(m_structures.models, m_structures.enums)
    /\ Orders' = OrdersOf(m_structures'.models, m_structures'.enums)
BY DEF Orders, OrdersOf, Places, Mixed, Before

\* The orders that are possible when a model or an enum is completed have it as
\* the last.
LEMMA Completed ==
    ASSUME ParserOK, KindsInv, NEW order \in Orders
    PROVE  /\ order \in Seq(Whole)
           /\ ProcessClosingBrace => current \in Whole /\ Append(order, current) \in Orders'
<1> DEFINE models == m_structures.models
           enums == m_structures.enums
<1>1. models \in Seq(Whole) /\ enums \in Seq(Whole)
  <2>1. models \in Seq(ModelSet) /\ enums \in Seq(EnumSet)
    BY CurrentOK
  <2>2. /\ \A n \in 1 .. Len(models) : models[n] \in Whole
        /\ \A n \in 1 .. Len(enums) : enums[n] \in Whole
    BY <2>1 DEF KindsInv, Whole, Structure
  <2> HIDE DEF models, enums
  <2> QED BY <2>1, <2>2
<1>2. current \in Whole
  BY CurrentOK DEF Whole, Structure
<1>3. order \in OrdersOf(models, enums)
  BY OrdersAre
<1>4. ASSUME ProcessClosingBrace
      PROVE  \/ m_structures'.models = models /\ m_structures'.enums = Append(enums, current)
             \/ m_structures'.models = Append(models, current) /\ m_structures'.enums = enums
  BY <1>4 DEF ProcessClosingBrace, ParserOK
<1> HIDE DEF models, enums
<1>5. /\ order \in Seq(Whole)
      /\ Append(order, current) \in OrdersOf(Append(models, current), enums)
      /\ Append(order, current) \in OrdersOf(models, Append(enums, current))
  BY <1>1, <1>2, <1>3, OrdersGrow
<1> QED BY <1>2, <1>4, <1>5, OrdersAre

\* The beginning that is under construction is a text.
LEMMA BeginType ==
    ASSUME ParserOK PROVE Begin \in Text /\ Missing \in Text
<1>1. current \in Whole /\ fieldName \in Text /\ current.kind \in Kind
  BY CurrentOK DEF ParserOK, Whole, Structure, EnumSet, ModelSet
<1>2. Begun(current) \in Text /\ Heading(current) \in Text
  BY <1>1, BegunType
<1>3. /\ Begun(current) \o fieldName \in Text
      /\ Begun(current) \o fieldName \o <<":">> \in Text
      /\ <<current.kind>> \in Text
  BY <1>1, <1>2, Concatenation, Signs
<1>4. Begin \in Text
  BY <1>1, <1>2, <1>3, Texts DEF Begin
<1> QED BY <1>4, Texts, Signs DEF Missing

\* A token is read that is part of a declaration, other than its last.
LEMMA Farther ==
    ASSUME ParserOK, ParserOK', SourceInv, at \in Parsing, at # "semicolon",
           UNCHANGED m_structures,
           NEW here, NEW type, NEW next, getNextToken(here, type, next),
           Begin' = Begin \o (TextOf(nextToken) \o Missing')
    PROVE  \E order \in Orders' : Agrees(order)'
<1>1. PICK order \in Orders : Agrees(order)
  BY DEF SourceInv, Agrees
<1>2. order \in Orders'
  BY OrdersAre
<1> DEFINE done == FlattenSeq(Declarations(order))
           t == TextOf(nextToken)
<1>3. done \in Text
  BY Completed, DeclarationsType DEF SourceInv
<1>4. /\ Passed' = Passed \o t /\ Passed \in Text /\ t \in Text
  BY PassedNext
<1>5. Missing = <<>> /\ Missing' \in Text /\ Begin \in Text
  BY BeginType, Texts, Signs DEF Missing
<1>6. Passed = done \o Begin
  BY <1>1, <1>4, <1>5, Concatenation DEF Agrees
<1> HIDE DEF done, t
<1>7. (Passed \o t) \o Missing' = done \o (Begin \o (t \o Missing'))
  <2>1. t \o Missing' \in Text /\ done \o Begin \in Text
    BY <1>3, <1>4, <1>5, Concatenation
  <2>2. (Passed \o t) \o Missing' = Passed \o (t \o Missing')
    BY <1>4, <1>5, Concatenation
  <2>3. (done \o Begin) \o (t \o Missing') = done \o (Begin \o (t \o Missing'))
    BY <1>3, <1>5, <2>1, Concatenation
  <2> QED BY <1>6, <2>2, <2>3
<1>8. Agrees(order)'
  <2>1. Begin' = Begin \o (t \o Missing')
    BY DEF t
  <2>2. FlattenSeq(Declarations(order))' = done
    BY DEF done, Declarations, Declaration
  <2> QED BY <1>4, <1>7, <2>1, <2>2 DEF Agrees
<1> QED BY <1>2, <1>8

\* The next token, if it is a symbol, has the value of one.
LEMMA PlainNext ==
    ASSUME ParserOK, SourceInv, Ready PROVE Plain(nextToken)
<1>1. m_currentIndex + 1 \in 1 .. Len(m_tokens) /\ DOMAIN m_tokens = 1 .. Len(m_tokens)
  BY DEF ParserOK, Ready
<1> QED BY <1>1 DEF SourceInv, TokensInv, nextToken

\* Nothing concatenated is nothing.
LEMMA FlattenEmpty == FlattenSeq(<<>>) = <<>>
BY DEF FlattenSeq

\* Where nothing is under construction or missing, there is nothing to add.
LEMMA Beginnings ==
    /\ at \in {"parseTokens", "processTokens", "parsed"} => Begin = <<>>
    /\ at = "name" => Begin = <<current.kind>>
    /\ at = "openingBrace" => Begin = Heading(current)
    /\ at \in {"members", "semicolon"} => Begin = Begun(current)
    /\ at = "colon" => Begin = Begun(current) \o fieldName
    /\ at = "type" => Begin = Begun(current) \o fieldName \o <<":">>
    /\ Missing = IF at = "semicolon" THEN <<End>> ELSE <<>>
BY DEF Begin, Missing

\* The same, of the next state.
LEMMA BeginningsNext ==
    /\ at' \in {"parseTokens", "processTokens", "parsed"} => Begin' = <<>>
    /\ at' = "name" => Begin' = <<current'.kind>>
    /\ at' = "openingBrace" => Begin' = Heading(current')
    /\ at' \in {"members", "semicolon"} => Begin' = Begun(current')
    /\ at' = "colon" => Begin' = Begun(current') \o fieldName'
    /\ at' = "type" => Begin' = Begun(current') \o fieldName' \o <<":">>
    /\ Missing' = IF at' = "semicolon" THEN <<End>> ELSE <<>>
BY DEF Begin, Missing

\* The places at which the parser is under way.
LEMMA InParsing ==
    Parsing = {"parseTokens", "processTokens", "name", "openingBrace", "members", "colon",
               "type", "semicolon", "parsed"}
BY DEF Parsing, Wanted

\* The parts of a declaration are texts.
LEMMA TextsAndParts ==
    ASSUME ParserOK
    PROVE  /\ current \in Whole /\ fieldName \in Text
           /\ Begun(current) \in Text /\ Heading(current) \in Text /\ <<current.kind>> \in Text
<1>1. current \in Whole /\ fieldName \in Text /\ current.kind \in Kind
  BY CurrentOK DEF ParserOK, Whole, Structure, EnumSet, ModelSet
<1> QED BY <1>1, BegunType, Signs

\* A header, in front of a file.
LEMMA HeaderSource ==
    ASSUME ParserOK, ParserOK', SourceInv, ParseTokens \/ ProcessHeader
    PROVE  \E order \in Orders' : Agrees(order)'
<1>1. PICK here \in {"parseTokens", "processTokens"} : getNextToken(here, "header", "processTokens")
  BY DEF ParseTokens, ProcessHeader
<1>2. at = here /\ at' = "processTokens" /\ nextToken.type = "header" /\ UNCHANGED m_structures
  BY <1>1 DEF ParseTokens, ProcessHeader, getNextToken
<1>3. TextOf(nextToken) = <<>>
  BY <1>2 DEF TextOf
<1>4. Begin' = <<>> /\ Begin = <<>> /\ Missing' = <<>>
  BY <1>1, <1>2, Beginnings, BeginningsNext
<1>5. <<>> \o (<<>> \o <<>>) = <<>>
  BY Texts, Concatenation
<1>6. Begin' = Begin \o (TextOf(nextToken) \o Missing')
  BY <1>3, <1>4, <1>5
<1>7. at \in Parsing /\ at # "semicolon"
  BY <1>1, <1>2, InParsing
<1> QED BY <1>1, <1>2, <1>6, <1>7, Farther

\* One step each: a keyword begins a declaration,
LEMMA DeclarationSource ==
    ASSUME ParserOK, ParserOK', SourceInv, ProcessDeclaration
    PROVE  \E order \in Orders' : Agrees(order)'
<1>1. /\ getNextToken("processTokens", "string", "name") /\ IsKeyword(nextToken)
      /\ current' = [Nothing EXCEPT !.kind = nextToken.value[1]] /\ UNCHANGED m_structures
  BY DEF ProcessDeclaration
<1>2. at = "processTokens" /\ at' = "name" /\ nextToken.type = "string"
  BY <1>1 DEF getNextToken
<1>3. TextOf(nextToken) = <<current'.kind>> /\ TextOf(nextToken) \in Text
  <2>1. TextOf(nextToken) = nextToken.value /\ TextOf(nextToken) \in Text
    BY <1>1, <1>2, PassedNext DEF TextOf
  <2>2. Len(nextToken.value) = 1
    BY <1>1 DEF IsKeyword
  <2>3. nextToken.value = <<nextToken.value[1]>>
    <3> DEFINE value == nextToken.value
    <3>1. value \in Text /\ Len(value) = 1
      BY <2>1, <2>2
    <3> HIDE DEF value
    <3>2. value = <<value[1]>>
      BY <3>1 DEF Text
    <3> QED BY <3>2 DEF value
  <2>4. current'.kind = nextToken.value[1]
    BY <1>1 DEF Nothing
  <2> QED BY <2>1, <2>3, <2>4
<1>4. Begin' = <<current'.kind>> /\ Begin = <<>> /\ Missing' = <<>>
  BY <1>2, Beginnings, BeginningsNext
<1>5. Begin' = Begin \o (TextOf(nextToken) \o Missing')
  BY <1>3, <1>4, Concatenation
<1>6. at \in Parsing /\ at # "semicolon"
  BY <1>2, InParsing
<1> QED BY <1>1, <1>5, <1>6, Farther

\* its name follows,
LEMMA NameSource ==
    ASSUME ParserOK, ParserOK', SourceInv, ProcessName
    PROVE  \E order \in Orders' : Agrees(order)'
<1>1. /\ getNextToken("name", "string", "openingBrace")
      /\ current' = [current EXCEPT !.name = nextToken.value] /\ UNCHANGED m_structures
  BY DEF ProcessName
<1>2. at = "name" /\ at' = "openingBrace" /\ nextToken.type = "string"
  BY <1>1 DEF getNextToken
<1>3. TextOf(nextToken) = nextToken.value /\ TextOf(nextToken) \in Text
  BY <1>1, <1>2, PassedNext DEF TextOf
<1>4. Heading(current') = <<current.kind>> \o TextOf(nextToken)
  <2>1. current'.kind = current.kind /\ current'.name = nextToken.value
    BY <1>1, TextsAndParts DEF Whole, EnumSet, ModelSet
  <2> QED BY <1>3, <2>1 DEF Heading
<1>5. Begin' = Heading(current') /\ Begin = <<current.kind>> /\ Missing' = <<>>
  BY <1>2, Beginnings, BeginningsNext
<1>6. Begin' = Begin \o (TextOf(nextToken) \o Missing')
  BY <1>3, <1>4, <1>5, Concatenation
<1>7. at \in Parsing /\ at # "semicolon"
  BY <1>2, InParsing
<1> QED BY <1>1, <1>6, <1>7, Farther

\* and its brace;
LEMMA OpeningBraceSource ==
    ASSUME ParserOK, ParserOK', SourceInv, ProcessOpeningBrace
    PROVE  \E order \in Orders' : Agrees(order)'
<1>1. /\ getNextToken("openingBrace", "openingBrace", "members")
      /\ current' = current /\ UNCHANGED m_structures
  BY DEF ProcessOpeningBrace
<1>2. at = "openingBrace" /\ at' = "members" /\ nextToken.type = "openingBrace"
  BY <1>1 DEF getNextToken
<1>3. TextOf(nextToken) = <<Opening>>
  BY <1>1, <1>2, PlainNext DEF TextOf, Plain, getNextToken
<1>4. Begun(current) = Heading(current) \o <<Opening>>
  <2>1. current.members = <<>>
    BY <1>2 DEF SourceInv, KindsInv
  <2>2. MembersOf(current) = <<>>
    BY <2>1 DEF MembersOf
  <2>3. FlattenSeq(MembersOf(current)) = <<>>
    BY <2>2, FlattenEmpty
  <2>4. Heading(current) \o <<Opening>> \in Text
    BY TextsAndParts, Signs, Concatenation
  <2> QED BY <2>3, <2>4, Concatenation DEF Begun
<1>5. Begin' = Begun(current) /\ Begin = Heading(current) /\ Missing' = <<>>
  BY <1>1, <1>2, Beginnings, BeginningsNext
<1>6. Begin' = Begin \o (TextOf(nextToken) \o Missing')
  BY <1>3, <1>4, <1>5, Signs, Concatenation
<1>7. at \in Parsing /\ at # "semicolon"
  BY <1>2, InParsing
<1> QED BY <1>1, <1>6, <1>7, Farther

\* the name of a field begins a member,
LEMMA ModelFieldSource ==
    ASSUME ParserOK, ParserOK', SourceInv, ProcessModelField
    PROVE  \E order \in Orders' : Agrees(order)'
<1>1. /\ getNextToken("members", "string", "colon")
      /\ fieldName' = nextToken.value /\ current' = current /\ UNCHANGED m_structures
  BY DEF ProcessModelField
<1>2. at = "members" /\ at' = "colon" /\ nextToken.type = "string"
  BY <1>1 DEF getNextToken
<1>3. TextOf(nextToken) = fieldName' /\ TextOf(nextToken) \in Text
  BY <1>1, <1>2, PassedNext DEF TextOf
<1>4. Begin' = Begun(current) \o fieldName' /\ Begin = Begun(current) /\ Missing' = <<>>
  BY <1>1, <1>2, Beginnings, BeginningsNext
<1>5. Begin' = Begin \o (TextOf(nextToken) \o Missing')
  BY <1>3, <1>4, Concatenation
<1>6. at \in Parsing /\ at # "semicolon"
  BY <1>2, InParsing
<1> QED BY <1>1, <1>5, <1>6, Farther

\* its colon follows,
LEMMA ColonSource ==
    ASSUME ParserOK, ParserOK', SourceInv, ProcessColon
    PROVE  \E order \in Orders' : Agrees(order)'
<1>1. /\ getNextToken("colon", "colon", "type")
      /\ fieldName' = fieldName /\ current' = current /\ UNCHANGED m_structures
  BY DEF ProcessColon
<1>2. at = "colon" /\ at' = "type" /\ nextToken.type = "colon"
  BY <1>1 DEF getNextToken
<1>3. TextOf(nextToken) = <<":">>
  BY <1>1, <1>2, PlainNext DEF TextOf, Plain, getNextToken
<1>4. /\ Begin' = Begun(current) \o fieldName \o <<":">> /\ Begin = Begun(current) \o fieldName
      /\ Missing' = <<>>
  BY <1>1, <1>2, Beginnings, BeginningsNext
<1>5. Begin' = Begin \o (TextOf(nextToken) \o Missing')
  BY <1>3, <1>4, Signs, Concatenation
<1>6. at \in Parsing /\ at # "semicolon"
  BY <1>2, InParsing
<1> QED BY <1>1, <1>5, <1>6, Farther

\* and its type, which completes it;
LEMMA TypeSource ==
    ASSUME ParserOK, ParserOK', SourceInv, ProcessType
    PROVE  \E order \in Orders' : Agrees(order)'
<1> DEFINE field == [name |-> fieldName, type |-> nextToken.value]
           t == TextOf(nextToken)
<1>1. /\ getNextToken("type", "string", "semicolon")
      /\ current' = [current EXCEPT !.members = Append(@, field)] /\ UNCHANGED m_structures
  BY DEF ProcessType
<1>2. at = "type" /\ at' = "semicolon" /\ nextToken.type = "string" /\ current.kind # "enum"
  BY <1>1 DEF getNextToken, ParserOK
<1>3. t = nextToken.value /\ t \in Text /\ fieldName \in Text /\ Begun(current) \in Text
  BY <1>1, <1>2, PassedNext, TextsAndParts DEF TextOf
<1>4. Begun(current') = Begun(current) \o (fieldName \o <<":">> \o t \o <<End>>)
  <2>1. current \in Whole /\ current' \in Whole
    BY CurrentOK DEF ParserOK, Whole, Structure
  <2>2. MemberOf(current.kind, field) = fieldName \o <<":">> \o t \o <<End>>
    BY <1>2, <1>3 DEF MemberOf
  <2>3. current' = WithMember(current, field)
    BY <1>1 DEF WithMember
  <2> HIDE DEF field, t
  <2>4. Begun(current') = Begun(current) \o MemberOf(current.kind, field)
    BY <2>1, <2>3, MemberAdded
  <2> QED BY <2>2, <2>4
<1>5. /\ Begin' = Begun(current') /\ Begin = Begun(current) \o fieldName \o <<":">>
      /\ Missing' = <<End>>
  BY <1>1, <1>2, Beginnings, BeginningsNext
<1> DEFINE b == Begun(current)
           f == fieldName
           colon == <<":">>
           e == <<End>>
<1>6. b \in Text /\ f \in Text /\ t \in Text /\ colon \in Text /\ e \in Text
  BY <1>3, Signs
<1> HIDE DEF b, f, t, colon, e
<1>7. b \o (f \o colon \o t \o e) = b \o f \o colon \o (t \o e)
  <2>1. f \o colon \in Text /\ f \o colon \o t \in Text /\ b \o f \in Text /\ t \o e \in Text
    BY <1>6, Concatenation
  <2>2. f \o colon \o t \o e = (f \o colon) \o (t \o e)
    BY Zenon, <1>6, <2>1, Concatenation
  <2>3. b \o ((f \o colon) \o (t \o e)) = (b \o (f \o colon)) \o (t \o e)
    <3> DEFINE front == f \o colon
               back == t \o e
    <3>1. front \in Text /\ back \in Text
      BY <2>1
    <3> HIDE DEF front, back
    <3>2. b \o (front \o back) = (b \o front) \o back
      BY Zenon, <1>6, <3>1, Concatenation
    <3> QED BY <3>2 DEF front, back
  <2>4. b \o (f \o colon) = b \o f \o colon
    BY <1>6, Concatenation
  <2> QED BY <2>2, <2>3, <2>4
<1>8. Begin' = Begin \o (t \o Missing')
  BY <1>4, <1>5, <1>7 DEF b, f, colon, e
<1>9. at \in Parsing /\ at # "semicolon"
  BY <1>2, InParsing
<1> QED BY <1>1, <1>8, <1>9, Farther DEF t

\* an element of an enum is a member by itself.
LEMMA EnumFieldSource ==
    ASSUME ParserOK, ParserOK', SourceInv, ProcessEnumField
    PROVE  \E order \in Orders' : Agrees(order)'
<1> DEFINE value == nextToken.value
<1>1. /\ getNextToken("members", "string", "semicolon")
      /\ current' = [current EXCEPT !.members = Append(@, value)] /\ UNCHANGED m_structures
      /\ current.kind = "enum"
  BY DEF ProcessEnumField
<1>2. at = "members" /\ at' = "semicolon" /\ nextToken.type = "string"
  BY <1>1 DEF getNextToken
<1>3. TextOf(nextToken) = value /\ value \in Text
  BY <1>1, <1>2, PassedNext DEF TextOf
<1> HIDE DEF value
<1>4. Begun(current') = Begun(current) \o (value \o <<End>>)
  <2>1. current \in Whole /\ current' \in Whole
    BY CurrentOK DEF ParserOK, Whole, Structure
  <2>2. MemberOf(current.kind, value) = value \o <<End>>
    <3>1. End \in Atom
      BY DEF Atom
    <3>2. Append(value, End) = value \o <<End>>
      BY <1>3, <3>1, AppendIsConcat DEF Text
    <3> QED BY <1>1, <3>2 DEF MemberOf
  <2>3. current' = WithMember(current, value)
    BY <1>1 DEF WithMember
  <2>4. Begun(current') = Begun(current) \o MemberOf(current.kind, value)
    BY <2>1, <2>3, MemberAdded
  <2> QED BY <2>2, <2>4
<1>5. Begin' = Begun(current') /\ Begin = Begun(current) /\ Missing' = <<End>>
  BY <1>1, <1>2, Beginnings, BeginningsNext
<1>6. Begin' = Begin \o (TextOf(nextToken) \o Missing')
  BY <1>3, <1>4, <1>5
<1>7. at \in Parsing /\ at # "semicolon"
  BY <1>2, InParsing
<1> QED BY <1>1, <1>6, <1>7, Farther

\* The semicolon behind a member, which was missing so far.
LEMMA SemicolonSource ==
    ASSUME ParserOK, ParserOK', SourceInv, ProcessSemicolon
    PROVE  \E order \in Orders' : Agrees(order)'
<1>1. /\ getNextToken("semicolon", "semicolon", "members")
      /\ current' = current /\ UNCHANGED m_structures
  BY DEF ProcessSemicolon
<1>2. at = "semicolon" /\ at' = "members" /\ nextToken.type = "semicolon"
  BY <1>1 DEF getNextToken
<1>3. PICK order \in Orders : Agrees(order)
  BY <1>2, InParsing DEF SourceInv
<1>4. TextOf(nextToken) = <<End>>
  BY <1>2 DEF TextOf
<1>5. Begin' = Begin /\ Missing = <<End>> /\ Missing' = <<>>
  BY <1>1, <1>2, Beginnings, BeginningsNext
<1>6. Passed' = Passed \o <<End>> /\ Passed \in Text
  BY <1>1, <1>4, PassedNext
<1>7. Passed' \o <<>> = Passed'
  BY <1>6, Signs, Concatenation
<1>8. FlattenSeq(Declarations(order))' = FlattenSeq(Declarations(order))
  BY DEF Declarations, Declaration
<1>9. Agrees(order)'
  BY <1>3, <1>5, <1>6, <1>7, <1>8 DEF Agrees
<1> QED BY <1>1, <1>3, <1>9, OrdersAre

\* The closing brace: what was under construction is one of the declarations.
LEMMA ClosingBraceSource ==
    ASSUME ParserOK, ParserOK', SourceInv, ProcessClosingBrace
    PROVE  \E order \in Orders' : Agrees(order)'
<1>1. getNextToken("members", "closingBrace", "processTokens")
  BY DEF ProcessClosingBrace
<1>2. at = "members" /\ at' = "processTokens" /\ nextToken.type = "closingBrace"
  BY <1>1 DEF getNextToken
<1>3. PICK order \in Orders : Agrees(order)
  BY <1>2, InParsing DEF SourceInv
<1> DEFINE more == Append(order, current)
           done == FlattenSeq(Declarations(order))
<1>4. order \in Seq(Whole) /\ current \in Whole /\ more \in Orders'
  BY <1>3, Completed DEF SourceInv
<1>5. TextOf(nextToken) = <<Closing>>
  BY <1>1, <1>2, PlainNext DEF TextOf, Plain, getNextToken
<1>6. /\ Begin = Begun(current) /\ Missing = <<>> /\ Begin' = <<>> /\ Missing' = <<>>
      /\ Begun(current) \in Text
  BY <1>2, Beginnings, BeginningsNext, TextsAndParts
<1>7. Passed' = Passed \o <<Closing>> /\ Passed \in Text
  BY <1>1, <1>5, PassedNext
<1>8. done \in Text
  BY <1>4, DeclarationsType
<1>9. FlattenSeq(Declarations(more)) = done \o (Begun(current) \o <<Closing>>)
  BY <1>4, DeclarationsAppend, BegunType
<1>10. Passed = done \o Begun(current)
  BY <1>3, <1>6, <1>7, Concatenation DEF Agrees
<1> HIDE DEF done, more
<1>11. (done \o Begun(current)) \o <<Closing>> = done \o (Begun(current) \o <<Closing>>)
  BY <1>6, <1>8, Signs, Concatenation
<1>12. Passed' = FlattenSeq(Declarations(more)) /\ Passed' \in Text
  BY <1>7, <1>9, <1>10, <1>11, Signs, Concatenation
<1>13. \E list \in Orders' : Agrees(list)'
  <2>1. (Passed \o Missing)' = FlattenSeq(Declarations(more)) \o Begin'
    BY <1>6, <1>12, Concatenation
  <2> QED BY <1>4, <2>1 DEF Agrees
<1> QED BY <1>13

\* What a step that only moves the parser leaves as it is.
LEMMA Same ==
    ASSUME UNCHANGED <<m_tokens, m_currentIndex, at, current, fieldName, m_structures>>
    PROVE  /\ Passed' = Passed /\ Begin' = Begin /\ Missing' = Missing /\ Orders' = Orders
           /\ \A order : Agrees(order)' = Agrees(order)
<1>1. Passed' = Passed
  BY DEF Passed
<1>2. Begin' = Begin /\ Missing' = Missing
  BY DEF Begin, Missing
<1>3. Orders' = Orders
  BY OrdersAre
<1>4. ASSUME NEW order PROVE Agrees(order)' = Agrees(order)
  <2>1. FlattenSeq(Declarations(order))' = FlattenSeq(Declarations(order))
    BY DEF Declarations, Declaration
  <2> QED BY <1>1, <1>2, <2>1 DEF Agrees
<1> QED BY <1>1, <1>2, <1>3, <1>4

\* What neither reads nor parses changes nothing,
LEMMA SourceSame ==
    ASSUME SourceInv,
           UNCHANGED <<source, m_tokens, m_currentIndex, at, current, fieldName, m_structures>>
    PROVE  SourceInv'
<1>1. Orders' = Orders /\ \A order : Agrees(order)' = Agrees(order)
  BY Same
<1>2. TokensInv' /\ KindsInv'
  BY DEF SourceInv, TokensInv, KindsInv
<1> QED BY <1>1, <1>2 DEF SourceInv

\* and once the parser is done or has failed little is left to be said.
LEMMA SourceOver ==
    ASSUME SourceInv, at' \notin Parsing, at' \notin {"name", "openingBrace", "parsed"},
           UNCHANGED <<source, m_tokens, m_structures>>
    PROVE  SourceInv'
<1>1. TokensInv' /\ KindsInv'
  BY DEF SourceInv, TokensInv, KindsInv
<1> QED BY <1>1 DEF SourceInv

\* The kinds of those completed stay what they are.
LEMMA KindAppend ==
    ASSUME NEW T, NEW list \in Seq(T), NEW x \in T
    PROVE  /\ (\A n \in DOMAIN list : list[n].kind = "enum") /\ x.kind = "enum"
                => \A n \in DOMAIN Append(list, x) : Append(list, x)[n].kind = "enum"
           /\ (\A n \in DOMAIN list : list[n].kind # "enum") /\ x.kind # "enum"
                => \A n \in DOMAIN Append(list, x) : Append(list, x)[n].kind # "enum"
<1> DEFINE N == Len(list)
           more == Append(list, x)
<1>1. /\ N \in Nat /\ DOMAIN list = 1 .. N /\ DOMAIN more = 1 .. N + 1
      /\ more[N + 1] = x /\ \A n \in 1 .. N : more[n] = list[n]
  BY AppendProperties
<1> HIDE DEF N, more
<1>2. \A n \in 1 .. N + 1 : n \in 1 .. N \/ n = N + 1
  BY <1>1
<1> QED BY <1>1, <1>2 DEF more

\* Reading a word adds its tokens to the text and moves no place.
LEMMA ReadSource ==
    ASSUME ParserOK, SourceInv, Starved, NEW word \in Text, Read(word)
    PROVE  SourceInv'
<1>1. /\ TokensInv' /\ Passed' = Passed
  BY ReadTokens DEF SourceInv
<1>2. at # "parsed" /\ (at' = at \/ at' = "SyntaxError")
      /\ UNCHANGED <<m_currentIndex, current, fieldName, m_structures>>
  BY DEF Starved, Read
<1>3. KindsInv'
  BY <1>2 DEF SourceInv, KindsInv
<1>4. at' \in Parsing => \E order \in Orders' : Agrees(order)'
  <2> HAVE at' \in Parsing
  <2>1. at' = at /\ at \in Parsing
    BY <1>2, InParsing
  <2>2. Begin' = Begin /\ Missing' = Missing
    BY <1>2, <2>1 DEF Begin, Missing
  <2>3. PICK order \in Orders : Agrees(order)
    BY <2>1 DEF SourceInv
  <2>4. FlattenSeq(Declarations(order))' = FlattenSeq(Declarations(order))
    BY DEF Declarations, Declaration
  <2>5. Agrees(order)'
    BY <1>1, <2>2, <2>3, <2>4 DEF Agrees
  <2> QED BY <1>2, <2>3, <2>5, OrdersAre
<1>5. at' # "parsed"
  BY <1>2
<1> QED BY <1>1, <1>3, <1>4, <1>5 DEF SourceInv

\* A token is read.
LEMMA TokenSource ==
    ASSUME ParserOK, ParserOK', SourceInv,
           ParseTokens \/ ProcessHeader \/ ProcessDeclaration \/ ProcessName
             \/ ProcessOpeningBrace \/ ProcessModelField \/ ProcessColon \/ ProcessType
             \/ ProcessEnumField \/ ProcessSemicolon \/ ProcessClosingBrace
    PROVE  SourceInv'
<1>1. \E order \in Orders' : Agrees(order)'
  BY HeaderSource, DeclarationSource, NameSource, OpeningBraceSource, ModelFieldSource,
     ColonSource, TypeSource, EnumFieldSource, SemicolonSource, ClosingBraceSource
<1>2. UNCHANGED inputVars /\ at' # "parsed"
  BY DEF ParseTokens, ProcessHeader, ProcessDeclaration, ProcessName, ProcessOpeningBrace,
     ProcessModelField, ProcessColon, ProcessType, ProcessEnumField, ProcessSemicolon,
     ProcessClosingBrace, getNextToken
<1>3. TokensInv'
  BY <1>2 DEF SourceInv, TokensInv, inputVars
<1>4. KindsInv'
  <2>1. CASE ProcessClosingBrace
    <3>1. at' = "processTokens" /\ KindsInv
      BY <2>1 DEF ProcessClosingBrace, getNextToken, SourceInv
    <3>2. m_structures.enums \in Seq(EnumSet) /\ m_structures.models \in Seq(ModelSet)
      BY CurrentOK
    <3>3. CASE current.kind = "enum"
      <4>1. /\ m_structures'.models = m_structures.models
            /\ m_structures'.enums = Append(m_structures.enums, current)
        BY <2>1, <3>3 DEF ProcessClosingBrace, ParserOK
      <4>2. current \in EnumSet
        BY <3>3, CurrentOK
      <4>3. \A n \in DOMAIN m_structures'.enums : m_structures'.enums[n].kind = "enum"
        BY <3>1, <3>2, <3>3, <4>1, <4>2, KindAppend DEF KindsInv
      <4> QED BY <3>1, <4>1, <4>3 DEF KindsInv
    <3>4. CASE current.kind # "enum"
      <4>1. /\ m_structures'.enums = m_structures.enums
            /\ m_structures'.models = Append(m_structures.models, current)
        BY <2>1, <3>4 DEF ProcessClosingBrace, ParserOK
      <4>2. current \in ModelSet
        BY <3>4, CurrentOK
      <4>3. \A n \in DOMAIN m_structures'.models : m_structures'.models[n].kind # "enum"
        BY <3>1, <3>2, <3>4, <4>1, <4>2, KindAppend DEF KindsInv
      <4> QED BY <3>1, <4>1, <4>3 DEF KindsInv
    <3> QED BY <3>3, <3>4
  <2>2. CASE ProcessDeclaration
    <3>1. current'.members = <<>> /\ UNCHANGED m_structures
      BY <2>2 DEF ProcessDeclaration, Nothing
    <3> QED BY <3>1 DEF SourceInv, KindsInv
  <2>3. CASE ProcessName
    <3>1. current.members = <<>> /\ UNCHANGED m_structures
      BY <2>3 DEF ProcessName, getNextToken, SourceInv, KindsInv
    <3>2. current'.members = current.members
      BY <2>3, TextsAndParts DEF ProcessName, Whole, EnumSet, ModelSet
    <3> QED BY <3>1, <3>2 DEF SourceInv, KindsInv
  <2>4. CASE ParseTokens \/ ProcessHeader \/ ProcessOpeningBrace \/ ProcessModelField
               \/ ProcessColon \/ ProcessType \/ ProcessEnumField \/ ProcessSemicolon
    <3>1. at' \notin {"name", "openingBrace"} /\ UNCHANGED m_structures
      BY <2>4 DEF ParseTokens, ProcessHeader, ProcessOpeningBrace, ProcessModelField,
         ProcessColon, ProcessType, ProcessEnumField, ProcessSemicolon, getNextToken
    <3> QED BY <3>1 DEF SourceInv, KindsInv
  <2> QED BY <2>1, <2>2, <2>3, <2>4
<1> QED BY <1>1, <1>2, <1>3, <1>4 DEF SourceInv

\* Every step of the parser preserves the invariant,
LEMMA ParserNextSource ==
    ASSUME ParserOK, ParserOK', SourceInv, ParserNext
    PROVE  SourceInv'
<1>1. CASE ReadGiven
  <2>1. unread \in Seq(Text) /\ unread # <<>>
    BY <1>1 DEF ReadGiven, ParserOK
  <2>2. Head(unread) \in Text
    BY <2>1
  <2> QED BY <1>1, <2>2, ReadSource DEF ReadGiven
<1>2. CASE ReadFree
  BY <1>2, ReadSource, Texts DEF ReadFree
<1>3. CASE EndOfFile
  <2>1. UNCHANGED <<source, m_tokens, m_currentIndex, at, current, fieldName, m_structures>>
    BY <1>3 DEF EndOfFile
  <2> QED BY <2>1, SourceSame
<1>4. CASE ParseNothing \/ Fail
  <2>1. at' \notin Parsing /\ at' \notin {"name", "openingBrace", "parsed"}
        /\ UNCHANGED <<source, m_tokens, m_structures>>
    BY <1>4, InParsing DEF ParseNothing, Fail, otherVars, inputVars
  <2> QED BY <2>1, SourceOver
<1>5. CASE ProcessEnd
  <2>1. /\ at = "processTokens" /\ at' = "parsed" /\ m_currentIndex = Len(m_tokens)
        /\ UNCHANGED <<source, m_tokens, m_currentIndex, current, fieldName, m_structures>>
    BY <1>5 DEF ProcessEnd, AtEnd, otherVars, inputVars
  <2>2. TokensInv' /\ KindsInv'
    BY <2>1 DEF SourceInv, TokensInv, KindsInv
  <2>3. PICK order \in Orders : Agrees(order)
    BY <2>1, InParsing DEF SourceInv
  <2>4. FlattenSeq(Declarations(order))' = FlattenSeq(Declarations(order))
    BY DEF Declarations, Declaration
  <2>5. Passed' = Passed
    BY <2>1 DEF Passed
  <2>6. Begin' = Begin /\ Missing' = Missing
    BY <2>1, Beginnings, BeginningsNext
  <2>7. Agrees(order)' /\ order \in Orders'
    BY <2>1, <2>3, <2>4, <2>5, <2>6, OrdersAre DEF Agrees
  <2> QED BY <2>1, <2>2, <2>7 DEF SourceInv
<1> QED BY <1>1, <1>2, <1>3, <1>4, <1>5, TokenSource DEF ParserNext

\* which holds before anything is read.
LEMMA SourceInitInv == ParserInit => SourceInv
<1> SUFFICES ASSUME ParserInit PROVE SourceInv
  OBVIOUS
<1>1. /\ source = <<>> /\ m_tokens = <<>> /\ m_currentIndex = 0 /\ at = "parseTokens"
      /\ current = Nothing /\ m_structures = [enums |-> <<>>, models |-> <<>>]
  BY DEF ParserInit
<1>2. DOMAIN <<>> = {} /\ Len(<<>>) = 0
  OBVIOUS
<1>3. TextsOf(<<>>) = <<>> /\ WithoutHeaders(<<>>) = <<>> /\ Declarations(<<>>) = <<>>
  BY DEF TextsOf, WithoutHeaders, Declarations
<1>4. TokensInv /\ KindsInv
  BY <1>1, <1>2, <1>3 DEF TokensInv, KindsInv
<1>5. Passed = <<>> /\ Begin = <<>> /\ Missing = <<>>
  <2>1. SubSeq(<<>>, 1, 0) = <<>>
    BY SubSeqEmpty
  <2>2. Passed = FlattenSeq(<<>>)
    BY <1>1, <1>3, <2>1 DEF Passed
  <2> QED BY <1>1, <2>2, FlattenEmpty, Beginnings
<1>6. Agrees(<<>>)
  BY <1>3, <1>5, FlattenEmpty DEF Agrees
<1>7. <<>> \in Orders
  <2>1. {} \in Places(<<>>, <<>>)
    BY <1>2, FS_EmptySet DEF Places
  <2>2. Mixed(<<>>, <<>>, {}) = <<>>
    BY <1>2 DEF Mixed
  <2>3. <<>> \in OrdersOf(<<>>, <<>>)
    BY <2>1, <2>2 DEF OrdersOf
  <2> QED BY <1>1, <2>3, OrdersAre
<1> QED BY <1>1, <1>4, <1>6, <1>7 DEF SourceInv

\* Whatever files are accepted, any number of them and of any length: the models
\* and enums that the generator gets are what they contain (Parser).
THEOREM ParsedIsSourceCorrect == ModelgenSpec => []ParsedIsSource
<1>1. ParserInit /\ GeneratorInit => GeneratorInv /\ SourceInv
  BY GeneratorInitInv, SourceInitInv
<1>2. GeneratorInv /\ SourceInv
        /\ [(ParserNext /\ UNCHANGED generatorVars) \/ GeneratorNext]_<<parserVars, generatorVars>>
          => (GeneratorInv /\ SourceInv)'
  <2> SUFFICES ASSUME GeneratorInv, SourceInv,
                      [(ParserNext /\ UNCHANGED generatorVars)
                         \/ GeneratorNext]_<<parserVars, generatorVars>>
               PROVE  SourceInv'
    BY GeneratorNextInv
  <2>1. ParserOK /\ ParserOK'
    BY GeneratorNextInv DEF GeneratorInv
  <2>2. CASE ParserNext
    BY <2>1, <2>2, ParserNextSource
  <2>3. CASE GenerateEnum \/ GenerateModel \/ UNCHANGED <<parserVars, generatorVars>>
    <3>1. UNCHANGED <<source, m_tokens, m_currentIndex, at, current, fieldName, m_structures>>
      BY <2>3 DEF GenerateEnum, GenerateModel, parserVars, otherVars, inputVars
    <3> QED BY <3>1, SourceSame
  <2>4. CASE RegisterModels \/ GenerateModelFails \/ WriteFiles
    <3>1. at' \notin Parsing /\ at' \notin {"name", "openingBrace", "parsed"}
          /\ UNCHANGED <<source, m_tokens, m_structures>>
      BY <2>4, InParsing DEF RegisterModels, GenerateModelFails, WriteFiles, otherVars, inputVars
    <3> QED BY <3>1, SourceOver
  <2> QED BY <2>2, <2>3, <2>4 DEF GeneratorNext
<1>3. GeneratorInv /\ SourceInv => ParsedIsSource
  <2> SUFFICES ASSUME GeneratorInv, SourceInv, at = "parsed" PROVE ParsedIsSource
    BY DEF ParsedIsSource
  <2>1. PICK order \in Orders : Agrees(order)
    BY InParsing DEF SourceInv
  <2>2. ParserOK /\ m_currentIndex = Len(m_tokens)
    BY DEF GeneratorInv, SourceInv
  <2>3. Passed = FlattenSeq(TextsOf(m_tokens)) /\ Passed \in Text
    <3>1. m_tokens \in Seq(TokenSet)
      BY <2>2 DEF ParserOK
    <3>2. SubSeq(m_tokens, 1, Len(m_tokens)) = m_tokens
      BY <3>1, SubSeqFull
    <3>3. Passed = FlattenSeq(TextsOf(m_tokens))
      BY <2>2, <3>2 DEF Passed
    <3> QED BY <3>1, <3>3, TextsType
  <2> DEFINE done == FlattenSeq(Declarations(order))
  <2>4. done \in Text
    BY <2>1, <2>2, Completed, DeclarationsType DEF SourceInv
  <2> HIDE DEF done
  <2>5. Passed \o <<>> = done \o <<>>
    BY <2>1, Beginnings DEF Agrees, done
  <2>6. done = FlattenSeq(WithoutHeaders(source))
    BY <2>3, <2>4, <2>5, Concatenation DEF SourceInv, TokensInv
  <2> QED BY <2>1, <2>6 DEF ParsedIsSource, Declarations, WithoutHeaders, WithoutHeader, done
<1> QED BY <1>1, <1>2, <1>3, PTL DEF ModelgenSpec
----------------------------------------------------------------------------
(***************************************************************************)
(* JsonBuilder. The reader that has read what the builder has written is   *)
(* where the calls say it should be, except for a comma.                   *)
(***************************************************************************)
JsonToken ==
    {<<"comma">>} \cup {<<"key", name>> : name \in Name}
        \cup {<<side, kind>> : side \in {"begin", "end"}, kind \in {"object", "array"}}
        \cup {Written(value) : value \in Value}

\* The reader has a state behind each of the tokens, and the last one is what
\* readText() returns.
Start == Reading(<<>>, <<>>, "document")

LEMMA ReadRounds ==
    ASSUME NEW T, NEW text \in Seq(T)
    PROVE  \E f : /\ f[0] = Start
                  /\ \A n \in 1 .. Len(text) : f[n] = readToken(f[n - 1], text[n])
                  /\ readText(text) = f[Len(text)]
<1> DEFINE N == Len(text)
           Next_(f, n) == IF n = 0 THEN Start ELSE readToken(f[n - 1], text[n])
           Good(n, f) == f = [k \in 0 .. n |-> Next_(f, k)]
           S == {n \in 0 .. N : \E f : Good(n, f)}
<1>1. N \in Nat
  OBVIOUS
<1>2. 0 \in S
  <2> DEFINE f == [k \in 0 .. 0 |-> Start]
  <2>1. \A k \in 0 .. 0 : Next_(f, k) = Start
    OBVIOUS
  <2>2. f = [k \in 0 .. 0 |-> Next_(f, k)]
    <3> HIDE DEF Next_
    <3> QED BY <2>1
  <2>3. 0 \in 0 .. N
    BY <1>1
  <2> HIDE DEF f
  <2> QED BY <2>2, <2>3
<1>3. \A n \in 0 .. N : n < N /\ n \in S => n + 1 \in S
  <2> TAKE n \in 0 .. N
  <2> HAVE n < N /\ n \in S
  <2>1. PICK f : Good(n, f)
    OBVIOUS
  <2> DEFINE h == [k \in 0 .. n + 1 |-> IF k = n + 1 THEN Next_(f, k) ELSE f[k]]
  <2>2. \A k \in 0 .. n : h[k] = f[k]
    OBVIOUS
  <2>3. \A k \in 0 .. n + 1 : Next_(h, k) = Next_(f, k)
    <3> TAKE k \in 0 .. n + 1
    <3>1. k # 0 => k - 1 \in 0 .. n
      OBVIOUS
    <3> HIDE DEF h
    <3> QED BY <2>2, <3>1
  <2>4. \A k \in 0 .. n : f[k] = Next_(f, k)
    <3> DEFINE own == [k \in 0 .. n |-> Next_(f, k)]
    <3>1. \A k \in 0 .. n : own[k] = Next_(f, k)
      OBVIOUS
    <3>2. f = own
      BY <2>1
    <3> HIDE DEF own, Next_
    <3> QED BY <3>1, <3>2
  <2>5. h = [k \in 0 .. n + 1 |-> Next_(h, k)]
    <3>1. ASSUME NEW k \in 0 .. n + 1 PROVE h[k] = Next_(h, k)
      <4>1. CASE k = n + 1
        <5>1. h[k] = Next_(f, k)
          BY <4>1
        <5> HIDE DEF h, Next_
        <5> QED BY <2>3, <5>1
      <4>2. CASE k # n + 1
        <5>1. k \in 0 .. n
          BY <4>2
        <5> HIDE DEF h, Next_
        <5> QED BY <2>2, <2>3, <2>4, <5>1
      <4> QED BY <4>1, <4>2
    <3> HIDE DEF Next_
    <3> QED BY <3>1
  <2>6. n + 1 \in 0 .. N
    OBVIOUS
  <2> HIDE DEF h, Next_
  <2> QED BY <2>5, <2>6
<1>4. N \in S
  <2>1. N \in 0 .. N
    BY <1>1
  <2>2. 0 .. N \subseteq S
    <3> HIDE DEF S
    <3> QED BY <1>1, <1>2, <1>3, UpTo
  <2> QED BY <2>1, <2>2
<1>5. PICK f : f = [k \in 0 .. N |-> Next_(f, k)] /\ readText(text) = f[N]
  <2> DEFINE chosen == CHOOSE h : h = [k \in 0 .. N |-> Next_(h, k)]
  <2>1. chosen = [k \in 0 .. N |-> Next_(chosen, k)]
    <3> HIDE DEF Next_
    <3> QED BY <1>4
  <2>2. readText(text) = chosen[N]
    BY DEF readText, Start
  <2> HIDE DEF chosen, Next_
  <2> QED BY <2>1, <2>2
<1>6. \A k \in 0 .. N : f[k] = Next_(f, k)
  <2> DEFINE own == [k \in 0 .. N |-> Next_(f, k)]
  <2>1. \A k \in 0 .. N : own[k] = Next_(f, k)
    OBVIOUS
  <2>2. f = own
    BY <1>5
  <2> HIDE DEF own, Next_
  <2> QED BY <2>1, <2>2
<1>7. 0 \in 0 .. N /\ \A k \in 1 .. N : k \in 0 .. N /\ k # 0
  BY <1>1
<1> QED BY <1>5, <1>6, <1>7

\* What is described, too, has a state behind each of the calls.
LEMMA DescribedRounds ==
    ASSUME NEW T, NEW all \in Seq(T)
    PROVE  \E f : /\ f[0] = InProgress(<<Root>>)
                  /\ \A n \in 1 .. Len(all) : f[n] = Understand(f[n - 1], all[n])
                  /\ Described(all) = f[Len(all)]
<1> DEFINE N == Len(all)
           Next_(f, n) == IF n = 0 THEN InProgress(<<Root>>) ELSE Understand(f[n - 1], all[n])
           Good(n, f) == f = [k \in 0 .. n |-> Next_(f, k)]
           S == {n \in 0 .. N : \E f : Good(n, f)}
<1>1. N \in Nat
  OBVIOUS
<1>2. 0 \in S
  <2> DEFINE f == [k \in 0 .. 0 |-> InProgress(<<Root>>)]
  <2>1. \A k \in 0 .. 0 : Next_(f, k) = InProgress(<<Root>>)
    OBVIOUS
  <2>2. f = [k \in 0 .. 0 |-> Next_(f, k)]
    <3> HIDE DEF Next_
    <3> QED BY <2>1
  <2>3. 0 \in 0 .. N
    BY <1>1
  <2> HIDE DEF f
  <2> QED BY <2>2, <2>3
<1>3. \A n \in 0 .. N : n < N /\ n \in S => n + 1 \in S
  <2> TAKE n \in 0 .. N
  <2> HAVE n < N /\ n \in S
  <2>1. PICK f : Good(n, f)
    OBVIOUS
  <2> DEFINE h == [k \in 0 .. n + 1 |-> IF k = n + 1 THEN Next_(f, k) ELSE f[k]]
  <2>2. \A k \in 0 .. n : h[k] = f[k]
    OBVIOUS
  <2>3. \A k \in 0 .. n + 1 : Next_(h, k) = Next_(f, k)
    <3> TAKE k \in 0 .. n + 1
    <3>1. k # 0 => k - 1 \in 0 .. n
      OBVIOUS
    <3> HIDE DEF h
    <3> QED BY <2>2, <3>1
  <2>4. \A k \in 0 .. n : f[k] = Next_(f, k)
    <3> DEFINE own == [k \in 0 .. n |-> Next_(f, k)]
    <3>1. \A k \in 0 .. n : own[k] = Next_(f, k)
      OBVIOUS
    <3>2. f = own
      BY <2>1
    <3> HIDE DEF own, Next_
    <3> QED BY <3>1, <3>2
  <2>5. h = [k \in 0 .. n + 1 |-> Next_(h, k)]
    <3>1. ASSUME NEW k \in 0 .. n + 1 PROVE h[k] = Next_(h, k)
      <4>1. CASE k = n + 1
        <5>1. h[k] = Next_(f, k)
          BY <4>1
        <5> HIDE DEF h, Next_
        <5> QED BY <2>3, <5>1
      <4>2. CASE k # n + 1
        <5>1. k \in 0 .. n
          BY <4>2
        <5> HIDE DEF h, Next_
        <5> QED BY <2>2, <2>3, <2>4, <5>1
      <4> QED BY <4>1, <4>2
    <3> HIDE DEF Next_
    <3> QED BY <3>1
  <2>6. n + 1 \in 0 .. N
    OBVIOUS
  <2> HIDE DEF h, Next_
  <2> QED BY <2>5, <2>6
<1>4. N \in S
  <2>1. N \in 0 .. N
    BY <1>1
  <2>2. 0 .. N \subseteq S
    <3> HIDE DEF S
    <3> QED BY <1>1, <1>2, <1>3, UpTo
  <2> QED BY <2>1, <2>2
<1>5. PICK f : f = [k \in 0 .. N |-> Next_(f, k)] /\ Described(all) = f[N]
  <2> DEFINE chosen == CHOOSE h : h = [k \in 0 .. N |-> Next_(h, k)]
  <2>1. chosen = [k \in 0 .. N |-> Next_(chosen, k)]
    <3> HIDE DEF Next_
    <3> QED BY <1>4
  <2>2. Described(all) = chosen[N]
    BY DEF Described
  <2> HIDE DEF chosen, Next_
  <2> QED BY <2>1, <2>2
<1>6. \A k \in 0 .. N : f[k] = Next_(f, k)
  <2> DEFINE own == [k \in 0 .. N |-> Next_(f, k)]
  <2>1. \A k \in 0 .. N : own[k] = Next_(f, k)
    OBVIOUS
  <2>2. f = own
    BY <1>5
  <2> HIDE DEF own, Next_
  <2> QED BY <2>1, <2>2
<1>7. 0 \in 0 .. N /\ \A k \in 1 .. N : k \in 0 .. N /\ k # 0
  BY <1>1
<1> QED BY <1>5, <1>6, <1>7

\* Reading, and understanding, goes on where it was.
LEMMA ReadAppend ==
    ASSUME NEW T, NEW text \in Seq(T), NEW token \in T
    PROVE  readText(<<>>) = Start
           /\ readText(Append(text, token)) = readToken(readText(text), token)
<1> DEFINE N == Len(text)
           more == Append(text, token)
<1>1. N \in Nat
  OBVIOUS
<1>2. /\ more \in Seq(T) /\ Len(more) = N + 1
      /\ more[N + 1] = token /\ \A n \in 1 .. N : more[n] = text[n]
  BY AppendProperties
<1> HIDE DEF more
<1>3. PICK f : /\ f[0] = Start
               /\ \A n \in 1 .. N : f[n] = readToken(f[n - 1], text[n])
               /\ readText(text) = f[N]
  BY ReadRounds
<1>4. PICK h : /\ h[0] = Start
               /\ \A n \in 1 .. Len(more) : h[n] = readToken(h[n - 1], more[n])
               /\ readText(more) = h[Len(more)]
  BY <1>2, ReadRounds
<1> HIDE DEF N
<1>5. /\ \A n \in 1 .. N + 1 : h[n] = readToken(h[n - 1], more[n])
      /\ readText(more) = h[N + 1]
  BY <1>2, <1>4
<1> DEFINE S == {n \in 0 .. N : h[n] = f[n]}
<1>6. 0 \in S
  BY <1>1, <1>3, <1>4
<1>7. \A n \in 0 .. N : n < N /\ n \in S => n + 1 \in S
  <2> TAKE n \in 0 .. N
  <2> HAVE n < N /\ n \in S
  <2>1. n + 1 \in 1 .. N /\ n + 1 \in 1 .. N + 1 /\ (n + 1) - 1 = n /\ n + 1 \in 0 .. N
    BY <1>1
  <2>2. h[n + 1] = readToken(h[n], more[n + 1]) /\ f[n + 1] = readToken(f[n], text[n + 1])
    BY <1>3, <1>5, <2>1
  <2>3. more[n + 1] = text[n + 1] /\ h[n] = f[n]
    BY <1>2, <2>1
  <2> QED BY <2>1, <2>2, <2>3
<1>8. h[N] = f[N]
  <2>1. 0 .. N \subseteq S
    <3> HIDE DEF S
    <3> QED BY <1>1, <1>6, <1>7, UpTo
  <2>2. N \in 0 .. N
    BY <1>1
  <2> QED BY <2>1, <2>2
<1>9. N + 1 \in 1 .. N + 1 /\ (N + 1) - 1 = N
  BY <1>1
<1>10. readText(<<>>) = Start
  <2>1. <<>> \in Seq(T) /\ Len(<<>>) = 0
    OBVIOUS
  <2> QED BY <2>1, ReadRounds
<1> QED BY <1>2, <1>3, <1>5, <1>8, <1>9, <1>10 DEF more

LEMMA DescribedAppend ==
    ASSUME NEW T, NEW all \in Seq(T), NEW call \in T
    PROVE  Described(<<>>) = InProgress(<<Root>>)
           /\ Described(Append(all, call)) = Understand(Described(all), call)
<1> DEFINE N == Len(all)
           more == Append(all, call)
<1>1. N \in Nat
  OBVIOUS
<1>2. /\ more \in Seq(T) /\ Len(more) = N + 1
      /\ more[N + 1] = call /\ \A n \in 1 .. N : more[n] = all[n]
  BY AppendProperties
<1> HIDE DEF more
<1>3. PICK f : /\ f[0] = InProgress(<<Root>>)
               /\ \A n \in 1 .. N : f[n] = Understand(f[n - 1], all[n])
               /\ Described(all) = f[N]
  BY DescribedRounds
<1>4. PICK h : /\ h[0] = InProgress(<<Root>>)
               /\ \A n \in 1 .. Len(more) : h[n] = Understand(h[n - 1], more[n])
               /\ Described(more) = h[Len(more)]
  BY <1>2, DescribedRounds
<1> HIDE DEF N
<1>5. /\ \A n \in 1 .. N + 1 : h[n] = Understand(h[n - 1], more[n])
      /\ Described(more) = h[N + 1]
  BY <1>2, <1>4
<1> DEFINE S == {n \in 0 .. N : h[n] = f[n]}
<1>6. 0 \in S
  BY <1>1, <1>3, <1>4
<1>7. \A n \in 0 .. N : n < N /\ n \in S => n + 1 \in S
  <2> TAKE n \in 0 .. N
  <2> HAVE n < N /\ n \in S
  <2>1. n + 1 \in 1 .. N /\ n + 1 \in 1 .. N + 1 /\ (n + 1) - 1 = n /\ n + 1 \in 0 .. N
    BY <1>1
  <2>2. h[n + 1] = Understand(h[n], more[n + 1]) /\ f[n + 1] = Understand(f[n], all[n + 1])
    BY <1>3, <1>5, <2>1
  <2>3. more[n + 1] = all[n + 1] /\ h[n] = f[n]
    BY <1>2, <2>1
  <2> QED BY <2>1, <2>2, <2>3
<1>8. h[N] = f[N]
  <2>1. 0 .. N \subseteq S
    <3> HIDE DEF S
    <3> QED BY <1>1, <1>6, <1>7, UpTo
  <2>2. N \in 0 .. N
    BY <1>1
  <2> QED BY <2>1, <2>2
<1>9. N + 1 \in 1 .. N + 1 /\ (N + 1) - 1 = N
  BY <1>1
<1>10. Described(<<>>) = InProgress(<<Root>>)
  <2>1. <<>> \in Seq(T) /\ Len(<<>>) = 0
    OBVIOUS
  <2> QED BY <2>1, DescribedRounds
<1> QED BY <1>2, <1>3, <1>5, <1>8, <1>9, <1>10 DEF more

\* The containers that are open are a stack, whatever is in them.
Stack(s) == s \in Seq({s[n] : n \in DOMAIN s})

LEMMA StackOf ==
    ASSUME NEW T, NEW s \in Seq(T) PROVE Stack(s)
<1>1. Len(s) \in Nat /\ DOMAIN s = 1 .. Len(s) /\ s = [n \in 1 .. Len(s) |-> s[n]]
  OBVIOUS
<1>2. s \in [1 .. Len(s) -> {s[n] : n \in DOMAIN s}]
  BY <1>1
<1> QED BY <1>1, <1>2, IsASeq DEF Stack

LEMMA StackPush ==
    ASSUME NEW s, Stack(s), NEW x
    PROVE  /\ Stack(Append(s, x)) /\ Append(s, x) # <<>> /\ Len(s) \in Nat
           /\ Len(Append(s, x)) = Len(s) + 1
           /\ Last(Append(s, x)) = x /\ Front(Append(s, x)) = s
           /\ Append(s, x)[1] = IF s = <<>> THEN x ELSE s[1]
<1> DEFINE R == {s[n] : n \in DOMAIN s}
           T == R \cup {x}
           more == Append(s, x)
           N == Len(s)
<1>1. s \in Seq(T)
  <2>1. s \in Seq(R) /\ R \subseteq T
    BY DEF Stack
  <2> HIDE DEF R, T
  <2> QED BY <2>1, SeqMonotonic
<1>2. /\ N \in Nat /\ more \in Seq(T) /\ Len(more) = N + 1
      /\ more[N + 1] = x /\ \A n \in 1 .. N : more[n] = s[n]
  <2> HIDE DEF T
  <2>1. x \in T
    BY DEF T
  <2>2. N \in Nat
    BY <1>1
  <2> QED BY <1>1, <2>1, <2>2, AppendProperties
<1> HIDE DEF more
<1>3. Stack(more)
  <2> HIDE DEF T
  <2> QED BY <1>2, StackOf
<1>4. Last(more) = x /\ more # <<>>
  BY <1>2 DEF Last
<1>5. Front(more) = s
  <2> DEFINE front == SubSeq(more, 1, N)
  <2>0. Front(more) = front
    BY <1>2 DEF Front
  <2>1. front \in Seq(T) /\ Len(front) = N /\ \A n \in 1 .. N : front[n] = more[n]
    <3> HIDE DEF T, N
    <3> QED BY <1>2, SubSeqProperties
  <2> HIDE DEF front
  <2>2. \A n \in 1 .. N : front[n] = s[n]
    BY <1>2, <2>1
  <2>3. front = s
    <3> HIDE DEF T
    <3> QED BY <1>1, <2>1, <2>2, SeqEqual
  <2> QED BY <2>0, <2>3
<1>6. more[1] = IF s = <<>> THEN x ELSE s[1]
  <2>1. CASE s = <<>>
    BY <1>2, <2>1
  <2>2. CASE s # <<>>
    <3>1. N # 0
      BY <1>1, <2>2
    <3> QED BY <1>2, <2>2, <3>1
  <2> QED BY <2>1, <2>2
<1> QED BY <1>2, <1>3, <1>4, <1>5, <1>6 DEF more

LEMMA StackPop ==
    ASSUME NEW s, Stack(s), s # <<>>
    PROVE  /\ Stack(Front(s)) /\ Len(s) \in Nat \ {0} /\ Len(Front(s)) = Len(s) - 1
           /\ Len(s) = 1 => Last(s) = s[1] /\ Front(s) = <<>>
           /\ Len(s) # 1 => Front(s) # <<>> /\ Front(s)[1] = s[1]
<1> DEFINE T == {s[n] : n \in DOMAIN s}
           N == Len(s)
           front == SubSeq(s, 1, N - 1)
<1>1. s \in Seq(T) /\ Front(s) = front
  BY DEF Stack, Front
<1> HIDE DEF T
<1>2. N \in Nat \ {0}
  BY <1>1
<1>3. front \in Seq(T) /\ Len(front) = N - 1 /\ \A n \in 1 .. N - 1 : front[n] = s[n]
  <2> HIDE DEF N
  <2>1. N - 1 \in 0 .. N
    BY <1>2
  <2>2. s \in Seq(T) /\ Len(s) = N
    BY <1>1 DEF N
  <2> QED BY <1>2, <2>1, <2>2, SubSeqProperties
<1> HIDE DEF front
<1>4. Stack(front)
  BY <1>3, StackOf
<1>5. N = 1 => Last(s) = s[1] /\ front = <<>>
  BY <1>3 DEF Last
<1>6. N # 1 => front # <<>> /\ front[1] = s[1]
  <2> HAVE N # 1
  <2> HIDE DEF N
  <2>1. 1 \in 1 .. N - 1
    BY <1>2
  <2>2. front # <<>>
    BY <1>2, <1>3, <2>1
  <2> QED BY <1>3, <2>1, <2>2
<1> QED BY <1>1, <1>2, <1>3, <1>4, <1>5, <1>6

\* An item changes the innermost container, and of that no more than its content.
LEMMA WithItemStack ==
    ASSUME NEW s, Stack(s), s # <<>>, NEW key, NEW value
    PROVE  /\ Stack(WithItem(s, key, value)) /\ WithItem(s, key, value) # <<>>
           /\ WithItem(s, key, value)[1].kind = s[1].kind
<1> DEFINE top == Last(s)
           content == IF top.kind = "object" THEN (key[1] :> value) @@ top.content
                      ELSE Append(top.content, value)
           item == [kind |-> top.kind, name |-> top.name, content |-> content]
<1>1. WithItem(s, key, value) = Append(Front(s), item)
  BY DEF WithItem
<1>2. item.kind = Last(s).kind
  OBVIOUS
<1> HIDE DEF item
<1>3. Stack(Front(s)) /\ Len(s) \in Nat \ {0} /\ Len(Front(s)) = Len(s) - 1
      /\ (Len(s) = 1 => Last(s) = s[1] /\ Front(s) = <<>>)
      /\ (Len(s) # 1 => Front(s) # <<>> /\ Front(s)[1] = s[1])
  BY StackPop
<1>4. /\ Stack(Append(Front(s), item)) /\ Append(Front(s), item) # <<>>
      /\ Append(Front(s), item)[1] = IF Front(s) = <<>> THEN item ELSE Front(s)[1]
  BY <1>3, StackPush
<1> QED BY <1>1, <1>2, <1>3, <1>4

----------------------------------------------------------------------------
\* Sequences of one and of two.
LEMMA AppendTwo ==
    ASSUME NEW x, NEW y PROVE Append(<<>>, x) = <<x>> /\ Append(<<x>>, y) = <<x, y>>
<1> DEFINE T == {x, y}
           one == Append(<<>>, x)
           two == Append(<<x>>, y)
           pair == <<x, y>>
<1>1. /\ <<>> \in Seq(T) /\ x \in T /\ y \in T /\ <<x>> \in Seq(T) /\ Len(<<x>>) = 1 /\ <<x>>[1] = x
      /\ pair \in Seq(T) /\ Len(pair) = 2 /\ pair[1] = x /\ pair[2] = y
  OBVIOUS
<1>2. two \in Seq(T) /\ Len(two) = 2 /\ two[1] = x /\ two[2] = y
  BY <1>1, AppendProperties
<1> HIDE DEF two, pair
<1>3. \A n \in 1 .. 2 : two[n] = pair[n]
  <2>1. \A n \in 1 .. 2 : n = 1 \/ n = 2
    OBVIOUS
  <2> QED BY <1>1, <1>2, <2>1
<1>4. two = pair
  <2> HIDE DEF T
  <2> QED BY <1>1, <1>2, <1>3, SeqEqual
<1>5. one = <<x>>
  <2> DEFINE single == <<x>>
  <2>1. one \in Seq(T) /\ Len(one) = 1 /\ one[1] = x
    <3>1. Len(<<>>) = 0
      OBVIOUS
    <3> QED BY <1>1, <3>1, AppendProperties
  <2>2. single \in Seq(T) /\ Len(single) = 1 /\ single[1] = x
    BY <1>1
  <2> HIDE DEF one, single
  <2>3. \A n \in 1 .. 1 : one[n] = single[n]
    BY <2>1, <2>2
  <2>4. one = single
    <3> HIDE DEF T
    <3> QED BY <2>1, <2>2, <2>3, SeqEqual
  <2> QED BY <2>4 DEF single
<1> QED BY <1>4, <1>5 DEF two, pair

\* What a reader has read behind each operation of a builder, where it was before
\* and, if there was something in front of it, a comma.
BuilderSet == [text : Seq(JsonToken), comma : BOOLEAN]

AfterComma(b) ==
    IF b.comma THEN readToken(readText(b.text), <<"comma">>) ELSE readText(b.text)

Writes(b, r, comma) == b \in BuilderSet /\ readText(b.text) = r /\ b.comma = comma

LEMMA JsonTokens ==
    /\ <<"comma">> \in JsonToken
    /\ \A name \in Name : <<"key", name>> \in JsonToken
    /\ \A kind \in {"object", "array"} : <<"begin", kind>> \in JsonToken /\ <<"end", kind>> \in JsonToken
    /\ \A value \in Value : Written(value) \in JsonToken
BY DEF JsonToken

\* A token that the reader takes for a document, or, if that is none, for a word.
StandsFor(token, d) ==
    token = IF d = CouldNotCreateJson THEN <<"word">> ELSE <<"value", d>>

\* What is written for an argument is what the argument means.
LEMMA WrittenMeans ==
    ASSUME NEW value \in Value
    PROVE  /\ StandsFor(Written(value), Meaning(value))
           /\ Meaning(value) # None /\ Meaning(value) = Single(value) /\ value[1] # "array"
<1> DEFINE number == <<"num", IF value[2] THEN 2 ELSE 0>>
<1>1. /\ value[1] \in {"num", "str", "bool", "literal", "node"}
      /\ value[1] = "node" => value[2] \notin {None, CouldNotCreateJson}
      /\ value[1] = "literal" => value[2] # CouldNotCreateJson
  BY ValueAssumption
<1>2. None[1] = "none" /\ CouldNotCreateJson[1] = "CouldNotCreateJson" /\ number[1] = "num"
  BY DEF None, CouldNotCreateJson
<1>3. Meaning(value) = Single(value) /\ value[1] # "array"
  BY <1>1 DEF Meaning
<1>4. CASE value[1] = "bool"
  <2>1. Single(value) = number /\ Written(value) = <<"value", number>>
    BY <1>4 DEF Single, Written
  <2> HIDE DEF number
  <2> QED BY <1>2, <1>3, <2>1 DEF StandsFor
<1>5. CASE value[1] = "node"
  <2>1. Single(value) = value[2] /\ Written(value) = <<"value", value[2]>>
    BY <1>5 DEF Single, Written
  <2> QED BY <1>1, <1>3, <1>5, <2>1 DEF StandsFor
<1>6. CASE value[1] = "literal"
  <2>1. CASE value[2] = None
    <3>1. Single(value) = CouldNotCreateJson /\ Written(value) = <<"word">>
      BY <1>6, <2>1 DEF Single, Written
    <3> QED BY <1>2, <1>3, <3>1 DEF StandsFor
  <2>2. CASE value[2] # None
    <3>1. Single(value) = value[2] /\ Written(value) = <<"value", value[2]>>
      BY <1>6, <2>2 DEF Single, Written
    <3> QED BY <1>1, <1>3, <1>6, <2>2, <3>1 DEF StandsFor
  <2> QED BY <2>1, <2>2
<1>7. CASE value[1] \notin {"bool", "node", "literal"}
  <2>1. Single(value) = value /\ Written(value) = <<"value", value>>
    BY <1>7 DEF Single, Written
  <2>2. value # None /\ value # CouldNotCreateJson
    BY <1>1, <1>2
  <2> QED BY <1>3, <2>1, <2>2 DEF StandsFor
<1> QED BY <1>4, <1>5, <1>6, <1>7

\* An array of two.
LEMMA ArrayMeans ==
    ASSUME NEW value \in Value
    PROVE  LET d == Meaning(value)
           IN Meaning(<<"array", <<value, value>>>>) =
                 IF d = CouldNotCreateJson THEN CouldNotCreateJson ELSE <<"array", <<d, d>>>>
<1> DEFINE d == Single(value)
           two == <<value, value>>
           array == <<"array", two>>
           meant == [n \in DOMAIN two |-> Single(two[n])]
           pair == <<d, d>>
<1>1. array[1] = "array" /\ array[2] = two
  OBVIOUS
<1>2. DOMAIN two = 1 .. 2 /\ \A n \in 1 .. 2 : two[n] = value
  OBVIOUS
<1>3. pair = [n \in 1 .. 2 |-> d]
  <2> DEFINE x == d
             same == [n \in 1 .. 2 |-> x]
  <2> HIDE DEF x
  <2>1. <<x, x>> \in Seq({x}) /\ Len(<<x, x>>) = 2 /\ \A n \in 1 .. 2 : <<x, x>>[n] = x
    OBVIOUS
  <2>2. same \in Seq({x}) /\ Len(same) = 2 /\ \A n \in 1 .. 2 : same[n] = x
    BY IsASeq
  <2> HIDE DEF same
  <2>3. <<x, x>> = same
    BY <2>1, <2>2, SeqEqual
  <2> QED BY <2>3 DEF same, x
<1> HIDE DEF two, array
<1>4. meant = [n \in 1 .. 2 |-> d]
  BY <1>2
<1>5. (\E n \in DOMAIN two : Single(two[n]) = CouldNotCreateJson) = (d = CouldNotCreateJson)
  <2>1. 1 \in DOMAIN two /\ \A n \in DOMAIN two : Single(two[n]) = d
    BY <1>2
  <2> HIDE DEF d
  <2> QED BY <2>1
<1>6. Meaning(array) = IF d = CouldNotCreateJson THEN CouldNotCreateJson ELSE <<"array", meant>>
  BY <1>1, <1>5 DEF Meaning
<1>7. Meaning(array) = IF d = CouldNotCreateJson THEN CouldNotCreateJson ELSE <<"array", pair>>
  BY <1>3, <1>4, <1>6
<1>8. Meaning(value) = d
  BY WrittenMeans
<1> QED BY <1>7, <1>8 DEF array, two

LEMMA OpenWrites ==
    ASSUME NEW b \in BuilderSet, NEW t \in JsonToken, NEW u \in JsonToken
    PROVE  /\ Writes(Open(b, <<t>>), readToken(AfterComma(b), t), FALSE)
           /\ Writes(Open(b, <<t, u>>), readToken(readToken(AfterComma(b), t), u), FALSE)
<1> DEFINE T == Seq(JsonToken)
           comma == <<"comma">>
           in == IF b.comma THEN Append(b.text, comma) ELSE b.text
<1>1. b.text \in T /\ b.comma \in BOOLEAN /\ comma \in JsonToken
  BY JsonTokens DEF BuilderSet
<1>2. in \in T /\ readText(in) = AfterComma(b)
  <2>1. Append(b.text, comma) \in T /\ readText(Append(b.text, comma)) = readToken(readText(b.text), comma)
    <3> HIDE DEF comma
    <3> QED BY <1>1, ReadAppend, AppendProperties
  <2> QED BY <1>1, <2>1 DEF AfterComma
<1>3. Open(b, <<t>>).text = in \o <<t>> /\ Open(b, <<t, u>>).text = in \o <<t, u>>
  <2>1. CASE b.comma
    <3>1. Append(b.text, comma) = b.text \o <<comma>>
      <4> HIDE DEF comma
      <4> QED BY <1>1, AppendIsConcat
    <3> QED BY <2>1, <3>1 DEF Open
  <2>2. CASE ~ b.comma
    <3>1. b.text \o <<>> = b.text
      BY <1>1, ConcatEmptySeq
    <3> QED BY <2>2, <3>1 DEF Open
  <2> QED BY <2>1, <2>2
<1> HIDE DEF in
<1>4. in \o <<t>> = Append(in, t) /\ Append(in, t) \in T
  BY <1>2, AppendIsConcat, AppendProperties
<1>5. in \o <<t, u>> = Append(Append(in, t), u)
  <2>1. <<t, u>> = <<t>> \o <<u>> /\ <<t>> \in T /\ <<u>> \in T
    <3>1. <<t>> \in T /\ <<u>> \in T
      BY OneElement
    <3>2. <<t>> \o <<u>> = Append(<<t>>, u)
      BY <3>1, AppendIsConcat
    <3>3. Append(<<t>>, u) = <<t, u>>
      BY AppendTwo
    <3> QED BY <3>1, <3>2, <3>3
  <2>2. in \o <<t, u>> = (in \o <<t>>) \o <<u>>
    BY <1>2, <2>1, ConcatAssociative
  <2>3. Append(in, t) \o <<u>> = Append(Append(in, t), u)
    BY <1>4, AppendIsConcat
  <2> QED BY <1>4, <2>2, <2>3
<1>6. readText(Append(in, t)) = readToken(AfterComma(b), t)
  BY <1>2, ReadAppend
<1>7. /\ Append(Append(in, t), u) \in T
      /\ readText(Append(Append(in, t), u)) = readToken(readToken(AfterComma(b), t), u)
  BY <1>4, <1>6, ReadAppend, AppendProperties
<1>8. /\ Open(b, <<t>>) = [text |-> in \o <<t>>, comma |-> FALSE]
      /\ Open(b, <<t, u>>) = [text |-> in \o <<t, u>>, comma |-> FALSE]
  BY <1>3 DEF Open
<1>9. ASSUME NEW text \in T, NEW o, o = [text |-> text, comma |-> FALSE],
             NEW r, readText(text) = r
      PROVE  Writes(o, r, FALSE)
  BY <1>9 DEF Writes, BuilderSet
<1> HIDE DEF T
<1> QED BY <1>4, <1>5, <1>6, <1>7, <1>8, <1>9

\* One step each.
LEMMA BracketsWrite ==
    ASSUME NEW b \in BuilderSet
    PROVE  /\ Writes(beginObject(b), readToken(AfterComma(b), <<"begin", "object">>), FALSE)
           /\ Writes(beginArray(b), readToken(AfterComma(b), <<"begin", "array">>), FALSE)
           /\ Writes(endObject(b), readToken(readText(b.text), <<"end", "object">>), TRUE)
           /\ Writes(endArray(b), readToken(readText(b.text), <<"end", "array">>), TRUE)
<1>1. \A kind \in {"object", "array"} : <<"begin", kind>> \in JsonToken /\ <<"end", kind>> \in JsonToken
  BY JsonTokens
<1>2. /\ Writes(beginObject(b), readToken(AfterComma(b), <<"begin", "object">>), FALSE)
      /\ Writes(beginArray(b), readToken(AfterComma(b), <<"begin", "array">>), FALSE)
  BY <1>1, OpenWrites DEF beginObject, beginArray
<1>3. ASSUME NEW kind \in {"object", "array"}
      PROVE  Writes(Close(b, kind), readToken(readText(b.text), <<"end", kind>>), TRUE)
  <2> DEFINE t == <<"end", kind>>
  <2>1. t \in JsonToken /\ Close(b, kind) = [text |-> Append(b.text, t), comma |-> TRUE]
    BY <1>1 DEF Close
  <2>2. b.text \in Seq(JsonToken)
    BY DEF BuilderSet
  <2> HIDE DEF t
  <2>3. Append(b.text, t) \in Seq(JsonToken) /\ readText(Append(b.text, t)) = readToken(readText(b.text), t)
    BY <2>1, <2>2, AppendProperties, ReadAppend
  <2>4. Writes(Close(b, kind), readToken(readText(b.text), t), TRUE)
    BY <2>1, <2>3 DEF Writes, BuilderSet
  <2> QED BY <2>4 DEF t
<1>4. /\ Writes(endObject(b), readToken(readText(b.text), <<"end", "object">>), TRUE)
      /\ Writes(endArray(b), readToken(readText(b.text), <<"end", "array">>), TRUE)
  BY <1>3 DEF endObject, endArray
<1> QED BY <1>2, <1>4

LEMMA NamedWrites ==
    ASSUME NEW b \in BuilderSet, NEW name \in Name
    PROVE  /\ Writes(beginObjectNamed(b, name),
                     readToken(readToken(AfterComma(b), <<"key", name>>), <<"begin", "object">>), FALSE)
           /\ Writes(beginArrayNamed(b, name),
                     readToken(readToken(AfterComma(b), <<"key", name>>), <<"begin", "array">>), FALSE)
<1> DEFINE key == <<"key", name>>
<1>1. key \in JsonToken /\ \A kind \in {"object", "array"} : <<"begin", kind>> \in JsonToken
  BY JsonTokens
<1> HIDE DEF key
<1>2. /\ Writes(beginObjectNamed(b, name), readToken(readToken(AfterComma(b), key), <<"begin", "object">>), FALSE)
      /\ Writes(beginArrayNamed(b, name), readToken(readToken(AfterComma(b), key), <<"begin", "array">>), FALSE)
  BY <1>1, OpenWrites DEF beginObjectNamed, beginArrayNamed, key
<1> QED BY <1>2 DEF key

LEMMA AddWrites ==
    ASSUME NEW b \in BuilderSet, NEW value \in Value
    PROVE  /\ Writes(addField(b, value), readToken(AfterComma(b), Written(value)), TRUE)
           /\ \A name \in Name :
                 Writes(addFieldNamed(b, name, value),
                        readToken(readToken(AfterComma(b), <<"key", name>>), Written(value)), TRUE)
<1> DEFINE key(name) == <<"key", name>>
           val == Written(value)
<1>1. val \in JsonToken /\ \A name \in Name : key(name) \in JsonToken
  BY JsonTokens
<1> HIDE DEF key, val
<1>2. ASSUME NEW o, NEW r, Writes(o, r, FALSE) PROVE Writes([o EXCEPT !.comma = TRUE], r, TRUE)
  BY <1>2 DEF Writes, BuilderSet
<1>3. Writes(addField(b, value), readToken(AfterComma(b), val), TRUE)
  <2>1. Writes(Open(b, <<val>>), readToken(AfterComma(b), val), FALSE)
    BY <1>1, OpenWrites
  <2> QED BY <1>2, <2>1 DEF addField, val
<1>4. ASSUME NEW name \in Name
      PROVE  Writes(addFieldNamed(b, name, value), readToken(readToken(AfterComma(b), key(name)), val), TRUE)
  <2>1. Writes(Open(b, <<key(name), val>>), readToken(readToken(AfterComma(b), key(name)), val), FALSE)
    BY <1>1, OpenWrites
  <2> QED BY <1>2, <2>1 DEF addFieldNamed, key, val
<1> QED BY <1>3, <1>4 DEF key, val

\* A container of two values.
LEMMA LoopOfTwo ==
    ASSUME NEW b, NEW value
    PROVE  addFieldLoop(b, <<value, value>>) = addField(addField(b, value), value)
<1> DEFINE two == <<value, value>>
           Next_(f, n) == IF n = 0 THEN b ELSE addField(f[n - 1], two[n])
           h == [n \in 0 .. 2 |-> IF n = 0 THEN b ELSE IF n = 1 THEN addField(b, value)
                                  ELSE addField(addField(b, value), value)]
           chosen == CHOOSE f : f = [n \in 0 .. 2 |-> Next_(f, n)]
<1>1. \A n \in 0 .. 2 : n = 0 \/ n = 1 \/ n = 2
  OBVIOUS
<1>2. h[0] = b /\ h[1] = addField(b, value) /\ h[2] = addField(addField(b, value), value)
  OBVIOUS
<1>3. two[1] = value /\ two[2] = value /\ Len(two) = 2
  OBVIOUS
<1>4. ASSUME NEW n \in 0 .. 2 PROVE h[n] = Next_(h, n)
  <2> HIDE DEF h, two
  <2>1. CASE n = 0
    BY <1>2, <2>1
  <2>2. CASE n = 1
    BY <1>2, <1>3, <2>2
  <2>3. CASE n = 2
    BY <1>2, <1>3, <2>3
  <2> QED BY <1>1, <2>1, <2>2, <2>3
<1>5. h = [n \in 0 .. 2 |-> Next_(h, n)]
  <2>1. \A n \in 0 .. 2 : h[n] = Next_(h, n)
    <3> HIDE DEF h, Next_
    <3> QED BY <1>4
  <2>2. h = [n \in 0 .. 2 |-> h[n]]
    OBVIOUS
  <2> HIDE DEF h, Next_
  <2> QED BY <2>1, <2>2
<1>6. chosen = [n \in 0 .. 2 |-> Next_(chosen, n)]
  <2> HIDE DEF h, Next_
  <2> QED BY <1>5
<1>7. addFieldLoop(b, two) = chosen[2]
  <2>1. addFieldLoop(b, two) = (CHOOSE f : f = [n \in 0 .. Len(two) |-> Next_(f, n)])[Len(two)]
    BY DEF addFieldLoop
  <2> HIDE DEF two
  <2> QED BY <1>3, <2>1
<1> HIDE DEF chosen, two
<1>8. \A n \in 0 .. 2 : chosen[n] = Next_(chosen, n)
  <2> DEFINE own == [n \in 0 .. 2 |-> Next_(chosen, n)]
  <2>1. \A n \in 0 .. 2 : own[n] = Next_(chosen, n)
    OBVIOUS
  <2>2. chosen = own
    BY <1>6
  <2> HIDE DEF own, Next_
  <2> QED BY <2>1, <2>2
<1>9. chosen[0] = b /\ chosen[1] = addField(b, value) /\ chosen[2] = addField(addField(b, value), value)
  <2>1. chosen[0] = b
    BY <1>8
  <2>2. chosen[1] = addField(b, value)
    BY <1>3, <1>8, <2>1
  <2>3. chosen[2] = addField(addField(b, value), value)
    BY <1>3, <1>8, <2>2
  <2> QED BY <2>1, <2>2, <2>3
<1> QED BY <1>7, <1>9 DEF two

LEMMA ArrayWrites ==
    ASSUME NEW b \in BuilderSet, NEW name \in Name, NEW value \in Value
    PROVE  LET first == readToken(readToken(readToken(AfterComma(b), <<"key", name>>),
                                            <<"begin", "array">>), Written(value))
               second == readToken(readToken(first, <<"comma">>), Written(value))
           IN Writes(addFieldArray(b, name, <<value, value>>), readToken(second, <<"end", "array">>), TRUE)
<1> DEFINE b1 == beginArrayNamed(b, name)
           r1 == readToken(readToken(AfterComma(b), <<"key", name>>), <<"begin", "array">>)
           b2 == addField(b1, value)
           r2 == readToken(r1, Written(value))
           b3 == addField(b2, value)
           r3 == readToken(readToken(r2, <<"comma">>), Written(value))
<1>1. Writes(b1, r1, FALSE)
  BY NamedWrites
<1>2. addFieldArray(b, name, <<value, value>>) = endArray(b3)
  BY LoopOfTwo DEF addFieldArray
<1> HIDE DEF b1, r1
<1>3. Writes(b2, r2, TRUE)
  <2>1. b1 \in BuilderSet /\ AfterComma(b1) = r1
    BY <1>1 DEF Writes, AfterComma
  <2> QED BY <2>1, AddWrites
<1> HIDE DEF b2, r2
<1>4. Writes(b3, r3, TRUE)
  <2>1. b2 \in BuilderSet /\ AfterComma(b2) = readToken(r2, <<"comma">>)
    BY <1>3 DEF Writes, AfterComma
  <2> QED BY <2>1, AddWrites
<1> HIDE DEF b3, r3
<1>5. Writes(endArray(b3), readToken(r3, <<"end", "array">>), TRUE)
  <2>1. b3 \in BuilderSet /\ readText(b3.text) = r3
    BY <1>4 DEF Writes
  <2> QED BY <2>1, BracketsWrite
<1> QED BY <1>2, <1>5 DEF r3, r2, r1

----------------------------------------------------------------------------
\* As long as the calls make sense and the outermost container is open, the
\* reader has the same containers open, and expects a comma if the builder will
\* write one. Otherwise it has the same document, or error.
Within(open, comma) == Reading(open, <<>>, IF comma THEN "comma" ELSE "item")

Corresponds(r, m, comma) ==
    IF m.document = None
    THEN r = Within(m.open, comma) /\ m = InProgress(m.open) /\ Stack(m.open) /\ m.open # <<>>
    ELSE r.document = m.document

LEMMA Results ==
    /\ CouldNotCreateJson # None
    /\ \A kind, content : <<kind, content>> # None
BY DEF CouldNotCreateJson, None

\* Each kind of token has its own operator.
LEMMA ReadKinds ==
    ASSUME NEW r, r.document = None, NEW x
    PROVE  /\ readToken(r, <<"key", x>>) = readKey(r, x)
           /\ readToken(r, <<"value", x>>) = readValue(r, x)
           /\ readToken(r, <<"begin", x>>) = readBegin(r, x)
           /\ readToken(r, <<"end", x>>) = readEnd(r, x)
           /\ readToken(r, <<"comma">>) = readComma(r)
           /\ readToken(r, <<"word">>) = Complete(CouldNotCreateJson)
<1> DEFINE comma_(t) == IF t[1] = "comma" THEN readComma(r) ELSE Complete(CouldNotCreateJson)
           end_(t) == IF t[1] = "end" THEN readEnd(r, t[2]) ELSE comma_(t)
           begin_(t) == IF t[1] = "begin" THEN readBegin(r, t[2]) ELSE end_(t)
           value_(t) == IF t[1] = "value" THEN readValue(r, t[2]) ELSE begin_(t)
           key_(t) == IF t[1] = "key" THEN readKey(r, t[2]) ELSE value_(t)
<1>0. \A t : readToken(r, t) = key_(t)
  <2>1. ASSUME NEW t PROVE readToken(r, t) = IF r.document # None THEN r ELSE key_(t)
    BY Zenon DEF readToken
  <2> HIDE DEF key_
  <2> QED BY <2>1
<1>1. ASSUME NEW t
      PROVE  /\ t[1] = "key" => readToken(r, t) = readKey(r, t[2])
             /\ t[1] = "value" => readToken(r, t) = readValue(r, t[2])
             /\ t[1] = "begin" => readToken(r, t) = readBegin(r, t[2])
             /\ t[1] = "end" => readToken(r, t) = readEnd(r, t[2])
             /\ t[1] = "comma" => readToken(r, t) = readComma(r)
             /\ t[1] = "word" => readToken(r, t) = Complete(CouldNotCreateJson)
  <2>1. /\ t[1] = "key" => key_(t) = readKey(r, t[2])
        /\ t[1] # "key" => key_(t) = value_(t)
    <3> HIDE DEF value_
    <3> QED OBVIOUS
  <2>2. /\ t[1] = "value" => value_(t) = readValue(r, t[2])
        /\ t[1] # "value" => value_(t) = begin_(t)
    <3> HIDE DEF begin_
    <3> QED OBVIOUS
  <2>3. /\ t[1] = "begin" => begin_(t) = readBegin(r, t[2])
        /\ t[1] # "begin" => begin_(t) = end_(t)
    <3> HIDE DEF end_
    <3> QED OBVIOUS
  <2>4. /\ t[1] = "end" => end_(t) = readEnd(r, t[2])
        /\ t[1] # "end" => end_(t) = comma_(t)
    <3> HIDE DEF comma_
    <3> QED OBVIOUS
  <2>5. /\ t[1] = "comma" => comma_(t) = readComma(r)
        /\ t[1] # "comma" => comma_(t) = Complete(CouldNotCreateJson)
    OBVIOUS
  <2> HIDE DEF key_, value_, begin_, end_, comma_
  <2> QED BY <1>0, <2>1, <2>2, <2>3, <2>4, <2>5
<1> DEFINE token(kind) == <<kind, x>>
           comma == <<"comma">>
           word == <<"word">>
<1>2. /\ \A kind \in {"key", "value", "begin", "end"} : token(kind)[1] = kind /\ token(kind)[2] = x
      /\ comma[1] = "comma" /\ word[1] = "word"
  OBVIOUS
<1> HIDE DEF token, comma, word, key_
<1>3. /\ readToken(r, token("key")) = readKey(r, x)
      /\ readToken(r, token("value")) = readValue(r, x)
      /\ readToken(r, token("begin")) = readBegin(r, x)
      /\ readToken(r, token("end")) = readEnd(r, x)
      /\ readToken(r, comma) = readComma(r)
      /\ readToken(r, word) = Complete(CouldNotCreateJson)
  BY <1>1, <1>2
<1> QED BY <1>3 DEF token, comma, word

\* What the reader makes of a token: in front of an item, behind a name, and
\* where a comma is expected.
LEMMA ReadItem ==
    ASSUME NEW open, NEW name, NEW value, NEW kind
    PROVE  LET r == Reading(open, <<>>, "item")
               top == Last(open)
           IN /\ readToken(r, <<"key", name>>) =
                    IF top.kind = "object" THEN Reading(open, <<name>>, "value")
                    ELSE Complete(CouldNotCreateJson)
              /\ readToken(r, <<"begin", kind>>) =
                    IF top.kind = "object" THEN Complete(CouldNotCreateJson)
                    ELSE Reading(Append(open, [kind |-> kind, name |-> <<>>, content |-> <<>>]), <<>>, "item")
              /\ readToken(r, <<"value", value>>) =
                    IF top.kind = "object" THEN Complete(CouldNotCreateJson)
                    ELSE Reading(WithItem(open, <<>>, value), <<>>, "comma")
<1> DEFINE r == Reading(open, <<>>, "item")
<1>1. /\ r.open = open /\ r.key = <<>> /\ r.expects = "item" /\ r.document = None
  BY DEF Reading
<1> HIDE DEF r
<1>3. readToken(r, <<"key", name>>) = readKey(r, name)
  BY <1>1, ReadKinds
<1>4. readToken(r, <<"begin", kind>>) = readBegin(r, kind)
  BY <1>1, ReadKinds
<1>5. readToken(r, <<"value", value>>) = readValue(r, value)
  BY <1>1, ReadKinds
<1>6. ExpectsValue(r) = (Last(open).kind # "object")
  BY <1>1 DEF ExpectsValue
<1> QED BY <1>1, <1>3, <1>4, <1>5, <1>6 DEF readKey, readBegin, readValue, r

LEMMA ReadNamed ==
    ASSUME NEW open, NEW name, NEW value, NEW kind
    PROVE  LET r == Reading(open, <<name>>, "value")
           IN /\ readToken(r, <<"begin", kind>>) =
                    Reading(Append(open, [kind |-> kind, name |-> <<name>>, content |-> <<>>]), <<>>, "item")
              /\ readToken(r, <<"value", value>>) = Reading(WithItem(open, <<name>>, value), <<>>, "comma")
<1> DEFINE r == Reading(open, <<name>>, "value")
<1>1. /\ r.open = open /\ r.key = <<name>> /\ r.expects = "value" /\ r.document = None
  BY DEF Reading
<1> HIDE DEF r
<1>3. readToken(r, <<"begin", kind>>) = readBegin(r, kind)
  BY <1>1, ReadKinds
<1>4. readToken(r, <<"value", value>>) = readValue(r, value)
  BY <1>1, ReadKinds
<1>5. ExpectsValue(r)
  BY <1>1 DEF ExpectsValue
<1> QED BY <1>1, <1>3, <1>4, <1>5 DEF readBegin, readValue, r

\* The same of a token for a document or a word.
LEMMA ReadStanding ==
    ASSUME NEW open, NEW name, NEW token, NEW d, StandsFor(token, d)
    PROVE  /\ readToken(Reading(open, <<>>, "item"), token) =
                  IF Last(open).kind = "object" \/ d = CouldNotCreateJson
                  THEN Complete(CouldNotCreateJson)
                  ELSE Reading(WithItem(open, <<>>, d), <<>>, "comma")
           /\ readToken(Reading(open, <<name>>, "value"), token) =
                  IF d = CouldNotCreateJson THEN Complete(CouldNotCreateJson)
                  ELSE Reading(WithItem(open, <<name>>, d), <<>>, "comma")
<1> DEFINE item == Reading(open, <<>>, "item")
           value == Reading(open, <<name>>, "value")
           word == <<"word">>
           valued == <<"value", d>>
<1>1. item.document = None /\ value.document = None
  BY DEF Reading
<1>2. /\ readToken(item, valued) = IF Last(open).kind = "object" THEN Complete(CouldNotCreateJson)
                                   ELSE Reading(WithItem(open, <<>>, d), <<>>, "comma")
      /\ readToken(value, valued) = Reading(WithItem(open, <<name>>, d), <<>>, "comma")
  <2>1. readToken(Reading(open, <<>>, "item"), <<"value", d>>) =
           IF Last(open).kind = "object" THEN Complete(CouldNotCreateJson)
           ELSE Reading(WithItem(open, <<>>, d), <<>>, "comma")
    BY ReadItem, Zenon
  <2>2. readToken(Reading(open, <<name>>, "value"), <<"value", d>>) =
           Reading(WithItem(open, <<name>>, d), <<>>, "comma")
    BY ReadNamed, Zenon
  <2> QED BY <2>1, <2>2
<1> HIDE DEF item, value
<1>3. readToken(item, word) = Complete(CouldNotCreateJson) /\ readToken(value, word) = Complete(CouldNotCreateJson)
  BY <1>1, ReadKinds
<1>4. token = IF d = CouldNotCreateJson THEN word ELSE valued
  BY DEF StandsFor
<1> HIDE DEF word, valued
<1>5. CASE d = CouldNotCreateJson
  BY <1>3, <1>4, <1>5 DEF item, value
<1>6. CASE d # CouldNotCreateJson
  BY <1>2, <1>4, <1>6 DEF item, value
<1> QED BY <1>5, <1>6

LEMMA ReadEnd ==
    ASSUME NEW open, NEW comma \in BOOLEAN, NEW kind
    PROVE  LET r == Within(open, comma)
               top == Last(open)
               value == <<kind, top.content>>
           IN /\ readToken(Reading(open, <<>>, "comma"), <<"comma">>) = Reading(open, <<>>, "item")
              /\ readToken(r, <<"end", kind>>) =
                    IF top.kind # kind THEN Complete(CouldNotCreateJson)
                    ELSE IF Len(open) = 1 THEN Complete(value)
                    ELSE Reading(WithItem(Front(open), top.name, value), <<>>, "comma")
<1> DEFINE r == Within(open, comma)
           s == Reading(open, <<>>, "comma")
<1>1. /\ r.open = open /\ r.expects \in {"item", "comma"} /\ r.document = None
      /\ s.open = open /\ s.expects = "comma" /\ s.document = None
  BY DEF Reading, Within
<1> HIDE DEF r, s
<1>3. readToken(r, <<"end", kind>>) = readEnd(r, kind)
  BY <1>1, ReadKinds
<1>4. readToken(s, <<"comma">>) = Reading(open, <<>>, "item")
  BY <1>1, ReadKinds DEF readComma
<1> QED BY <1>1, <1>3, <1>4 DEF readEnd, r, s

\* What the calls mean in the same place.
LEMMA UnderstandCalls ==
    ASSUME NEW open, NEW name, NEW value, NEW kind
    PROVE  LET m == InProgress(open)
               top == Last(open)
               error == Over(CouldNotCreateJson)
               content == <<kind, top.content>>
           IN /\ Understand(m, <<"begin", kind>>) =
                    IF top.kind = "object" THEN error
                    ELSE InProgress(Append(open, [kind |-> kind, name |-> <<>>, content |-> <<>>]))
              /\ Understand(m, <<"beginNamed", kind, name>>) =
                    IF top.kind # "object" THEN error
                    ELSE InProgress(Append(open, [kind |-> kind, name |-> <<name>>, content |-> <<>>]))
              /\ Understand(m, <<"end", kind>>) =
                    IF top.kind # kind THEN error
                    ELSE IF Len(open) = 1 THEN Over(content)
                    ELSE InProgress(WithItem(Front(open), top.name, content))
              /\ Understand(m, <<"add", value>>) =
                    IF top.kind = "object" \/ Meaning(value) = CouldNotCreateJson THEN error
                    ELSE InProgress(WithItem(open, <<>>, Meaning(value)))
              /\ Understand(m, <<"addNamed", value, name>>) =
                    IF top.kind # "object" \/ Meaning(value) = CouldNotCreateJson THEN error
                    ELSE InProgress(WithItem(open, <<name>>, Meaning(value)))
<1> DEFINE m == InProgress(open)
<1>1. m.open = open /\ m.document = None
  BY DEF InProgress
<1>2. <<name>> # <<>>
  OBVIOUS
<1>3. /\ <<"begin", kind>>[1] = "begin" /\ <<"begin", kind>>[2] = kind
      /\ <<"beginNamed", kind, name>>[1] = "beginNamed" /\ <<"beginNamed", kind, name>>[2] = kind
      /\ <<"beginNamed", kind, name>>[3] = name
      /\ <<"end", kind>>[1] = "end" /\ <<"end", kind>>[2] = kind
      /\ <<"add", value>>[1] = "add" /\ <<"add", value>>[2] = value
      /\ <<"addNamed", value, name>>[1] = "addNamed" /\ <<"addNamed", value, name>>[2] = value
      /\ <<"addNamed", value, name>>[3] = name
  OBVIOUS
<1> HIDE DEF m
<1>4. Fits(m, <<>>) = (Last(open).kind # "object") /\ Fits(m, <<name>>) = (Last(open).kind = "object")
  BY <1>1, <1>2 DEF Fits
<1>5. Understand(m, <<"begin", kind>>) =
         IF Last(open).kind = "object" THEN Over(CouldNotCreateJson)
         ELSE InProgress(Append(open, [kind |-> kind, name |-> <<>>, content |-> <<>>]))
  BY <1>1, <1>3, <1>4 DEF Understand
<1>6. Understand(m, <<"beginNamed", kind, name>>) =
         IF Last(open).kind # "object" THEN Over(CouldNotCreateJson)
         ELSE InProgress(Append(open, [kind |-> kind, name |-> <<name>>, content |-> <<>>]))
  BY <1>1, <1>3, <1>4 DEF Understand
<1>7. Understand(m, <<"end", kind>>) =
         IF Last(open).kind # kind THEN Over(CouldNotCreateJson)
         ELSE IF Len(open) = 1 THEN Over(<<kind, Last(open).content>>)
         ELSE InProgress(WithItem(Front(open), Last(open).name, <<kind, Last(open).content>>))
  BY <1>1, <1>3 DEF Understand
<1>8. Understand(m, <<"add", value>>) =
         IF Last(open).kind = "object" \/ Meaning(value) = CouldNotCreateJson THEN Over(CouldNotCreateJson)
         ELSE InProgress(WithItem(open, <<>>, Meaning(value)))
  BY <1>1, <1>3, <1>4 DEF Understand
<1>9. Understand(m, <<"addNamed", value, name>>) =
         IF Last(open).kind # "object" \/ Meaning(value) = CouldNotCreateJson THEN Over(CouldNotCreateJson)
         ELSE InProgress(WithItem(open, <<name>>, Meaning(value)))
  BY <1>1, <1>3, <1>4 DEF Understand
<1> QED BY <1>5, <1>6, <1>7, <1>8, <1>9 DEF m

\* The builder has written what the calls mean.
Follows(b, m) == b \in BuilderSet /\ Corresponds(readText(b.text), m, b.comma)

\* The reader is done with the document: nothing counts any more.
LEMMA FollowsDone ==
    ASSUME NEW b, NEW m, Follows(b, m), m.document # None
    PROVE  /\ readText(b.text).document = m.document /\ AfterComma(b).document = m.document
           /\ \A r, token : r.document = m.document => readToken(r, token).document = m.document
           /\ \A call : Understand(m, call) = m
           /\ \A o, r, comma : Writes(o, r, comma) /\ r.document = m.document => Follows(o, m)
<1>1. readText(b.text).document = m.document
  BY DEF Follows, Corresponds
<1>2. ASSUME NEW r, NEW token, r.document = m.document PROVE readToken(r, token).document = m.document
  <2>1. r.document # None
    BY <1>2
  <2>2. readToken(r, token) = r
    BY <2>1, Zenon DEF readToken
  <2> QED BY <1>2, <2>2
<1>3. AfterComma(b).document = m.document
  BY <1>1, <1>2 DEF AfterComma
<1>4. ASSUME NEW call PROVE Understand(m, call) = m
  BY Zenon DEF Understand
<1>5. \A o, r, comma : Writes(o, r, comma) /\ r.document = m.document => Follows(o, m)
  BY DEF Writes, Follows, Corresponds
<1> QED BY <1>1, <1>2, <1>3, <1>4, <1>5

LEMMA FollowsNothing ==
    ASSUME NEW b, NEW m, Follows(b, m), m.document # None,
           NEW o, NEW token, NEW next, NEW comma, NEW call,
           \/ Writes(o, readToken(AfterComma(b), token), comma)
           \/ Writes(o, readToken(readToken(AfterComma(b), token), next), comma)
           \/ Writes(o, readToken(readText(b.text), token), comma)
    PROVE  Follows(o, Understand(m, call))
<1> DEFINE first == readToken(AfterComma(b), token)
           second == readToken(first, next)
           third == readToken(readText(b.text), token)
<1>1. Understand(m, call) = m
  BY FollowsDone
<1>2. first.document = m.document /\ third.document = m.document
  BY FollowsDone
<1>3. second.document = m.document
  <2> HIDE DEF first
  <2> QED BY <1>2, FollowsDone
<1>4. Writes(o, first, comma) \/ Writes(o, second, comma) \/ Writes(o, third, comma)
  OBVIOUS
<1> HIDE DEF first, second, third
<1>5. Follows(o, m)
  BY <1>2, <1>3, <1>4, FollowsDone
<1> QED BY <1>1, <1>5

\* It is not.
LEMMA FollowsOpen ==
    ASSUME NEW b, NEW m, Follows(b, m), m.document = None
    PROVE  /\ m = InProgress(m.open) /\ Stack(m.open) /\ m.open # <<>>
           /\ b.comma \in BOOLEAN /\ readText(b.text) = Within(m.open, b.comma)
           /\ AfterComma(b) = Reading(m.open, <<>>, "item")
<1>1. /\ m = InProgress(m.open) /\ Stack(m.open) /\ m.open # <<>>
      /\ b.comma \in BOOLEAN /\ readText(b.text) = Within(m.open, b.comma)
  BY DEF Follows, Corresponds, BuilderSet
<1>2. readToken(Reading(m.open, <<>>, "comma"), <<"comma">>) = Reading(m.open, <<>>, "item")
  <2> DEFINE open == m.open
  <2> HIDE DEF open
  <2>1. readToken(Reading(open, <<>>, "comma"), <<"comma">>) = Reading(open, <<>>, "item")
    BY ReadEnd
  <2> QED BY <2>1 DEF open
<1>3. CASE b.comma
  <2>1. readText(b.text) = Reading(m.open, <<>>, "comma")
    BY <1>1, <1>3 DEF Within
  <2> QED BY <1>1, <1>2, <1>3, <2>1 DEF AfterComma
<1>4. CASE ~ b.comma
  <2>1. readText(b.text) = Reading(m.open, <<>>, "item")
    BY <1>1, <1>4 DEF Within
  <2> QED BY <1>1, <1>4, <2>1 DEF AfterComma
<1> QED BY <1>1, <1>3, <1>4

LEMMA FollowsThen ==
    ASSUME NEW o, NEW open, Stack(open), open # <<>>
    PROVE  /\ Writes(o, Reading(open, <<>>, "item"), FALSE) => Follows(o, InProgress(open))
           /\ Writes(o, Reading(open, <<>>, "comma"), TRUE) => Follows(o, InProgress(open))
<1>1. /\ Corresponds(Reading(open, <<>>, "item"), InProgress(open), FALSE)
      /\ Corresponds(Reading(open, <<>>, "comma"), InProgress(open), TRUE)
  BY DEF Corresponds, Within, Reading, InProgress
<1> QED BY <1>1 DEF Writes, Follows

LEMMA FollowsEnd ==
    ASSUME NEW o, NEW document_, document_ # None, NEW comma, Writes(o, Complete(document_), comma)
    PROVE  Follows(o, Over(document_))
BY DEF Writes, Follows, Corresponds, Complete, Over

LEMMA ReadItemKey ==
    ASSUME NEW open, NEW name
    PROVE  readToken(Reading(open, <<>>, "item"), <<"key", name>>) =
              IF Last(open).kind = "object" THEN Reading(open, <<name>>, "value")
              ELSE Complete(CouldNotCreateJson)
BY ReadItem, Zenon

LEMMA ReadDone ==
    ASSUME NEW document_, document_ # None, NEW token
    PROVE  readToken(Complete(document_), token) = Complete(document_)
<1> DEFINE r == Complete(document_)
<1>1. r.document # None
  BY DEF Complete
<1> HIDE DEF r
<1>2. readToken(r, token) = r
  BY <1>1, Zenon DEF readToken
<1> QED BY <1>2 DEF r

\* One lemma for each kind of call.
LEMMA FollowsBegin ==
    ASSUME NEW b, NEW m, Follows(b, m), NEW kind, NEW o,
           Writes(o, readToken(AfterComma(b), <<"begin", kind>>), FALSE)
    PROVE  Follows(o, Understand(m, <<"begin", kind>>))
<1>1. CASE m.document # None
  BY <1>1, FollowsNothing
<1>2. CASE m.document = None
  <2> DEFINE open == m.open
             frame == [kind |-> kind, name |-> <<>>, content |-> <<>>]
             more == Append(open, frame)
  <2>1. m = InProgress(open) /\ Stack(open) /\ AfterComma(b) = Reading(open, <<>>, "item")
    BY <1>2, FollowsOpen
  <2> HIDE DEF open
  <2>2. readToken(AfterComma(b), <<"begin", kind>>) =
           IF Last(open).kind = "object" THEN Complete(CouldNotCreateJson) ELSE Reading(more, <<>>, "item")
    BY <2>1, ReadItem
  <2>3. Understand(m, <<"begin", kind>>) =
           IF Last(open).kind = "object" THEN Over(CouldNotCreateJson) ELSE InProgress(more)
    BY <2>1, UnderstandCalls
  <2>4. Stack(more) /\ more # <<>>
    BY <2>1, StackPush
  <2> HIDE DEF more
  <2>5. CASE Last(open).kind = "object"
    BY <2>2, <2>3, <2>5, FollowsEnd, Results
  <2>6. CASE Last(open).kind # "object"
    BY <2>2, <2>3, <2>4, <2>6, FollowsThen
  <2> QED BY <2>5, <2>6
<1> QED BY <1>1, <1>2

LEMMA FollowsBeginNamed ==
    ASSUME NEW b, NEW m, Follows(b, m), NEW kind, NEW name, NEW o,
           Writes(o, readToken(readToken(AfterComma(b), <<"key", name>>), <<"begin", kind>>), FALSE)
    PROVE  Follows(o, Understand(m, <<"beginNamed", kind, name>>))
<1>1. CASE m.document # None
  BY <1>1, FollowsNothing
<1>2. CASE m.document = None
  <2> DEFINE open == m.open
             frame == [kind |-> kind, name |-> <<name>>, content |-> <<>>]
             more == Append(open, frame)
  <2>1. m = InProgress(open) /\ Stack(open) /\ AfterComma(b) = Reading(open, <<>>, "item")
    BY <1>2, FollowsOpen
  <2> HIDE DEF open
  <2>2. readToken(AfterComma(b), <<"key", name>>) =
           IF Last(open).kind = "object" THEN Reading(open, <<name>>, "value") ELSE Complete(CouldNotCreateJson)
    BY <2>1, ReadItemKey
  <2>3. Understand(m, <<"beginNamed", kind, name>>) =
           IF Last(open).kind # "object" THEN Over(CouldNotCreateJson) ELSE InProgress(more)
    BY <2>1, UnderstandCalls
  <2>4. Stack(more) /\ more # <<>>
    BY <2>1, StackPush
  <2>5. readToken(Reading(open, <<name>>, "value"), <<"begin", kind>>) = Reading(more, <<>>, "item")
    BY ReadNamed
  <2>6. readToken(Complete(CouldNotCreateJson), <<"begin", kind>>) = Complete(CouldNotCreateJson)
    BY ReadDone, Results
  <2> HIDE DEF more
  <2>7. CASE Last(open).kind # "object"
    BY <2>2, <2>3, <2>6, <2>7, FollowsEnd, Results
  <2>8. CASE Last(open).kind = "object"
    BY <2>2, <2>3, <2>4, <2>5, <2>8, FollowsThen
  <2> QED BY <2>7, <2>8
<1> QED BY <1>1, <1>2

LEMMA FollowsAdd ==
    ASSUME NEW b, NEW m, Follows(b, m), NEW value \in Value, NEW o,
           Writes(o, readToken(AfterComma(b), Written(value)), TRUE)
    PROVE  Follows(o, Understand(m, <<"add", value>>))
<1>1. CASE m.document # None
  BY <1>1, FollowsNothing
<1>2. CASE m.document = None
  <2> DEFINE open == m.open
             d == Meaning(value)
             more == WithItem(open, <<>>, d)
  <2>1. m = InProgress(open) /\ Stack(open) /\ open # <<>> /\ AfterComma(b) = Reading(open, <<>>, "item")
    BY <1>2, FollowsOpen
  <2> HIDE DEF open
  <2>2. readToken(AfterComma(b), Written(value)) =
           IF Last(open).kind = "object" \/ d = CouldNotCreateJson THEN Complete(CouldNotCreateJson)
           ELSE Reading(more, <<>>, "comma")
    <3>1. StandsFor(Written(value), d)
      BY WrittenMeans
    <3> HIDE DEF d
    <3> QED BY <2>1, <3>1, ReadStanding
  <2>3. Understand(m, <<"add", value>>) =
           IF Last(open).kind = "object" \/ d = CouldNotCreateJson THEN Over(CouldNotCreateJson)
           ELSE InProgress(more)
    BY <2>1, UnderstandCalls
  <2>4. Stack(more) /\ more # <<>>
    BY <2>1, WithItemStack
  <2> HIDE DEF more, d
  <2>5. CASE Last(open).kind = "object" \/ d = CouldNotCreateJson
    BY <2>2, <2>3, <2>5, FollowsEnd, Results
  <2>6. CASE ~ (Last(open).kind = "object" \/ d = CouldNotCreateJson)
    BY <2>2, <2>3, <2>4, <2>6, FollowsThen
  <2> QED BY <2>5, <2>6
<1> QED BY <1>1, <1>2

LEMMA FollowsAddNamed ==
    ASSUME NEW b, NEW m, Follows(b, m), NEW name, NEW value \in Value, NEW o,
           Writes(o, readToken(readToken(AfterComma(b), <<"key", name>>), Written(value)), TRUE)
    PROVE  Follows(o, Understand(m, <<"addNamed", value, name>>))
<1>1. CASE m.document # None
  BY <1>1, FollowsNothing
<1>2. CASE m.document = None
  <2> DEFINE open == m.open
             d == Meaning(value)
             token == Written(value)
             more == WithItem(open, <<name>>, d)
  <2>1. m = InProgress(open) /\ Stack(open) /\ open # <<>> /\ AfterComma(b) = Reading(open, <<>>, "item")
    BY <1>2, FollowsOpen
  <2> HIDE DEF open
  <2>2. readToken(AfterComma(b), <<"key", name>>) =
           IF Last(open).kind = "object" THEN Reading(open, <<name>>, "value") ELSE Complete(CouldNotCreateJson)
    BY <2>1, ReadItemKey
  <2>3. Understand(m, <<"addNamed", value, name>>) =
           IF Last(open).kind # "object" \/ d = CouldNotCreateJson THEN Over(CouldNotCreateJson)
           ELSE InProgress(more)
    BY <2>1, UnderstandCalls
  <2>4. Stack(more) /\ more # <<>>
    BY <2>1, WithItemStack
  <2>5. readToken(Reading(open, <<name>>, "value"), token) =
           IF d = CouldNotCreateJson THEN Complete(CouldNotCreateJson) ELSE Reading(more, <<>>, "comma")
    <3>1. StandsFor(token, d)
      BY WrittenMeans
    <3> HIDE DEF d, token
    <3> QED BY <3>1, ReadStanding
  <2>6. readToken(Complete(CouldNotCreateJson), token) = Complete(CouldNotCreateJson)
    BY ReadDone, Results
  <2>7. Writes(o, readToken(readToken(AfterComma(b), <<"key", name>>), token), TRUE)
    OBVIOUS
  <2> HIDE DEF more, d, token
  <2>8. CASE Last(open).kind # "object" \/ d = CouldNotCreateJson
    BY <2>2, <2>3, <2>5, <2>6, <2>7, <2>8, FollowsEnd, Results
  <2>9. CASE ~ (Last(open).kind # "object" \/ d = CouldNotCreateJson)
    BY <2>2, <2>3, <2>4, <2>5, <2>7, <2>9, FollowsThen
  <2> QED BY <2>8, <2>9
<1> QED BY <1>1, <1>2

LEMMA FollowsClose ==
    ASSUME NEW b, NEW m, Follows(b, m), NEW kind, NEW o,
           Writes(o, readToken(readText(b.text), <<"end", kind>>), TRUE)
    PROVE  Follows(o, Understand(m, <<"end", kind>>))
<1>1. CASE m.document # None
  BY <1>1, FollowsNothing
<1>2. CASE m.document = None
  <2> DEFINE open == m.open
             top == Last(open)
             value == <<kind, top.content>>
             less == WithItem(Front(open), top.name, value)
  <2>1. /\ m = InProgress(open) /\ Stack(open) /\ open # <<>>
        /\ b.comma \in BOOLEAN /\ readText(b.text) = Within(open, b.comma)
    BY <1>2, FollowsOpen
  <2> HIDE DEF open
  <2>2. readToken(readText(b.text), <<"end", kind>>) =
           IF top.kind # kind THEN Complete(CouldNotCreateJson)
           ELSE IF Len(open) = 1 THEN Complete(value) ELSE Reading(less, <<>>, "comma")
    BY <2>1, ReadEnd
  <2>3. Understand(m, <<"end", kind>>) =
           IF top.kind # kind THEN Over(CouldNotCreateJson)
           ELSE IF Len(open) = 1 THEN Over(value) ELSE InProgress(less)
    BY <2>1, UnderstandCalls
  <2>4. Len(open) # 1 => Stack(less) /\ less # <<>>
    <3> HAVE Len(open) # 1
    <3>1. Stack(Front(open)) /\ Front(open) # <<>>
      BY <2>1, StackPop
    <3> QED BY <3>1, WithItemStack
  <2>5. value # None
    BY Results
  <2> HIDE DEF less, value, top
  <2>6. CASE top.kind # kind
    BY <2>2, <2>3, <2>6, FollowsEnd, Results
  <2>7. CASE top.kind = kind /\ Len(open) = 1
    BY <2>2, <2>3, <2>5, <2>7, FollowsEnd
  <2>8. CASE top.kind = kind /\ Len(open) # 1
    BY <2>2, <2>3, <2>4, <2>8, FollowsThen
  <2> QED BY <2>6, <2>7, <2>8
<1> QED BY <1>1, <1>2

\* An element of an array that is a member of what is open.
LEMMA ArrayItem ==
    ASSUME NEW open, Stack(open), open # <<>>, NEW name, NEW content, NEW value
    PROVE  LET frame(c) == [kind |-> "array", name |-> name, content |-> c]
               s == Append(open, frame(content))
           IN /\ Stack(s) /\ s # <<>> /\ Len(s) # 1
              /\ Last(s).kind = "array" /\ Last(s).content = content /\ Last(s).name = name
              /\ Front(s) = open
              /\ WithItem(s, <<>>, value) = Append(open, frame(Append(content, value)))
<1> DEFINE frame(c) == [kind |-> "array", name |-> name, content |-> c]
           s == Append(open, frame(content))
<1>1. /\ Stack(s) /\ s # <<>> /\ Len(open) \in Nat /\ Len(s) = Len(open) + 1
      /\ Last(s) = frame(content) /\ Front(s) = open
  <2> HIDE DEF frame
  <2> QED BY StackPush
<1>2. Len(open) \in Nat \ {0}
  BY StackPop
<1> HIDE DEF s
<1>3. Last(s).kind = "array" /\ Last(s).content = content /\ Last(s).name = name
  BY <1>1
<1>4. Len(s) # 1
  BY <1>1, <1>2
<1>5. WithItem(s, <<>>, value) = Append(open, frame(Append(content, value)))
  BY <1>1, <1>3 DEF WithItem
<1> QED BY <1>1, <1>3, <1>4, <1>5 DEF s

\* Two of them.
LEMMA TwoItems ==
    ASSUME NEW open, Stack(open), open # <<>>, NEW name,
           NEW token, NEW value, StandsFor(token, value), value # CouldNotCreateJson
    PROVE  LET frame(c) == [kind |-> "array", name |-> <<name>>, content |-> c]
               two == <<value, value>>
               first == readToken(Reading(Append(open, frame(<<>>)), <<>>, "item"), token)
               second == readToken(readToken(first, <<"comma">>), token)
           IN readToken(second, <<"end", "array">>) =
                 Reading(WithItem(open, <<name>>, <<"array", two>>), <<>>, "comma")
<1> DEFINE frame(c) == [kind |-> "array", name |-> <<name>>, content |-> c]
           one == <<value>>
           two == <<value, value>>
           s0 == Append(open, frame(<<>>))
           s1 == Append(open, frame(one))
           s2 == Append(open, frame(two))
           first == readToken(Reading(s0, <<>>, "item"), token)
           second == readToken(readToken(first, <<"comma">>), token)
<1>1. Append(<<>>, value) = one /\ Append(one, value) = two
  BY AppendTwo
<1>2. ASSUME NEW c
      PROVE  LET s == Append(open, frame(c))
             IN /\ Last(s).kind = "array" /\ Last(s).content = c /\ Last(s).name = <<name>>
                /\ Front(s) = open /\ Len(s) # 1
                /\ WithItem(s, <<>>, value) = Append(open, frame(Append(c, value)))
  BY ArrayItem
<1>3. /\ Last(s0).kind = "array" /\ WithItem(s0, <<>>, value) = s1
      /\ Last(s1).kind = "array" /\ WithItem(s1, <<>>, value) = s2
  <2> HIDE DEF one, two, frame
  <2> QED BY <1>1, <1>2
<1>4. Last(s2).kind = "array" /\ Last(s2).content = two /\ Last(s2).name = <<name>>
      /\ Front(s2) = open /\ Len(s2) # 1
  <2> HIDE DEF two, frame
  <2> QED BY <1>2
<1>5. \A s : Last(s).kind = "array" =>
         readToken(Reading(s, <<>>, "item"), token) = Reading(WithItem(s, <<>>, value), <<>>, "comma")
  <2> SUFFICES ASSUME NEW s, Last(s).kind = "array"
               PROVE  readToken(Reading(s, <<>>, "item"), token) = Reading(WithItem(s, <<>>, value), <<>>, "comma")
    OBVIOUS
  <2> HIDE DEF s0, s1, s2
  <2>1. readToken(Reading(s, <<>>, "item"), token) =
           IF Last(s).kind = "object" \/ value = CouldNotCreateJson THEN Complete(CouldNotCreateJson)
           ELSE Reading(WithItem(s, <<>>, value), <<>>, "comma")
    BY ReadStanding
  <2> QED BY <2>1
<1> HIDE DEF s0, s1, s2
<1>6. first = Reading(s1, <<>>, "comma")
  BY <1>3, <1>5
<1>7. readToken(first, <<"comma">>) = Reading(s1, <<>>, "item")
  BY <1>6, ReadEnd
<1>8. second = Reading(s2, <<>>, "comma")
  BY <1>3, <1>5, <1>7
<1>9. Reading(s2, <<>>, "comma") = Within(s2, TRUE)
  BY DEF Within
<1> HIDE DEF first, second, two
<1>10. readToken(Within(s2, TRUE), <<"end", "array">>) =
          IF Last(s2).kind # "array" THEN Complete(CouldNotCreateJson)
          ELSE IF Len(s2) = 1 THEN Complete(<<"array", Last(s2).content>>)
          ELSE Reading(WithItem(Front(s2), Last(s2).name, <<"array", Last(s2).content>>), <<>>, "comma")
  BY ReadEnd
<1>11. readToken(second, <<"end", "array">>) = Reading(WithItem(open, <<name>>, <<"array", two>>), <<>>, "comma")
  BY <1>4, <1>8, <1>9, <1>10
<1> QED BY <1>11 DEF two, first, second, s0

LEMMA FollowsAddArray ==
    ASSUME NEW b, NEW m, Follows(b, m), NEW name \in Name, NEW value \in Value
    PROVE  Follows(addFieldArray(b, name, <<value, value>>),
                   Understand(m, <<"addNamed", <<"array", <<value, value>>>>, name>>))
<1> DEFINE array == <<"array", <<value, value>>>>
           call == <<"addNamed", array, name>>
           o == addFieldArray(b, name, <<value, value>>)
           token == Written(value)
           d == Meaning(value)
           meant == <<"array", <<d, d>>>>
           r1 == readToken(AfterComma(b), <<"key", name>>)
           r2 == readToken(r1, <<"begin", "array">>)
           r3 == readToken(r2, token)
           r4 == readToken(r3, <<"comma">>)
           r5 == readToken(r4, token)
           r6 == readToken(r5, <<"end", "array">>)
<1>1. Writes(o, r6, TRUE)
  <2>1. b \in BuilderSet
    BY DEF Follows
  <2> QED BY <2>1, ArrayWrites
<1>4. StandsFor(token, d) /\ Meaning(array) = IF d = CouldNotCreateJson THEN CouldNotCreateJson ELSE meant
  BY WrittenMeans, ArrayMeans
<1>5. meant # CouldNotCreateJson
  <2>1. meant[1] = "array" /\ CouldNotCreateJson[1] = "CouldNotCreateJson"
    BY DEF CouldNotCreateJson
  <2> HIDE DEF meant
  <2> QED BY <2>1
<1> HIDE DEF token, array, o, d
<1>2. CASE m.document # None
  <2>1. r1.document = m.document
    BY <1>2, FollowsDone
  <2> HIDE DEF r1
  <2>2. r2.document = m.document
    BY <1>2, <2>1, FollowsDone
  <2> HIDE DEF r2
  <2>3. r3.document = m.document
    BY <1>2, <2>2, FollowsDone
  <2> HIDE DEF r3
  <2>4. r4.document = m.document
    BY <1>2, <2>3, FollowsDone
  <2> HIDE DEF r4
  <2>5. r5.document = m.document
    BY <1>2, <2>4, FollowsDone
  <2> HIDE DEF r5
  <2>6. r6.document = m.document
    BY <1>2, <2>5, FollowsDone
  <2> HIDE DEF r6
  <2>7. Follows(o, m)
    BY <1>1, <1>2, <2>6, FollowsDone
  <2>8. Understand(m, call) = m
    BY <1>2, FollowsDone
  <2> QED BY <2>7, <2>8 DEF array, o
<1>3. CASE m.document = None
  <2> DEFINE open == m.open
             more == WithItem(open, <<name>>, meant)
             frame == [kind |-> "array", name |-> <<name>>, content |-> <<>>]
  <2>1. m = InProgress(open) /\ Stack(open) /\ open # <<>> /\ AfterComma(b) = Reading(open, <<>>, "item")
    BY <1>3, FollowsOpen
  <2> HIDE DEF open
  <2>2. r1 = IF Last(open).kind = "object" THEN Reading(open, <<name>>, "value")
             ELSE Complete(CouldNotCreateJson)
    BY <2>1, ReadItemKey
  <2>3. Understand(m, call) =
           IF Last(open).kind # "object" \/ d = CouldNotCreateJson THEN Over(CouldNotCreateJson)
           ELSE InProgress(more)
    <3>1. Understand(InProgress(open), <<"addNamed", array, name>>) =
             IF Last(open).kind # "object" \/ Meaning(array) = CouldNotCreateJson THEN Over(CouldNotCreateJson)
             ELSE InProgress(WithItem(open, <<name>>, Meaning(array)))
      BY UnderstandCalls, Zenon
    <3> HIDE DEF meant
    <3> QED BY <1>4, <1>5, <2>1, <3>1
  <2>4. Stack(more) /\ more # <<>>
    BY <2>1, WithItemStack
  <2>5. CASE Last(open).kind # "object"
    <3>1. r1 = Complete(CouldNotCreateJson)
      BY <2>2, <2>5
    <3> HIDE DEF r1
    <3>2. \A t : readToken(Complete(CouldNotCreateJson), t) = Complete(CouldNotCreateJson)
      BY ReadDone, Results
    <3>3. r6 = Complete(CouldNotCreateJson)
      BY <3>1, <3>2
    <3> HIDE DEF r6, call
    <3>4. Follows(o, Over(CouldNotCreateJson))
      BY <1>1, <3>3, FollowsEnd, Results
    <3>5. Follows(o, Understand(m, call))
      BY <2>3, <2>5, <3>4
    <3> QED BY <3>5 DEF o, array, call
  <2>6. CASE Last(open).kind = "object"
    <3> DEFINE s == Append(open, frame)
    <3>1. r1 = Reading(open, <<name>>, "value")
      BY <2>2, <2>6
    <3> HIDE DEF r1
    <3>2. r2 = Reading(s, <<>>, "item")
      BY <3>1, ReadNamed
    <3> HIDE DEF r2
    <3>3. CASE d = CouldNotCreateJson
      <4>1. r3 = Complete(CouldNotCreateJson)
        <5> HIDE DEF s
        <5> QED BY <1>4, <3>2, <3>3, ReadStanding
      <4> HIDE DEF r3
      <4>2. \A t : readToken(Complete(CouldNotCreateJson), t) = Complete(CouldNotCreateJson)
        BY ReadDone, Results
      <4>3. r6 = Complete(CouldNotCreateJson)
        BY <4>1, <4>2
      <4> HIDE DEF r6, call
      <4>4. Follows(o, Over(CouldNotCreateJson))
        BY <1>1, <4>3, FollowsEnd, Results
      <4>5. Follows(o, Understand(m, call))
        BY <2>3, <3>3, <4>4
      <4> QED BY <4>5 DEF o, array, call
    <3>4. CASE d # CouldNotCreateJson
      <4>1. r6 = Reading(more, <<>>, "comma")
        <5>1. readToken(readToken(readToken(readToken(Reading(Append(open, frame), <<>>, "item"), token),
                                            <<"comma">>), token), <<"end", "array">>) =
                 Reading(WithItem(open, <<name>>, <<"array", <<d, d>>>>), <<>>, "comma")
          BY <1>4, <2>1, <3>4, TwoItems
        <5> QED BY <3>2, <5>1
      <4> HIDE DEF r6, call, more
      <4>2. Follows(o, InProgress(more))
        BY <1>1, <2>4, <4>1, FollowsThen
      <4>3. Follows(o, Understand(m, call))
        BY <2>3, <2>6, <3>4, <4>2
      <4> QED BY <4>3 DEF o, array, call
    <3> QED BY <3>3, <3>4
  <2> QED BY <2>5, <2>6
<1> QED BY <1>2, <1>3

\* A reader that will not find an object: it has found something else, or the
\* outermost container is an array.
NoObject(r) ==
    \/ r.document # None /\ r.document[1] # "object"
    \/ /\ r.document = None /\ r.expects # "document"
       /\ Stack(r.open) /\ r.open # <<>> /\ r.open[1].kind # "object"

LEMMA NoObjectThen ==
    /\ \A document_ : document_ # None /\ document_[1] # "object" => NoObject(Complete(document_))
    /\ NoObject(Complete(CouldNotCreateJson))
    /\ \A open, key, expects :
          Stack(open) /\ open # <<>> /\ open[1].kind # "object" /\ expects # "document"
             => NoObject(Reading(open, key, expects))
<1>1. CouldNotCreateJson # None /\ CouldNotCreateJson[1] # "object"
  BY DEF CouldNotCreateJson, None
<1>2. \A document_ : Complete(document_).document = document_
  BY DEF Complete
<1>3. \A open, key, expects : /\ Reading(open, key, expects).document = None
                              /\ Reading(open, key, expects).open = open
                              /\ Reading(open, key, expects).expects = expects
  BY DEF Reading
<1> QED BY <1>1, <1>2, <1>3 DEF NoObject

LEMMA StillNoObject ==
    ASSUME NEW r, NoObject(r), NEW token \in JsonToken
    PROVE  NoObject(readToken(r, token))
<1>1. CASE r.document # None
  <2>1. readToken(r, token) = r
    BY <1>1, Zenon DEF readToken
  <2> QED BY <2>1
<1>2. CASE r.document = None
  <2> DEFINE open == r.open
  <2>1. r.expects # "document" /\ Stack(open) /\ open # <<>> /\ open[1].kind # "object"
    BY <1>2 DEF NoObject
  <2> HIDE DEF open
  <2>2. \A key, value : NoObject(Reading(WithItem(open, key, value), <<>>, "comma"))
    <3> TAKE key, value
    <3>1. /\ Stack(WithItem(open, key, value)) /\ WithItem(open, key, value) # <<>>
          /\ WithItem(open, key, value)[1].kind = open[1].kind
      BY <2>1, WithItemStack
    <3> HIDE DEF WithItem
    <3> QED BY <2>1, <3>1, NoObjectThen
  <2>3. ASSUME NEW name PROVE NoObject(readKey(r, name))
    <3>1. \/ readKey(r, name) = Reading(open, <<name>>, "value")
          \/ readKey(r, name) = Complete(CouldNotCreateJson)
      BY <2>1 DEF readKey, open
    <3> QED BY <2>1, <3>1, NoObjectThen
  <2>4. ASSUME NEW kind PROVE NoObject(readBegin(r, kind))
    <3> DEFINE frame == [kind |-> kind, name |-> IF r.expects = "value" THEN r.key ELSE <<>>,
                         content |-> <<>>]
               more == Append(open, frame)
    <3>1. Stack(more) /\ more # <<>> /\ more[1] = open[1]
      <4> HIDE DEF frame
      <4> QED BY <2>1, StackPush
    <3>2. \/ readBegin(r, kind) = Reading(more, <<>>, "item")
          \/ readBegin(r, kind) = Complete(CouldNotCreateJson)
      BY DEF readBegin, open
    <3> HIDE DEF more
    <3> QED BY <2>1, <3>1, <3>2, NoObjectThen
  <2>5. ASSUME NEW kind PROVE NoObject(readEnd(r, kind))
    <3> DEFINE top == Last(open)
               value == <<kind, top.content>>
               less == WithItem(Front(open), top.name, value)
    <3>1. \/ readEnd(r, kind) = Complete(CouldNotCreateJson)
          \/ top.kind = kind /\ Len(open) = 1 /\ readEnd(r, kind) = Complete(value)
          \/ Len(open) # 1 /\ readEnd(r, kind) = Reading(less, <<>>, "comma")
      BY DEF readEnd, open
    <3>2. CASE readEnd(r, kind) = Complete(CouldNotCreateJson)
      BY <3>2, NoObjectThen
    <3>3. CASE top.kind = kind /\ Len(open) = 1 /\ readEnd(r, kind) = Complete(value)
      <4>1. top = open[1]
        BY <2>1, <3>3, StackPop
      <4>2. value # None /\ value[1] = kind
        BY Results
      <4>3. kind # "object"
        BY <2>1, <3>3, <4>1
      <4> HIDE DEF value, top
      <4> QED BY <3>3, <4>2, <4>3, NoObjectThen
    <3>4. CASE Len(open) # 1 /\ readEnd(r, kind) = Reading(less, <<>>, "comma")
      <4>1. Stack(Front(open)) /\ Front(open) # <<>> /\ Front(open)[1] = open[1]
        BY <2>1, <3>4, StackPop
      <4> HIDE DEF value, top
      <4>2. Stack(less) /\ less # <<>> /\ less[1].kind = Front(open)[1].kind
        BY <4>1, WithItemStack
      <4> HIDE DEF less
      <4>3. less[1].kind # "object"
        BY <2>1, <4>1, <4>2
      <4> QED BY <3>4, <4>2, <4>3, NoObjectThen
    <3> QED BY <3>1, <3>2, <3>3, <3>4
  <2>6. ASSUME NEW value PROVE NoObject(readValue(r, value))
    <3>1. \/ readValue(r, value) = Reading(WithItem(open, r.key, value), <<>>, "comma")
          \/ readValue(r, value) = Complete(CouldNotCreateJson)
      BY <2>1 DEF readValue, open
    <3> QED BY <2>2, <3>1, NoObjectThen
  <2>7. NoObject(readComma(r))
    <3>1. \/ readComma(r) = Reading(open, <<>>, "item")
          \/ readComma(r) = Complete(CouldNotCreateJson)
      BY DEF readComma, open
    <3> QED BY <2>1, <3>1, NoObjectThen
  <2>8. \/ readToken(r, token) = readKey(r, token[2])
        \/ readToken(r, token) = readBegin(r, token[2])
        \/ readToken(r, token) = readEnd(r, token[2])
        \/ readToken(r, token) = readValue(r, token[2])
        \/ readToken(r, token) = readComma(r)
        \/ readToken(r, token) = Complete(CouldNotCreateJson)
    BY <1>2, Zenon DEF readToken
  <2> QED BY <2>3, <2>4, <2>5, <2>6, <2>7, <2>8, NoObjectThen
<1> QED BY <1>1, <1>2

\* What the reader makes of the first token.
LEMMA StartTokens ==
    /\ readToken(Start, <<"comma">>) = Complete(CouldNotCreateJson)
    /\ readToken(Start, <<"word">>) = Complete(CouldNotCreateJson)
    /\ \A name : readToken(Start, <<"key", name>>) = Complete(<<"str", name>>)
    /\ \A value : readToken(Start, <<"value", value>>) = Complete(value)
    /\ \A kind : readToken(Start, <<"end", kind>>) = Complete(CouldNotCreateJson)
    /\ \A kind : readToken(Start, <<"begin", kind>>) =
                    Reading(<<[kind |-> kind, name |-> <<>>, content |-> <<>>]>>, <<>>, "item")
<1>1. /\ Start.document = None /\ Start.expects = "document" /\ Start.open = <<>> /\ Start.key = <<>>
  BY DEF Start, Reading
<1>2. readToken(Start, <<"comma">>) = Complete(CouldNotCreateJson)
  <2>1. readToken(Start, <<"comma">>) = readComma(Start)
    BY <1>1, ReadKinds
  <2> QED BY <1>1, <2>1 DEF readComma
<1>8. readToken(Start, <<"word">>) = Complete(CouldNotCreateJson)
  BY <1>1, ReadKinds
<1>3. ASSUME NEW x
      PROVE  /\ readToken(Start, <<"key", x>>) = readKey(Start, x)
             /\ readToken(Start, <<"value", x>>) = readValue(Start, x)
             /\ readToken(Start, <<"begin", x>>) = readBegin(Start, x)
             /\ readToken(Start, <<"end", x>>) = readEnd(Start, x)
  BY <1>1, ReadKinds
<1>4. ASSUME NEW name PROVE readToken(Start, <<"key", name>>) = Complete(<<"str", name>>)
  <2>1. readToken(Start, <<"key", name>>) = readKey(Start, name)
    BY <1>3
  <2> QED BY <1>1, <2>1 DEF readKey
<1>5. ASSUME NEW value PROVE readToken(Start, <<"value", value>>) = Complete(value)
  <2>1. readToken(Start, <<"value", value>>) = readValue(Start, value)
    BY <1>3
  <2> QED BY <1>1, <2>1 DEF readValue
<1>6. ASSUME NEW kind PROVE readToken(Start, <<"end", kind>>) = Complete(CouldNotCreateJson)
  <2>1. readToken(Start, <<"end", kind>>) = readEnd(Start, kind)
    BY <1>3
  <2> QED BY <1>1, <2>1 DEF readEnd
<1>7. ASSUME NEW kind
      PROVE  readToken(Start, <<"begin", kind>>) =
                Reading(<<[kind |-> kind, name |-> <<>>, content |-> <<>>]>>, <<>>, "item")
  <2> DEFINE frame == [kind |-> kind, name |-> <<>>, content |-> <<>>]
             named == [kind |-> kind, name |-> IF Start.expects = "value" THEN Start.key ELSE <<>>,
                       content |-> <<>>]
  <2>1. readToken(Start, <<"begin", kind>>) = readBegin(Start, kind)
    BY <1>3
  <2>2. ExpectsValue(Start)
    BY <1>1 DEF ExpectsValue
  <2>3. named = frame
    BY <1>1
  <2>4. readBegin(Start, kind) = Reading(Append(Start.open, named), <<>>, "item")
    BY <2>2 DEF readBegin
  <2> HIDE DEF frame, named
  <2>5. Append(Start.open, named) = <<frame>>
    BY <1>1, <2>3, AppendTwo
  <2> QED BY <2>1, <2>4, <2>5 DEF frame
<1> QED BY <1>2, <1>4, <1>5, <1>6, <1>7, <1>8

----------------------------------------------------------------------------
\* A builder that is used again: nothing has been written, or the caller has
\* opened an object, or there will be none.
Abandoned(b, all) ==
    IF all = <<>> THEN b.text = <<>> ELSE OpensObject(all[1]) \/ NoObject(readText(b.text))

BuilderCall ==
    {<<side, kind>> : side \in {"begin", "end"}, kind \in {"object", "array"}}
        \cup {<<"beginNamed", kind, name>> : kind \in {"object", "array"}, name \in Name}
        \cup {<<"add", value>> : value \in Value}
        \cup {<<"addNamed", value, name>> : value \in Value, name \in Name}
        \cup {<<"addNamed", <<"array", <<value, value>>>>, name>> : value \in Value, name \in Name}

LEMMA BuilderCalls ==
    /\ \A kind \in {"object", "array"} : <<"begin", kind>> \in BuilderCall /\ <<"end", kind>> \in BuilderCall
    /\ \A kind \in {"object", "array"}, name \in Name : <<"beginNamed", kind, name>> \in BuilderCall
    /\ \A value \in Value : <<"add", value>> \in BuilderCall
    /\ \A value \in Value, name \in Name :
          /\ <<"addNamed", value, name>> \in BuilderCall
          /\ <<"addNamed", <<"array", <<value, value>>>>, name>> \in BuilderCall
BY DEF BuilderCall

\* In front of the first token, or behind a document without an object, there is
\* none behind it either, unless the token begins one.
LEMMA FirstToken ==
    ASSUME NEW b \in BuilderSet, b.text = <<>> \/ NoObject(readText(b.text))
    PROVE  /\ AfterComma(b) = Start \/ NoObject(AfterComma(b))
           /\ NoObject(readToken(AfterComma(b), <<"begin", "array">>))
           /\ \A name \in Name : NoObject(readToken(AfterComma(b), <<"key", name>>))
           /\ \A value \in Value :
                 Meaning(value)[1] # "object" => NoObject(readToken(AfterComma(b), Written(value)))
           /\ \A kind \in {"object", "array"} : NoObject(readToken(readText(b.text), <<"end", kind>>))
<1> DEFINE r == AfterComma(b)
<1>1. readText(<<>>) = Start
  <2>1. <<>> \in Seq(JsonToken)
    OBVIOUS
  <2> QED BY <2>1, ReadAppend, JsonTokens
<1>2. r = Start \/ NoObject(r)
  <2>1. CASE b.text = <<>>
    BY <1>1, <2>1, StartTokens, NoObjectThen DEF AfterComma
  <2>2. CASE NoObject(readText(b.text))
    BY <2>2, StillNoObject, JsonTokens DEF AfterComma
  <2> QED BY <2>1, <2>2
<1> HIDE DEF r
<1>3. ASSUME NEW token \in JsonToken, NoObject(readToken(Start, token)) PROVE NoObject(readToken(r, token))
  BY <1>2, <1>3, StillNoObject
<1>4. NoObject(readToken(r, <<"begin", "array">>))
  <2> DEFINE frame == [kind |-> "array", name |-> <<>>, content |-> <<>>]
             open == <<frame>>
             token == <<"begin", "array">>
  <2>1. Stack(open) /\ open # <<>> /\ open[1] = frame
    <3> HIDE DEF frame
    <3>1. <<frame>> \in Seq({frame})
      BY OneElement
    <3> QED BY <3>1, StackOf
  <2>2. frame.kind # "object"
    OBVIOUS
  <2>3. readToken(Start, token) = Reading(open, <<>>, "item")
    BY StartTokens
  <2>4. token \in JsonToken
    BY JsonTokens
  <2> HIDE DEF open, frame, token
  <2>5. NoObject(Reading(open, <<>>, "item"))
    BY <2>1, <2>2, NoObjectThen
  <2>6. NoObject(readToken(r, token))
    BY <1>3, <2>3, <2>4, <2>5
  <2> QED BY <2>6 DEF token
<1>5. ASSUME NEW name \in Name PROVE NoObject(readToken(r, <<"key", name>>))
  <2> DEFINE token == <<"key", name>>
             string == <<"str", name>>
  <2>1. string # None /\ string[1] # "object"
    BY Results
  <2>2. readToken(Start, token) = Complete(string)
    BY StartTokens
  <2>3. token \in JsonToken
    BY JsonTokens
  <2> HIDE DEF token, string
  <2>4. NoObject(readToken(r, token))
    BY <1>3, <2>1, <2>2, <2>3, NoObjectThen
  <2> QED BY <2>4 DEF token
<1>6. ASSUME NEW value \in Value, Meaning(value)[1] # "object" PROVE NoObject(readToken(r, Written(value)))
  <2> DEFINE token == Written(value)
             d == Meaning(value)
  <2>1. StandsFor(token, d) /\ d # None
    BY WrittenMeans
  <2>2. token \in JsonToken
    BY JsonTokens
  <2> HIDE DEF token, d
  <2>3. readToken(Start, token) = Complete(d)
    <3>1. CASE d = CouldNotCreateJson
      BY <2>1, <3>1, StartTokens DEF StandsFor
    <3>2. CASE d # CouldNotCreateJson
      BY <2>1, <3>2, StartTokens DEF StandsFor
    <3> QED BY <3>1, <3>2
  <2>4. d[1] # "object"
    BY <1>6 DEF d
  <2>5. NoObject(readToken(r, token))
    BY <1>3, <2>1, <2>2, <2>3, <2>4, NoObjectThen
  <2> QED BY <2>5 DEF token
<1>7. ASSUME NEW kind \in {"object", "array"} PROVE NoObject(readToken(readText(b.text), <<"end", kind>>))
  <2> DEFINE token == <<"end", kind>>
  <2>1. readToken(Start, token) = Complete(CouldNotCreateJson)
    BY StartTokens
  <2>2. token \in JsonToken
    BY JsonTokens
  <2> HIDE DEF token
  <2>3. NoObject(readToken(readText(b.text), token))
    <3>1. CASE b.text = <<>>
      BY <1>1, <2>1, <3>1, NoObjectThen
    <3>2. CASE NoObject(readText(b.text))
      BY <2>2, <3>2, StillNoObject
    <3> QED BY <3>1, <3>2
  <2> QED BY <2>3 DEF token
<1> QED BY <1>2, <1>4, <1>5, <1>6, <1>7 DEF r

\* One lemma for each kind of call.
LEMMA AbandonedThen ==
    ASSUME NEW b \in BuilderSet, NEW all \in Seq(BuilderCall), Abandoned(b, all), NEW call \in BuilderCall,
           NEW o, NEW r, NEW comma, Writes(o, r, comma),
           ~ OpensObject(call) /\ (b.text = <<>> \/ NoObject(readText(b.text))) => NoObject(r),
           NoObject(readText(b.text)) => NoObject(r)
    PROVE  Abandoned(o, Append(all, call))
<1> DEFINE more == Append(all, call)
<1>1. more # <<>> /\ (all = <<>> => more[1] = call) /\ (all # <<>> => more[1] = all[1])
  BY StackOf, StackPush
<1> HIDE DEF more
<1>2. readText(o.text) = r
  BY DEF Writes
<1>3. CASE all = <<>>
  BY <1>1, <1>2, <1>3 DEF Abandoned, more
<1>4. CASE all # <<>>
  BY <1>1, <1>2, <1>4 DEF Abandoned, more
<1> QED BY <1>3, <1>4

LEMMA BehindNoObject ==
    ASSUME NEW b \in BuilderSet, NoObject(readText(b.text))
    PROVE  NoObject(AfterComma(b))
BY StillNoObject, JsonTokens DEF AfterComma

\* A call keeps what the caller has said and what has been written together.
Keeps(b, call, o) ==
    /\ o \in BuilderSet /\ call \in BuilderCall
    /\ \A m : Follows(b, m) => Follows(o, Understand(m, call))
    /\ \A all \in Seq(BuilderCall) : Abandoned(b, all) => Abandoned(o, Append(all, call))

LEMMA KeepsBegin ==
    ASSUME NEW b \in BuilderSet
    PROVE  /\ Keeps(b, <<"begin", "object">>, beginObject(b))
           /\ Keeps(b, <<"begin", "array">>, beginArray(b))
<1>1. ASSUME NEW kind \in {"object", "array"}, NEW o,
             Writes(o, readToken(AfterComma(b), <<"begin", kind>>), FALSE)
      PROVE  Keeps(b, <<"begin", kind>>, o)
  <2> DEFINE call == <<"begin", kind>>
             r == readToken(AfterComma(b), <<"begin", kind>>)
  <2>1. o \in BuilderSet /\ call \in BuilderCall
    BY <1>1, BuilderCalls DEF Writes
  <2>2. ASSUME NEW m, Follows(b, m) PROVE Follows(o, Understand(m, call))
    BY <1>1, <2>2, FollowsBegin
  <2>3. ~ OpensObject(call) /\ (b.text = <<>> \/ NoObject(readText(b.text))) => NoObject(r)
    <3>1. kind = "object" => OpensObject(call)
      BY DEF OpensObject
    <3>2. b.text = <<>> \/ NoObject(readText(b.text)) => NoObject(readToken(AfterComma(b), <<"begin", "array">>))
      BY FirstToken
    <3> QED BY <3>1, <3>2
  <2>4. NoObject(readText(b.text)) => NoObject(r)
    <3>1. <<"begin", kind>> \in JsonToken
      BY JsonTokens
    <3> QED BY <3>1, BehindNoObject, StillNoObject
  <2>5. Writes(o, r, FALSE)
    BY <1>1
  <2> HIDE DEF r, call
  <2>6. ASSUME NEW all \in Seq(BuilderCall), Abandoned(b, all) PROVE Abandoned(o, Append(all, call))
    BY <2>1, <2>3, <2>4, <2>5, <2>6, AbandonedThen
  <2>7. Keeps(b, call, o)
    BY <2>1, <2>2, <2>6 DEF Keeps
  <2> QED BY <2>7 DEF call
<1> QED BY <1>1, BracketsWrite

LEMMA KeepsEnd ==
    ASSUME NEW b \in BuilderSet
    PROVE  /\ Keeps(b, <<"end", "object">>, endObject(b))
           /\ Keeps(b, <<"end", "array">>, endArray(b))
<1>1. ASSUME NEW kind \in {"object", "array"}, NEW o,
             Writes(o, readToken(readText(b.text), <<"end", kind>>), TRUE)
      PROVE  Keeps(b, <<"end", kind>>, o)
  <2> DEFINE call == <<"end", kind>>
             r == readToken(readText(b.text), <<"end", kind>>)
  <2>1. o \in BuilderSet /\ call \in BuilderCall
    BY <1>1, BuilderCalls DEF Writes
  <2>2. ASSUME NEW m, Follows(b, m) PROVE Follows(o, Understand(m, call))
    BY <1>1, <2>2, FollowsClose
  <2>3. b.text = <<>> \/ NoObject(readText(b.text)) => NoObject(r)
    BY FirstToken
  <2>4. Writes(o, r, TRUE)
    BY <1>1
  <2> HIDE DEF r, call
  <2>5. ASSUME NEW all \in Seq(BuilderCall), Abandoned(b, all) PROVE Abandoned(o, Append(all, call))
    BY <2>1, <2>3, <2>4, <2>5, AbandonedThen
  <2>6. Keeps(b, call, o)
    BY <2>1, <2>2, <2>5 DEF Keeps
  <2> QED BY <2>6 DEF call
<1> QED BY <1>1, BracketsWrite

LEMMA KeepsBeginNamed ==
    ASSUME NEW b \in BuilderSet, NEW name \in Name
    PROVE  /\ Keeps(b, <<"beginNamed", "object", name>>, beginObjectNamed(b, name))
           /\ Keeps(b, <<"beginNamed", "array", name>>, beginArrayNamed(b, name))
<1>1. ASSUME NEW kind \in {"object", "array"}, NEW o,
             Writes(o, readToken(readToken(AfterComma(b), <<"key", name>>), <<"begin", kind>>), FALSE)
      PROVE  Keeps(b, <<"beginNamed", kind, name>>, o)
  <2> DEFINE call == <<"beginNamed", kind, name>>
             token == <<"begin", kind>>
             first == readToken(AfterComma(b), <<"key", name>>)
             r == readToken(first, token)
  <2>1. o \in BuilderSet /\ call \in BuilderCall /\ token \in JsonToken
    BY <1>1, BuilderCalls, JsonTokens DEF Writes
  <2>2. ASSUME NEW m, Follows(b, m) PROVE Follows(o, Understand(m, call))
    BY <1>1, <2>2, FollowsBeginNamed
  <2>3. b.text = <<>> \/ NoObject(readText(b.text)) => NoObject(first)
    BY FirstToken
  <2>4. Writes(o, r, FALSE)
    BY <1>1
  <2> HIDE DEF first, token, call
  <2>5. b.text = <<>> \/ NoObject(readText(b.text)) => NoObject(r)
    BY <2>1, <2>3, StillNoObject
  <2> HIDE DEF r
  <2>6. ASSUME NEW all \in Seq(BuilderCall), Abandoned(b, all) PROVE Abandoned(o, Append(all, call))
    BY <2>1, <2>4, <2>5, <2>6, AbandonedThen
  <2>7. Keeps(b, call, o)
    BY <2>1, <2>2, <2>6 DEF Keeps
  <2> QED BY <2>7 DEF call
<1> QED BY <1>1, NamedWrites

LEMMA KeepsAdd ==
    ASSUME NEW b \in BuilderSet, NEW value \in Value
    PROVE  Keeps(b, <<"add", value>>, addField(b, value))
<1> DEFINE call == <<"add", value>>
           token == Written(value)
           r == readToken(AfterComma(b), token)
           o == addField(b, value)
<1>1. Writes(o, r, TRUE)
  BY AddWrites
<1>2. o \in BuilderSet /\ call \in BuilderCall /\ token \in JsonToken
  BY <1>1, BuilderCalls, JsonTokens DEF Writes
<1> HIDE DEF o
<1>3. ASSUME NEW m, Follows(b, m) PROVE Follows(o, Understand(m, call))
  BY <1>1, <1>3, FollowsAdd
<1>4. ~ OpensObject(call) /\ (b.text = <<>> \/ NoObject(readText(b.text))) => NoObject(r)
  <2>1. call[1] = "add" /\ call[2] = value
    OBVIOUS
  <2>2. Meaning(value)[1] = "object" => OpensObject(call)
    <3> HIDE DEF call
    <3> QED BY <2>1 DEF OpensObject
  <2> QED BY <2>2, FirstToken
<1> HIDE DEF call, token
<1>5. NoObject(readText(b.text)) => NoObject(r)
  BY <1>2, BehindNoObject, StillNoObject
<1> HIDE DEF r
<1>6. ASSUME NEW all \in Seq(BuilderCall), Abandoned(b, all) PROVE Abandoned(o, Append(all, call))
  BY <1>1, <1>2, <1>4, <1>5, <1>6, AbandonedThen
<1>7. Keeps(b, call, o)
  BY <1>2, <1>3, <1>6 DEF Keeps
<1> QED BY <1>7 DEF call, o

LEMMA KeepsAddNamed ==
    ASSUME NEW b \in BuilderSet, NEW value \in Value, NEW name \in Name
    PROVE  Keeps(b, <<"addNamed", value, name>>, addFieldNamed(b, name, value))
<1> DEFINE call == <<"addNamed", value, name>>
           token == Written(value)
           first == readToken(AfterComma(b), <<"key", name>>)
           r == readToken(first, token)
           o == addFieldNamed(b, name, value)
<1>1. Writes(o, r, TRUE)
  BY AddWrites
<1>2. o \in BuilderSet /\ call \in BuilderCall /\ token \in JsonToken
  BY <1>1, BuilderCalls, JsonTokens DEF Writes
<1> HIDE DEF o
<1>3. ASSUME NEW m, Follows(b, m) PROVE Follows(o, Understand(m, call))
  BY <1>1, <1>3, FollowsAddNamed
<1>4. b.text = <<>> \/ NoObject(readText(b.text)) => NoObject(first)
  BY FirstToken
<1> HIDE DEF call, token, first
<1>5. b.text = <<>> \/ NoObject(readText(b.text)) => NoObject(r)
  BY <1>2, <1>4, StillNoObject
<1> HIDE DEF r
<1>6. ASSUME NEW all \in Seq(BuilderCall), Abandoned(b, all) PROVE Abandoned(o, Append(all, call))
  BY <1>1, <1>2, <1>5, <1>6, AbandonedThen
<1>7. Keeps(b, call, o)
  BY <1>2, <1>3, <1>6 DEF Keeps
<1> QED BY <1>7 DEF call, o

LEMMA KeepsAddArray ==
    ASSUME NEW b \in BuilderSet, NEW value \in Value, NEW name \in Name
    PROVE  Keeps(b, <<"addNamed", <<"array", <<value, value>>>>, name>>,
                 addFieldArray(b, name, <<value, value>>))
<1> DEFINE call == <<"addNamed", <<"array", <<value, value>>>>, name>>
           opening == <<"begin", "array">>
           closing == <<"end", "array">>
           comma == <<"comma">>
           token == Written(value)
           first == readToken(AfterComma(b), <<"key", name>>)
           r == readToken(readToken(readToken(readToken(readToken(first, opening), token), comma), token), closing)
           o == addFieldArray(b, name, <<value, value>>)
<1>1. Writes(o, r, TRUE)
  BY ArrayWrites
<1>2. /\ o \in BuilderSet /\ call \in BuilderCall
      /\ token \in JsonToken /\ opening \in JsonToken /\ closing \in JsonToken /\ comma \in JsonToken
  BY <1>1, BuilderCalls, JsonTokens DEF Writes
<1>3. ASSUME NEW m, Follows(b, m) PROVE Follows(o, Understand(m, call))
  BY <1>3, FollowsAddArray
<1>4. b.text = <<>> \/ NoObject(readText(b.text)) => NoObject(first)
  BY FirstToken
<1> HIDE DEF call, token, first, opening, closing, comma, o
<1>5. \A s : NoObject(s) => /\ NoObject(readToken(s, opening)) /\ NoObject(readToken(s, token))
                            /\ NoObject(readToken(s, comma)) /\ NoObject(readToken(s, closing))
  BY <1>2, StillNoObject
<1>6. b.text = <<>> \/ NoObject(readText(b.text)) => NoObject(r)
  BY <1>4, <1>5
<1> HIDE DEF r
<1>7. ASSUME NEW all \in Seq(BuilderCall), Abandoned(b, all) PROVE Abandoned(o, Append(all, call))
  BY <1>1, <1>2, <1>6, <1>7, AbandonedThen
<1>8. Keeps(b, call, o)
  BY <1>2, <1>3, <1>7 DEF Keeps
<1> QED BY <1>8 DEF call, o

----------------------------------------------------------------------------
\* What is written is what the calls since then say, and once there is a document
\* nothing of it is left.
BuilderInv ==
    /\ builder \in BuilderSet /\ calls \in Seq(BuilderCall) /\ used \in BOOLEAN
    /\ document = None /\ ~ used => Follows(builder, Described(calls))
    /\ document = None /\ used => Abandoned(builder, calls)
    /\ document # None => builder.text = <<>>
    /\ BuilderFaithful

LEMMA BuilderBegins == BuilderInit => BuilderInv
<1> SUFFICES ASSUME BuilderInit PROVE BuilderInv
  OBVIOUS
<1> DEFINE b == [text |-> <<>>, comma |-> FALSE]
           open == <<Root>>
<1>1. builder = beginObject(b) /\ calls = <<>> /\ document = None /\ used = FALSE
  BY DEF BuilderInit, NewBuilder
<1>2. b \in BuilderSet /\ b.comma = FALSE /\ b.text = <<>>
  BY DEF BuilderSet
<1> HIDE DEF b
<1>3. readText(<<>>) = Start
  <2>1. <<>> \in Seq(JsonToken)
    OBVIOUS
  <2> QED BY <2>1, ReadAppend, JsonTokens
<1>4. Writes(builder, Reading(open, <<>>, "item"), FALSE)
  <2>1. AfterComma(b) = Start
    BY <1>2, <1>3 DEF AfterComma
  <2>2. readToken(Start, <<"begin", "object">>) = Reading(open, <<>>, "item")
    BY StartTokens DEF Root
  <2>3. Writes(beginObject(b), readToken(AfterComma(b), <<"begin", "object">>), FALSE)
    BY <1>2, BracketsWrite
  <2> QED BY <1>1, <2>1, <2>2, <2>3
<1>5. Stack(open) /\ open # <<>>
  <2> DEFINE root == Root
  <2> HIDE DEF root
  <2>1. <<root>> \in Seq({root})
    BY OneElement
  <2>2. Stack(<<root>>) /\ <<root>> # <<>>
    BY <2>1, StackOf
  <2> QED BY <2>2 DEF root
<1> HIDE DEF open
<1>6. Follows(builder, InProgress(open))
  BY <1>4, <1>5, FollowsThen
<1>7. calls \in Seq(BuilderCall)
  BY <1>1
<1>8. Described(<<>>) = InProgress(open)
  <2> DEFINE call == <<"begin", "object">>
  <2>1. <<>> \in Seq(BuilderCall) /\ call \in BuilderCall
    BY BuilderCalls
  <2> HIDE DEF call
  <2> QED BY <2>1, DescribedAppend DEF open
<1>9. builder \in BuilderSet
  BY <1>4 DEF Writes
<1> QED BY <1>1, <1>6, <1>7, <1>8, <1>9 DEF BuilderInv, BuilderFaithful

LEMMA BuilderInvokes ==
    ASSUME BuilderInv, NEW call, NEW o, Invoke(call, o), Keeps(builder, call, o)
    PROVE  BuilderInv'
<1>1. /\ document = None /\ document' = None /\ used' = used
      /\ calls' = Append(calls, call) /\ builder' = o
  BY DEF Invoke
<1>2. builder \in BuilderSet /\ calls \in Seq(BuilderCall) /\ call \in BuilderCall /\ used \in BOOLEAN
  BY DEF BuilderInv, Keeps
<1>3. builder' \in BuilderSet /\ calls' \in Seq(BuilderCall) /\ used' \in BOOLEAN
  BY <1>1, <1>2, AppendProperties DEF Keeps
<1>4. ASSUME ~ used PROVE Follows(o, Described(Append(calls, call)))
  <2>1. Follows(builder, Described(calls))
    BY <1>1, <1>4 DEF BuilderInv
  <2>2. Follows(o, Understand(Described(calls), call))
    BY <2>1 DEF Keeps
  <2> QED BY <1>2, <2>2, DescribedAppend
<1>5. ASSUME used PROVE Abandoned(o, Append(calls, call))
  <2>1. Abandoned(builder, calls)
    BY <1>1, <1>5 DEF BuilderInv
  <2> QED BY <1>2, <2>1 DEF Keeps
<1>6. ~ used => Follows(builder, Described(calls))'
  BY <1>1, <1>4
<1>7. used => Abandoned(builder, calls)'
  BY <1>1, <1>5
<1>8. BuilderFaithful'
  BY <1>1 DEF BuilderFaithful
<1> QED BY <1>1, <1>3, <1>6, <1>7, <1>8 DEF BuilderInv

LEMMA BuilderReads == BuilderInv /\ AsJsonObject => BuilderInv'
<1> SUFFICES ASSUME BuilderInv, AsJsonObject PROVE BuilderInv'
  OBVIOUS
<1> DEFINE closing == <<"end", "object">>
           b == endObject(builder)
           result == readText(b.text).document
           failed == result \in {None, CouldNotCreateJson}
           doc == IF failed THEN CouldNotCreateJson ELSE result
           text == <<>>
<1>1. /\ document = None /\ document' = doc /\ calls' = calls /\ used' = used
      /\ builder' = [text |-> text, comma |-> failed]
  BY DEF AsJsonObject, asJsonObject
<1>2. builder \in BuilderSet /\ calls \in Seq(BuilderCall) /\ used \in BOOLEAN
  BY DEF BuilderInv
<1>3. Keeps(builder, closing, b)
  BY <1>2, KeepsEnd
<1>4. doc # None
  BY Results
<1>5. text \in Seq(JsonToken)
  OBVIOUS
<1>6. builder' \in BuilderSet /\ builder'.text = <<>>
  BY <1>1, <1>5 DEF BuilderSet
<1>7. ASSUME ~ used
      PROVE  LET meant == Described(Append(calls, closing)).document
             IN doc = IF meant = None THEN CouldNotCreateJson ELSE meant
  <2> DEFINE m == Described(Append(calls, closing))
  <2>1. Follows(builder, Described(calls))
    BY <1>1, <1>7 DEF BuilderInv
  <2>2. closing \in BuilderCall
    BY BuilderCalls
  <2> HIDE DEF closing, b
  <2>3. Follows(b, Understand(Described(calls), closing))
    BY <1>3, <2>1 DEF Keeps
  <2>4. m = Understand(Described(calls), closing)
    BY <1>2, <2>2, DescribedAppend
  <2> HIDE DEF m
  <2>5. Follows(b, m)
    BY <2>3, <2>4
  <2>6. CASE m.document = None
    <3>1. readText(b.text) = Within(m.open, b.comma)
      BY <2>5, <2>6, FollowsOpen
    <3>2. \A open, comma : Within(open, comma).document = None
      BY DEF Within, Reading
    <3>3. result = None
      BY <3>1, <3>2
    <3> QED BY <2>6, <3>3 DEF m
  <2>7. CASE m.document # None
    <3>1. result = m.document
      BY <2>5, <2>7, FollowsDone
    <3> QED BY <2>7, <3>1 DEF m
  <2> QED BY <2>6, <2>7
<1>8. ASSUME used PROVE doc[1] = "object" => calls # <<>> /\ OpensObject(calls[1])
  <2>1. Abandoned(builder, calls)
    BY <1>1, <1>8 DEF BuilderInv
  <2>2. CASE calls # <<>> /\ OpensObject(calls[1])
    BY <2>2
  <2>3. CASE ~ (calls # <<>> /\ OpensObject(calls[1]))
    <3>1. builder.text = <<>> \/ NoObject(readText(builder.text))
      BY <2>1, <2>3 DEF Abandoned
    <3>2. NoObject(readToken(readText(builder.text), closing))
      BY <1>2, <3>1, FirstToken
    <3>3. readText(b.text) = readToken(readText(builder.text), closing)
      <4>1. Writes(endObject(builder), readToken(readText(builder.text), <<"end", "object">>), TRUE)
        BY <1>2, BracketsWrite
      <4> QED BY <4>1 DEF Writes
    <3>4. result = None \/ result[1] # "object"
      BY <3>2, <3>3 DEF NoObject
    <3>5. CouldNotCreateJson[1] # "object"
      BY DEF CouldNotCreateJson
    <3> HIDE DEF result
    <3> QED BY <3>4, <3>5
  <2> QED BY <2>2, <2>3
<1> HIDE DEF doc
<1>9. BuilderFaithful'
  <2>1. ~ used => BuilderFaithful'
    BY <1>1, <1>7 DEF BuilderFaithful
  <2>2. used => BuilderFaithful'
    BY <1>1, <1>8 DEF BuilderFaithful
  <2> QED BY <1>2, <2>1, <2>2
<1> HIDE DEF failed
<1> QED BY <1>1, <1>2, <1>4, <1>6, <1>9 DEF BuilderInv

LEMMA BuilderGoesOn ==
    ASSUME BuilderInv, [BuilderNext]_builderVars
    PROVE  BuilderInv'
<1>0. builder \in BuilderSet
  BY DEF BuilderInv
<1>1. CASE BeginObject
  BY <1>0, <1>1, KeepsBegin, BuilderInvokes DEF BeginObject
<1>2. CASE BeginArray
  BY <1>0, <1>2, KeepsBegin, BuilderInvokes DEF BeginArray
<1>3. CASE EndObject
  BY <1>0, <1>3, KeepsEnd, BuilderInvokes DEF EndObject
<1>4. CASE EndArray
  BY <1>0, <1>4, KeepsEnd, BuilderInvokes DEF EndArray
<1>5. ASSUME NEW name \in Name, BeginObjectNamed(name) PROVE BuilderInv'
  BY <1>0, <1>5, KeepsBeginNamed, BuilderInvokes DEF BeginObjectNamed
<1>6. ASSUME NEW name \in Name, BeginArrayNamed(name) PROVE BuilderInv'
  BY <1>0, <1>6, KeepsBeginNamed, BuilderInvokes DEF BeginArrayNamed
<1>7. ASSUME NEW value \in Value, AddField(value) PROVE BuilderInv'
  BY <1>0, <1>7, KeepsAdd, BuilderInvokes DEF AddField
<1>8. ASSUME NEW name \in Name, NEW value \in Value, AddFieldNamed(name, value) PROVE BuilderInv'
  BY <1>0, <1>8, KeepsAddNamed, BuilderInvokes DEF AddFieldNamed
<1>9. ASSUME NEW name \in Name, NEW value \in Value, AddFieldArray(name, <<value, value>>) PROVE BuilderInv'
  BY <1>0, <1>9, KeepsAddArray, BuilderInvokes DEF AddFieldArray
<1>10. CASE AsJsonObject
  BY <1>10, BuilderReads
<1>11. CASE Reuse
  <2>1. /\ document # None /\ document' = None /\ used' = TRUE /\ calls' = <<>> /\ builder' = builder
    BY <1>11 DEF Reuse
  <2>2. builder.text = <<>>
    BY <2>1 DEF BuilderInv
  <2>3. <<>> \in Seq(BuilderCall)
    OBVIOUS
  <2> QED BY <1>0, <2>1, <2>2, <2>3 DEF BuilderInv, Abandoned, BuilderFaithful
<1>12. CASE UNCHANGED builderVars
  BY <1>12 DEF builderVars, BuilderInv, BuilderFaithful, Abandoned
<1> QED BY <1>1, <1>2, <1>3, <1>4, <1>5, <1>6, <1>7, <1>8, <1>9, <1>10, <1>11, <1>12 DEF BuilderNext

\* BuilderFaithful, for every number and order of calls, with arguments of every
\* overload of addField(): what a new builder yields is the document that the
\* calls describe (a bool is 1 or 0, a literal what its text is), or the error if
\* they describe none, and a used one yields no object that its user did not open
\* (JsonBuilder::asJsonObject(), src/src/kc/json/Json.cpp).
THEOREM BuilderFaithfulCorrect == BuilderSpec => []BuilderFaithful
<1>1. BuilderInv /\ [BuilderNext]_builderVars => BuilderInv'
  BY BuilderGoesOn
<1>2. BuilderInv => BuilderFaithful
  BY DEF BuilderInv
<1> QED BY <1>1, <1>2, BuilderBegins, PTL DEF BuilderSpec
=============================================================================
