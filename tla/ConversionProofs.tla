-------------------------- MODULE ConversionProofs --------------------------
(***************************************************************************)
(* What reaches the contract is a value of the declared type, integers are *)
(* exact, and an answer reads back: for every contract, every JSON and     *)
(* every depth.                                                            *)
(***************************************************************************)
EXTENDS Conversion, HalvesProofs, FiniteSetTheorems

-----------------------------------------------------------------------------
(* The recursions of the model, one depth at a time                        *)

ScValLevels == INSTANCE LevelsProofs WITH
  Bottom <- ScLeaves, Above <- ScValsAbove
JsonLevels == INSTANCE LevelsProofs WITH
  Bottom <- [kind \in JsonKinds |-> JsonLeaves], Above <- JsonAbove
ReadingLevels == INSTANCE LevelsProofs WITH
  Bottom <- [p \in Json \X SpecTypes |-> {}], Above <- ReadAbove
WritingLevels == INSTANCE LevelsProofs WITH
  Bottom <- [v \in ScVal |-> Null], Above <- WriteAbove
ValuesLevels == INSTANCE LevelsProofs WITH
  Bottom <- [p \in {"plain", "distinct"} \X SpecTypes |-> {}], Above <- ValuesAbove
ReadableLevels == INSTANCE LevelsProofs WITH
  Bottom <- SpecTypes, Above <- SameBothWays

\* ScVals of one more level are made of those of the level below.
LEMMA ScValEquation ==
  /\ ScValOf!Level[0] = ScLeaves
  /\ \A n \in Nat : ScValOf!Level[n + 1] = ScValsAbove(ScValOf!Level[n])
BY ScValLevels!LevelEquation DEF ScValOf!Level, ScValLevels!Level

\* JSON of one more level is made of that of the level below, kind by kind.
LEMMA JsonEquation ==
  /\ JsonOf!Level[0] = [kind \in JsonKinds |-> JsonLeaves]
  /\ \A n \in Nat : JsonOf!Level[n + 1] = JsonAbove(JsonOf!Level[n])
BY JsonLevels!LevelEquation DEF JsonOf!Level, JsonLevels!Level

\* One more level of json_to_scval is one call over the level below.
LEMMA ReadingEquation ==
  /\ Reading!Level[0] = [p \in Json \X SpecTypes |-> {}]
  /\ \A n \in Nat : Reading!Level[n + 1] = ReadAbove(Reading!Level[n])
BY ReadingLevels!LevelEquation DEF Reading!Level, ReadingLevels!Level

\* One more level of scval_to_json is one call over the level below.
LEMMA WritingEquation ==
  /\ Writing!Level[0] = [v \in ScVal |-> Null]
  /\ \A n \in Nat : Writing!Level[n + 1] = WriteAbove(Writing!Level[n])
BY WritingLevels!LevelEquation DEF Writing!Level, WritingLevels!Level

\* The values of the types, one more level deep.
LEMMA ValuesEquation ==
  /\ ValuesOf!Level[0] = [p \in {"plain", "distinct"} \X SpecTypes |-> {}]
  /\ \A n \in Nat : ValuesOf!Level[n + 1] = ValuesAbove(ValuesOf!Level[n])
BY ValuesLevels!LevelEquation DEF ValuesOf!Level, ValuesLevels!Level

\* The types that are written as they are read, one more level deep.
LEMMA ReadableEquation ==
  /\ ReadableOf!Level[0] = SpecTypes
  /\ \A n \in Nat : ReadableOf!Level[n + 1] = SameBothWays(ReadableOf!Level[n])
BY ReadableLevels!LevelEquation DEF ReadableOf!Level, ReadableLevels!Level

\* The bound is the depth above some other.
LEMMA DepthIsAbove == \E m \in Nat : Depth = m + 1
<1>1. Depth - 1 \in Nat /\ Depth = (Depth - 1) + 1
  BY BoundsAssumption
<1> QED
  BY <1>1

\* Every depth is 0 or the one above another.
LEMMA DepthInduction ==
  ASSUME NEW T, 0 \in T, \A n \in Nat : n \in T => n + 1 \in T
  PROVE  Nat \subseteq T
BY ScValLevels!SetInduction

-----------------------------------------------------------------------------
(* JSON: kinds, and the leaves of every depth                              *)

LEMMA LeavesAreJson ==
  \A n \in Nat, kind \in JsonKinds : JsonLeaves \subseteq JsonOf!Level[n][kind]
<1>1. \A kind \in JsonKinds : JsonLeaves \subseteq JsonOf!Level[0][kind]
  BY JsonEquation
<1>2. \A n \in Nat, kind \in JsonKinds : JsonLeaves \subseteq JsonOf!Level[n + 1][kind]
  BY JsonEquation DEF JsonAbove
<1>3. \A n \in Nat : n = 0 \/ \E m \in Nat : n = m + 1
  <2> SUFFICES ASSUME NEW n \in Nat, n # 0 PROVE n - 1 \in Nat /\ n = (n - 1) + 1
    OBVIOUS
  <2> QED OBVIOUS
<1> QED
  BY <1>1, <1>2, <1>3

\* The argument that the body left out is JSON.
LEMMA NullIsJson == Null \in Json
<1>1. Null \in JsonLeaves
  BY DEF Null, JsonLeaves
<1>2. "any" \in JsonKinds /\ Depth \in Nat
  BY BoundsAssumption DEF JsonKinds
<1> QED
  BY <1>1, <1>2, LeavesAreJson DEF Json

\* json_to_scval, one call: what it does with what its own calls return.
LEMMA FromJsonIsTyped ==
  ASSUME NEW j \in Json, NEW t \in SpecTypes
  PROVE  \E m \in Nat :
           FromJson(j, t) = IF IsEscape(j) THEN Decoded(j[2])
                            ELSE Typed(Reading!Level[m], j, t)
<1>1. PICK m \in Nat : Depth = m + 1
  BY DepthIsAbove
<1>2. FromJson(j, t) = ReadAbove(Reading!Level[m])[<<j, t>>]
  BY <1>1, ReadingEquation DEF FromJson
<1>3. <<j, t>> \in Json \X SpecTypes
  OBVIOUS
<1>4. ReadAbove(Reading!Level[m])[<<j, t>>]
        = IF IsEscape(j) THEN Decoded(j[2]) ELSE Typed(Reading!Level[m], j, t)
  BY <1>3 DEF ReadAbove
<1> QED
  BY <1>2, <1>4

-----------------------------------------------------------------------------
(* The exchange                                                            *)

\* What arg and reply are: a call's argument is what its JSON converts to, a
\* reply what the contract returned is written as, and what is sent after a
\* reply is that reply.
Linked ==
  /\ type \in SpecTypes
  /\ \/ sent = {} /\ arg = {}
     \/ \E j \in Json : sent = {j} /\ arg = FromJson(j, type)
  /\ \/ returned = {} /\ reply = {}
     \/ \E v \in Values("distinct", type) : returned = {v} /\ reply = {ToJson(v)}
  /\ sent # {} /\ returned # {} => sent = reply

\* Linked holds in every state: no two steps of the exchange mix two calls.
THEOREM LinkedHolds == Spec => []Linked
<1>1. Init => Linked
  BY DEF Init, Linked
<1>2. Linked /\ [Next]_vars => Linked'
  <2> SUFFICES ASSUME Linked, [Next]_vars PROVE Linked'
    OBVIOUS
  <2>1. CASE Call
    <3>1. PICK body \in {{}} \cup {{j} : j \in Inputs} : Converted(ArgumentOf(body))
      BY <2>1 DEF Call
    <3>2. ArgumentOf(body) \in Json
      BY NullIsJson, InputAssumption DEF ArgumentOf
    <3>3. sent' = {ArgumentOf(body)} /\ arg' = FromJson(ArgumentOf(body), type)
      BY <3>1 DEF Converted
    <3>4. returned = {} /\ UNCHANGED <<type, returned, reply>>
      BY <2>1 DEF Call, Idle
    <3> QED
      BY <3>2, <3>3, <3>4 DEF Linked
  <2>2. CASE Return
    BY <2>2 DEF Return, Idle, Linked
  <2>3. CASE CallAgain
    <3>1. PICK j \in reply \cap Json : sent' = {j} /\ arg' = FromJson(j, type)
      BY <2>3 DEF CallAgain, Converted
    <3>2. reply = {j}
      BY <3>1 DEF Linked
    <3> QED
      BY <2>3, <3>1, <3>2 DEF CallAgain, Linked
  <2>4. CASE Leave
    BY <2>4 DEF Leave, Linked
  <2>5. CASE UNCHANGED vars
    BY <2>5 DEF vars, Linked
  <2> QED
    BY <2>1, <2>2, <2>3, <2>4, <2>5 DEF Next
<1> QED
  BY <1>1, <1>2, PTL DEF Spec

-----------------------------------------------------------------------------
(* Integers                                                                *)

LEMMA Ranges ==
  /\ U32 \subseteq U64 /\ I32 \subseteq I64
  /\ U64 \subseteq U128 /\ I64 \subseteq I128
  /\ U128 \subseteq Int /\ I128 \subseteq Int
<1>1. (Word - 1) * Word >= 0 /\ (Word - 1) * Word = Word * Word - Word
  BY WidthAssumption
<1>2. Word <= Word * Word /\ Word * Word \in Nat
  BY <1>1, WidthAssumption
<1>3. U32 \subseteq U64 /\ I32 \subseteq I64
  BY WidthAssumption DEF U32, U64, I32, I64, Unsigned, Signed
<1> DEFINE WW == Word * Word
<1>4. WW \in Nat /\ Word <= WW
  BY <1>2
<1>5. U64 \subseteq 0..WW - 1 /\ I64 \subseteq -(WW \div 2)..(WW \div 2) - 1
  <2> HIDE DEF WW
  <2> QED
    BY <1>4, WidthAssumption DEF U64, I64, Unsigned, Signed
<1>6. U128 = 0..WW - 1 /\ I128 = -(WW \div 2)..(WW \div 2) - 1
  BY DEF U128, I128, Unsigned, Signed
<1>7. U128 \subseteq Int /\ I128 \subseteq Int
  <2> HIDE DEF WW
  <2> QED
    BY <1>4, <1>6
<1> QED
  BY <1>3, <1>5, <1>6, <1>7

\* A numeral is read as its integer, or refused by the range.
LEMMA NumeralIsRead ==
  ASSUME NEW p \in Numerals, NEW range
  PROVE  Parsed(p[1], range) = {p[2]} \cap range
BY NumeralAssumption DEF Parsed

\* The halves of an integer, put together by their meaning, are the integer.
LEMMA PartsAreExact ==
  ASSUME NEW n \in Int, NEW tag \in {"U128", "I128"}
  PROVE  IntegerOf(<<tag, ToParts(n)>>) = n
<1>1. IntegerOf(<<tag, ToParts(n)>>) = ToParts(n).hi * Word + ToParts(n).lo
  BY DEF IntegerOf
<1> QED
  BY <1>1, HalvesRecombine DEF FromParts

\* A number that is taken is taken as it is.
LEMMA NumberIsExact ==
  ASSUME NEW tag \in IntegerTags, NEW j, j[1] = "num",
         NEW v \in Tagged(tag, IntegerFromJson(j, tag))
  PROVE  IntegerOf(v) = j[2]
<1>1. PICK n \in IntegerFromJson(j, tag) : v = <<tag, n>>
  BY DEF Tagged
<1>2. CASE tag \in {"U128", "I128"}
  <2>1. AsU128(j) \subseteq {j[2]} \cap U64 /\ AsI128(j) \subseteq {j[2]} \cap I64
    BY DEF AsU128, AsI128, Integer
  <2>2. PICK i \in {j[2]} \cap (U64 \cup I64) : n = ToParts(i)
    BY <1>1, <1>2, <2>1 DEF IntegerFromJson
  <2>3. i \in Int
    BY Ranges
  <2> QED
    BY <1>1, <1>2, <2>2, <2>3, PartsAreExact
<1>3. CASE tag \notin {"U128", "I128"}
  <2>1. n = j[2]
    BY <1>1, <1>3 DEF IntegerFromJson, IntegerTags, AsU64, AsI64, Integer
  <2> QED
    BY <1>1, <1>3, <2>1 DEF IntegerOf
<1> QED
  BY <1>2, <1>3

\* A numeral is taken exactly when the type has its integer, as that integer.
LEMMA NumeralIsExact ==
  ASSUME NEW tag \in IntegerTags, NEW p \in Numerals
  PROVE  {IntegerOf(v) : v \in Tagged(tag, IntegerFromJson(Text(p[1]), tag))}
           = {p[2]} \cap IntegerRange(tag)
<1> DEFINE j == Text(p[1])
<1>1. \A native, range : Integer(j, native, range) = {p[2]} \cap range
  BY NumeralIsRead DEF Integer, Text
<1>2. CASE tag \in {"U128", "I128"}
  <2>1. IntegerFromJson(j, tag) = {ToParts(n) : n \in {p[2]} \cap IntegerRange(tag)}
    BY <1>1, <1>2 DEF IntegerFromJson, IntegerRange, AsU128, AsI128
  <2>2. \A n \in IntegerRange(tag) : IntegerOf(<<tag, ToParts(n)>>) = n
    BY <1>2, Ranges, PartsAreExact DEF IntegerRange
  <2>3. \A v \in Tagged(tag, IntegerFromJson(j, tag)) :
          \E n \in {p[2]} \cap IntegerRange(tag) : IntegerOf(v) = n
    BY <2>1, <2>2 DEF Tagged
  <2>4. \A n \in {p[2]} \cap IntegerRange(tag) :
          \E v \in Tagged(tag, IntegerFromJson(j, tag)) : IntegerOf(v) = n
    BY <2>1, <2>2 DEF Tagged
  <2> QED
    BY <2>3, <2>4
<1>3. CASE tag \notin {"U128", "I128"}
  <2>1. IntegerFromJson(j, tag) = {p[2]} \cap IntegerRange(tag)
    BY <1>1, <1>3, Ranges DEF IntegerFromJson, IntegerRange, IntegerTags, AsU64, AsI64
  <2>2. \A n : IntegerOf(<<tag, n>>) = n
    BY <1>3 DEF IntegerOf
  <2>3. \A v \in Tagged(tag, IntegerFromJson(j, tag)) :
          \E n \in {p[2]} \cap IntegerRange(tag) : IntegerOf(v) = n
    BY <2>1, <2>2 DEF Tagged
  <2>4. \A n \in {p[2]} \cap IntegerRange(tag) :
          \E v \in Tagged(tag, IntegerFromJson(j, tag)) : IntegerOf(v) = n
    BY <2>1, <2>2 DEF Tagged
  <2> QED
    BY <2>3, <2>4
<1> QED
  BY <1>2, <1>3

\* The arm of json_to_scval for the integer types.
LEMMA TypedInteger ==
  ASSUME NEW read, NEW j, NEW t, t[1] \in IntegerTags
  PROVE  Typed(read, j, t) = Tagged(t[1], IntegerFromJson(j, t[1]))
BY DEF Typed, IntegerTags, AddressTypes

\* No integer changes in its conversion, whatever the widths: IntegersAreExact
\* is a property of the readers of scval.rs and of the two halves.
THEOREM IntegersAreExactHolds == Spec => []IntegersAreExact
<1>1. Linked => IntegersAreExact
  <2> SUFFICES ASSUME Linked, type[1] \in IntegerTags, NEW j \in sent
               PROVE  /\ j[1] = "num" => \A v \in arg : IntegerOf(v) = j[2]
                      /\ \A p \in Numerals : j = Text(p[1]) =>
                           {IntegerOf(v) : v \in arg} = {p[2]} \cap IntegerRange(type[1])
    BY DEF IntegersAreExact
  <2>1. type \in SpecTypes /\ j \in Json /\ arg = FromJson(j, type)
    BY DEF Linked
  <2>2. j[1] # "obj" => arg = Tagged(type[1], IntegerFromJson(j, type[1]))
    <3>1. PICK m \in Nat :
            arg = IF IsEscape(j) THEN Decoded(j[2]) ELSE Typed(Reading!Level[m], j, type)
      BY <2>1, FromJsonIsTyped
    <3>2. Typed(Reading!Level[m], j, type) = Tagged(type[1], IntegerFromJson(j, type[1]))
      BY TypedInteger
    <3> QED
      BY <3>1, <3>2 DEF IsEscape
  <2>3. \A p : Text(p[1])[1] = "str"
    BY DEF Text
  <2> QED
    BY <2>2, <2>3, NumberIsExact, NumeralIsExact
<1> QED
  BY <1>1, LinkedHolds, PTL

-----------------------------------------------------------------------------
(* Depths grow                                                             *)

LEMMA SeqOfElements ==
  ASSUME NEW S, NEW T, NEW s \in Seq(S), \A i \in DOMAIN s : s[i] \in T
  PROVE  s \in Seq(T)
OBVIOUS

\* What a sequence holds is of its set.
LEMMA SeqElement ==
  ASSUME NEW S, NEW s \in Seq(S), NEW i \in DOMAIN s
  PROVE  s[i] \in S
OBVIOUS

\* A function on 1..n is a sequence of n elements.
LEMMA FunctionIsSeq ==
  ASSUME NEW S, NEW n \in Nat, NEW f \in [1..n -> S]
  PROVE  f \in Seq(S) /\ Len(f) = n
OBVIOUS

\* Sequences over a larger set.
LEMMA SeqGrows ==
  ASSUME NEW S, NEW T, S \subseteq T
  PROVE  Seq(S) \subseteq Seq(T)
BY SeqOfElements

\* An ScVal of one depth is one of the next.
LEMMA ScValGrows == \A n \in Nat : ScValOf!Level[n] \subseteq ScValOf!Level[n + 1]
<1> DEFINE T == {n \in Nat : ScValOf!Level[n] \subseteq ScValOf!Level[n + 1]}
<1>1. 0 \in T
  BY ScValEquation DEF ScValsAbove
<1>2. ASSUME NEW n \in Nat, n \in T PROVE n + 1 \in T
  <2> DEFINE A == ScValOf!Level[n]
             B == ScValOf!Level[n + 1]
  <2>1. ScValOf!Level[n + 1] = ScValsAbove(A) /\ ScValOf!Level[(n + 1) + 1] = ScValsAbove(B)
    BY ScValEquation
  <2>2. A \subseteq B
    BY <1>2
  <2> HIDE DEF A, B
  <2>3. Seq(A) \subseteq Seq(B)
    BY <2>2, SeqGrows
  <2>4. [key : A, val : A] \subseteq [key : B, val : B]
    BY <2>2
  <2>5. Seq([key : A, val : A]) \subseteq Seq([key : B, val : B])
    BY <2>4, SeqGrows
  <2>6. ScValsAbove(A) \subseteq ScValsAbove(B)
    BY <2>3, <2>5 DEF ScValsAbove
  <2> QED
    BY <2>1, <2>6
<1> HIDE DEF T
<1>3. Nat \subseteq T
  BY <1>1, <1>2, DepthInduction
<1> QED
  BY <1>3 DEF T

\* A level is within every deeper one.
LEMMA ScValDepths ==
  ASSUME NEW n \in Nat, NEW m \in Nat, n <= m
  PROVE  ScValOf!Level[n] \subseteq ScValOf!Level[m]
<1> DEFINE T == {k \in Nat : ScValOf!Level[n] \subseteq ScValOf!Level[n + k]}
<1>1. 0 \in T
  OBVIOUS
<1>2. ASSUME NEW k \in Nat, k \in T PROVE k + 1 \in T
  <2>1. n + k \in Nat /\ n + (k + 1) = (n + k) + 1
    OBVIOUS
  <2> QED
    BY <1>2, <2>1, ScValGrows
<1> HIDE DEF T
<1>3. Nat \subseteq T
  BY <1>1, <1>2, DepthInduction
<1>4. m - n \in Nat /\ n + (m - n) = m
  OBVIOUS
<1> QED
  BY <1>3, <1>4 DEF T

\* Leaves are ScVals of every depth.
LEMMA ScLeavesAtAllDepths == \A n \in Nat : ScLeaves \subseteq ScValOf!Level[n]
BY ScValDepths, ScValEquation

\* JSON of one depth more: the leaves, and what is made of the JSON below.
LEMMA JsonAboveIs ==
  ASSUME NEW json, NEW kind \in JsonKinds
  PROVE  JsonAbove(json)[kind]
           = JsonLeaves \cup ({"arr"} \X Seq(json[kind])) \cup ({"obj"} \X Objects(kind, json[kind]))
BY DEF JsonAbove

\* JSON of one kind: leaves, arrays and objects of the level below.
LEMMA JsonLevelIs ==
  ASSUME NEW n \in Nat, NEW kind \in JsonKinds
  PROVE  JsonOf!Level[n + 1][kind]
           = JsonLeaves \cup ({"arr"} \X Seq(JsonOf!Level[n][kind]))
                        \cup ({"obj"} \X Objects(kind, JsonOf!Level[n][kind]))
<1>1. JsonOf!Level[n + 1] = JsonAbove(JsonOf!Level[n])
  BY JsonEquation
<1> QED
  BY <1>1, JsonAboveIs, Zenon

\* JSON of one depth is JSON of the next.
LEMMA JsonGrows ==
  \A n \in Nat : \A kind \in JsonKinds : JsonOf!Level[n][kind] \subseteq JsonOf!Level[n + 1][kind]
<1> DEFINE T == {n \in Nat : \A kind \in JsonKinds :
                   JsonOf!Level[n][kind] \subseteq JsonOf!Level[n + 1][kind]}
<1>1. 0 \in T
  BY JsonEquation, LeavesAreJson
<1>2. ASSUME NEW n \in Nat, n \in T PROVE n + 1 \in T
  <2> SUFFICES ASSUME NEW kind \in JsonKinds
               PROVE  JsonOf!Level[n + 1][kind] \subseteq JsonOf!Level[(n + 1) + 1][kind]
    OBVIOUS
  <2> DEFINE A == JsonOf!Level[n][kind]
             B == JsonOf!Level[n + 1][kind]
  <2>1. /\ JsonOf!Level[n + 1][kind]
             = JsonLeaves \cup ({"arr"} \X Seq(A)) \cup ({"obj"} \X Objects(kind, A))
        /\ JsonOf!Level[(n + 1) + 1][kind]
             = JsonLeaves \cup ({"arr"} \X Seq(B)) \cup ({"obj"} \X Objects(kind, B))
    BY JsonLevelIs
  <2>2. A \subseteq B
    BY <1>2
  <2> HIDE DEF A, B
  <2>3. Seq(A) \subseteq Seq(B)
    BY <2>2, SeqGrows
  <2>4. Objects(kind, A) \subseteq Objects(kind, B)
    BY <2>2 DEF Objects
  <2> QED
    BY <2>1, <2>3, <2>4
<1> HIDE DEF T
<1>3. Nat \subseteq T
  BY <1>1, <1>2, DepthInduction
<1> QED
  BY <1>3 DEF T

\* Each kind of JSON is contained in the wider one.
LEMMA KindsAreJson == PlainJson \subseteq Json /\ DistinctJson \subseteq PlainJson
<1> DEFINE J(n, kind) == JsonOf!Level[n][kind]
           T == {n \in Nat : J(n, "plain") \subseteq J(n, "any") /\ J(n, "distinct") \subseteq J(n, "plain")}
<1>0. JsonKinds = {"any", "plain", "distinct"}
  BY DEF JsonKinds
<1>1. 0 \in T
  BY <1>0, JsonEquation
<1>2. ASSUME NEW n \in Nat, n \in T PROVE n + 1 \in T
  <2>1. \A kind \in JsonKinds : J(n + 1, kind)
          = JsonLeaves \cup ({"arr"} \X Seq(J(n, kind))) \cup ({"obj"} \X Objects(kind, J(n, kind)))
    BY JsonLevelIs
  <2>2. J(n, "plain") \subseteq J(n, "any") /\ J(n, "distinct") \subseteq J(n, "plain")
    BY <1>2
  <2> HIDE DEF J
  <2>3. /\ Seq(J(n, "plain")) \subseteq Seq(J(n, "any"))
        /\ Seq(J(n, "distinct")) \subseteq Seq(J(n, "plain"))
    BY <2>2, SeqGrows
  <2>4. /\ Objects("plain", J(n, "plain")) \subseteq Objects("any", J(n, "any"))
        /\ Objects("distinct", J(n, "distinct")) \subseteq Objects("plain", J(n, "plain"))
    BY <2>2 DEF Objects, Permits
  <2>5. J(n + 1, "plain") \subseteq J(n + 1, "any") /\ J(n + 1, "distinct") \subseteq J(n + 1, "plain")
    BY <1>0, <2>1, <2>3, <2>4
  <2> QED
    BY <2>5
<1> HIDE DEF T
<1>3. Nat \subseteq T
  BY <1>1, <1>2, DepthInduction
<1>4. Depth \in T
  BY <1>3, BoundsAssumption
<1> QED
  BY <1>4 DEF T, Json, PlainJson, DistinctJson

\* What the parts of JSON are, whatever its kind.
LEMMA JsonParts ==
  ASSUME NEW kind \in JsonKinds, NEW j \in JsonOf!Level[Depth][kind]
  PROVE  /\ j[1] = "arr" => j[2] \in Seq(JsonOf!Level[Depth][kind])
         /\ j[1] = "obj" => j[2] \in Objects(kind, JsonOf!Level[Depth][kind])
         /\ j[1] = "str" => j[2] \in Texts
         /\ j[1] = "num" => j[2] \in Int
         /\ j[1] = "bool" => j[2] \in BOOLEAN
<1>1. PICK m \in Nat : Depth = m + 1
  BY DepthIsAbove
<1> DEFINE A == JsonOf!Level[m][kind]
           B == JsonOf!Level[Depth][kind]
<1>2. B = JsonLeaves \cup ({"arr"} \X Seq(A)) \cup ({"obj"} \X Objects(kind, A))
  BY <1>1, JsonLevelIs
<1>3. A \subseteq B
  BY <1>1, JsonGrows
<1> HIDE DEF A, B
<1>4. Seq(A) \subseteq Seq(B)
  BY <1>3, SeqGrows
<1>5. Objects(kind, A) \subseteq Objects(kind, B)
  BY <1>3 DEF Objects
<1>6. j \in B
  BY DEF B
<1>7. \/ j \in JsonLeaves
      \/ j[1] = "arr" /\ j[2] \in Seq(B)
      \/ j[1] = "obj" /\ j[2] \in Objects(kind, B)
  BY <1>2, <1>4, <1>5, <1>6
<1>8. j \in JsonLeaves =>
        /\ j[1] \in {"null", "frac", "bool", "num", "str", "xdr"}
        /\ j[1] = "str" => j[2] \in Texts
        /\ j[1] = "num" => j[2] \in Int
        /\ j[1] = "bool" => j[2] \in BOOLEAN
  BY DEF JsonLeaves
<1> QED
  BY <1>7, <1>8 DEF B

-----------------------------------------------------------------------------
(* Sorting: a finite set has one arrangement in a total order              *)

IsOrder(R, S) ==
  /\ \A x \in S : <<x, x>> \notin R
  /\ \A x, y \in S : x = y \/ <<x, y>> \in R \/ <<y, x>> \in R
  /\ \A x, y, z \in S : <<x, y>> \in R /\ <<y, z>> \in R => <<x, z>> \in R

Arranges(s, S, R) ==
  /\ s \in [1..Cardinality(S) -> S]
  /\ \A x \in S : \E i \in DOMAIN s : s[i] = x
  /\ \A i, k \in DOMAIN s : i < k => <<s[i], s[k]>> \in R

\* A finite set that is not empty has a last element in a total order.
LEMMA LastExists ==
  ASSUME NEW S, IsFiniteSet(S), NEW R, IsOrder(R, S), S # {}
  PROVE  \E x \in S : \A y \in S : y = x \/ <<y, x>> \in R
<1> DEFINE HasLast(U) == \E x \in U : \A y \in U : y = x \/ <<y, x>> \in R
           T == {n \in Nat : \A U \in SUBSET S : Cardinality(U) = n /\ U # {} => HasLast(U)}
<1>1. 0 \in T
  BY FS_Subset, FS_EmptySet
<1>2. ASSUME NEW n \in Nat, n \in T PROVE n + 1 \in T
  <2> SUFFICES ASSUME NEW U \in SUBSET S, Cardinality(U) = n + 1, U # {} PROVE HasLast(U)
    OBVIOUS
  <2>1. PICK x \in U : TRUE
    OBVIOUS
  <2>2. IsFiniteSet(U)
    BY FS_Subset
  <2>3. Cardinality(U \ {x}) = n
    BY <2>1, <2>2, FS_RemoveElement
  <2>4. CASE U = {x}
    BY <2>4
  <2>5. CASE U # {x}
    <3>1. HasLast(U \ {x})
      BY <1>2, <2>1, <2>3, <2>5
    <3>2. PICK y \in U \ {x} : \A z \in U \ {x} : z = y \/ <<z, y>> \in R
      BY <3>1
    <3>3. CASE <<x, y>> \in R
      BY <2>1, <3>2, <3>3
    <3>4. CASE <<y, x>> \in R
      <4>1. \A z \in U : z = x \/ <<z, x>> \in R
        BY <2>1, <3>2, <3>4 DEF IsOrder
      <4> QED
        BY <2>1, <4>1
    <3> QED
      BY <2>1, <3>2, <3>3, <3>4 DEF IsOrder
  <2> QED
    BY <2>4, <2>5
<1>3. Cardinality(S) \in Nat
  BY FS_CardinalityType
<1> HIDE DEF T
<1>4. Nat \subseteq T
  BY <1>1, <1>2, DepthInduction
<1> QED
  BY <1>3, <1>4 DEF T

\* A finite set can be arranged in a total order.
LEMMA ArrangementExists ==
  ASSUME NEW S, IsFiniteSet(S), NEW R, IsOrder(R, S)
  PROVE  \E s : Arranges(s, S, R)
<1> DEFINE T == {n \in Nat : \A U \in SUBSET S : Cardinality(U) = n => \E s : Arranges(s, U, R)}
<1>1. 0 \in T
  <2> SUFFICES ASSUME NEW U \in SUBSET S, Cardinality(U) = 0 PROVE \E s : Arranges(s, U, R)
    OBVIOUS
  <2>1. U = {}
    BY FS_Subset, FS_EmptySet
  <2> DEFINE s == [i \in 1..0 |-> 0]
  <2>2. Arranges(s, U, R)
    BY <2>1 DEF Arranges
  <2> QED
    BY <2>2
<1>2. ASSUME NEW n \in Nat, n \in T PROVE n + 1 \in T
  <2> SUFFICES ASSUME NEW U \in SUBSET S, Cardinality(U) = n + 1
               PROVE  \E s : Arranges(s, U, R)
    OBVIOUS
  <2>1. IsFiniteSet(U) /\ U # {} /\ IsOrder(R, U)
    BY FS_Subset, FS_EmptySet DEF IsOrder
  <2>2. PICK x \in U : \A y \in U : y = x \/ <<y, x>> \in R
    BY <2>1, LastExists
  <2>3. Cardinality(U \ {x}) = n
    BY <2>1, <2>2, FS_RemoveElement
  <2>4. PICK r : Arranges(r, U \ {x}, R)
    BY <1>2, <2>3
  <2>5. r \in [1..n -> U \ {x}]
    BY <2>3, <2>4 DEF Arranges
  <2> DEFINE s == [i \in 1..n + 1 |-> IF i = n + 1 THEN x ELSE r[i]]
  <2>6. s \in [1..Cardinality(U) -> U]
    BY <2>2, <2>5
  <2>7. \A y \in U : \E i \in DOMAIN s : s[i] = y
    <3> SUFFICES ASSUME NEW y \in U PROVE \E i \in 1..n + 1 : s[i] = y
      OBVIOUS
    <3>1. CASE y = x
      BY <3>1
    <3>2. CASE y # x
      <4>1. PICK i \in 1..n : r[i] = y
        BY <2>4, <2>5, <3>2 DEF Arranges
      <4> QED
        BY <4>1
    <3> QED
      BY <3>1, <3>2
  <2>8. \A i, k \in DOMAIN s : i < k => <<s[i], s[k]>> \in R
    <3> SUFFICES ASSUME NEW i \in 1..n + 1, NEW k \in 1..n + 1, i < k
                 PROVE  <<s[i], s[k]>> \in R
      OBVIOUS
    <3>1. i \in 1..n /\ s[i] = r[i] /\ r[i] \in U \ {x}
      BY <2>5
    <3>2. CASE k = n + 1
      BY <2>2, <3>1, <3>2
    <3>3. CASE k # n + 1
      <4>1. k \in 1..n /\ s[k] = r[k]
        BY <3>3
      <4> QED
        BY <2>4, <2>5, <3>1, <4>1 DEF Arranges
    <3> QED
      BY <3>2, <3>3
  <2> HIDE DEF s
  <2>9. Arranges(s, U, R)
    BY <2>6, <2>7, <2>8 DEF Arranges
  <2> QED
    BY <2>9
<1>3. Cardinality(S) \in Nat
  BY FS_CardinalityType
<1> HIDE DEF T
<1>4. Nat \subseteq T
  BY <1>1, <1>2, DepthInduction
<1> QED
  BY <1>3, <1>4 DEF T

\* The CHOOSE of Arranged finds an arrangement.
LEMMA ArrangedArranges ==
  ASSUME NEW S, IsFiniteSet(S), NEW R, IsOrder(R, S)
  PROVE  Arranges(Arranged(S, R), S, R)
<1>1. \E s : Arranges(s, S, R)
  BY ArrangementExists
<1> QED
  BY <1>1 DEF Arranges, Arranged

\* No two arrangements of a set differ.
LEMMA ArrangementIsUnique ==
  ASSUME NEW S, IsFiniteSet(S), NEW R, IsOrder(R, S),
         NEW s, NEW r, Arranges(s, S, R), Arranges(r, S, R)
  PROVE  s = r
<1> DEFINE N == Cardinality(S)
           T == {n \in Nat : \A i \in 1..N : i <= n => s[i] = r[i]}
<1>1. N \in Nat /\ s \in [1..N -> S] /\ r \in [1..N -> S]
  BY FS_CardinalityType DEF Arranges
<1>2. ASSUME NEW a, NEW b, Arranges(a, S, R), Arranges(b, S, R), NEW n \in Nat, n + 1 \in 1..N,
             \A i \in 1..n : a[i] = b[i]
      PROVE  a[n + 1] = b[n + 1] \/ <<a[n + 1], b[n + 1]>> \in R
  <2>1. a \in [1..N -> S] /\ b \in [1..N -> S]
    BY <1>2 DEF Arranges
  <2>2. PICK k \in 1..N : a[k] = b[n + 1]
    BY <1>2, <2>1 DEF Arranges
  <2>3. ~(k <= n)
    <3> SUFFICES ASSUME k <= n PROVE FALSE
      OBVIOUS
    <3>1. b[k] = b[n + 1]
      BY <1>2, <2>2
    <3>2. <<b[k], b[n + 1]>> \in R
      BY <1>2, <2>1 DEF Arranges
    <3> QED
      BY <1>2, <2>1, <3>1, <3>2 DEF IsOrder
  <2>4. CASE k = n + 1
    BY <2>2, <2>4
  <2>5. CASE n + 1 < k
    BY <1>2, <2>1, <2>2, <2>5 DEF Arranges
  <2> QED
    BY <1>1, <2>3, <2>4, <2>5
<1>3. 0 \in T
  OBVIOUS
<1>4. ASSUME NEW n \in Nat, n \in T PROVE n + 1 \in T
  <2> SUFFICES ASSUME n + 1 \in 1..N PROVE s[n + 1] = r[n + 1]
    BY <1>1, <1>4
  <2>1. \A i \in 1..n : s[i] = r[i]
    BY <1>1, <1>4
  <2>2. s[n + 1] = r[n + 1] \/ <<s[n + 1], r[n + 1]>> \in R
    BY <1>2, <2>1
  <2>3. s[n + 1] = r[n + 1] \/ <<r[n + 1], s[n + 1]>> \in R
    BY <1>2, <2>1
  <2>4. s[n + 1] \in S /\ r[n + 1] \in S
    BY <1>1
  <2>5. \A x, y \in S : ~(<<x, y>> \in R /\ <<y, x>> \in R)
    BY DEF IsOrder
  <2> HIDE DEF T, N
  <2> QED
    BY <2>2, <2>3, <2>4, <2>5
<1> HIDE DEF T, N
<1>5. Nat \subseteq T
  BY <1>3, <1>4, DepthInduction
<1>6. \A i \in 1..N : s[i] = r[i]
  BY <1>1, <1>5 DEF T
<1> QED
  BY <1>1, <1>6

-----------------------------------------------------------------------------
(* Map keys                                                                *)

LEMMA TheIsIn == ASSUME NEW S, S # {} PROVE The(S) \in S
BY DEF The

\* json_key_to_scval returns a value of the type of the key.
LEMMA KeyIsLeaf ==
  ASSUME NEW text \in Texts, NEW t
  PROVE  KeyFromText(text, t) \subseteq LeafValues(t)
<1> USE DEF KeyTypes, IntegerKeyTypes, TextTypes, AddressTypes, IntegerTags
<1>1. CASE t[1] = "Symbol"
  BY <1>1 DEF KeyFromText, LeafValues, Symbol, Symbols
<1>2. CASE t[1] = "String"
  BY <1>2 DEF KeyFromText, LeafValues
<1>3. CASE t[1] \in AddressTypes
  BY <1>3 DEF KeyFromText, LeafValues, Address, Ids
<1>4. CASE t[1] = "Bool"
  <2>1. (text = "true") \in BOOLEAN
    OBVIOUS
  <2>2. LeafValues(t) = {"Bool"} \X BOOLEAN
    BY <1>4 DEF LeafValues
  <2> DEFINE b == text = "true"
  <2>3. KeyFromText(text, t) = IF text \in {"true", "false"} THEN {<<"Bool", b>>} ELSE {}
    BY <1>4 DEF KeyFromText
  <2> HIDE DEF b
  <2>4. <<"Bool", b>> \in {"Bool"} \X BOOLEAN
    BY <2>1 DEF b
  <2> QED
    BY <2>2, <2>3, <2>4
<1>5. CASE t[1] \in IntegerKeyTypes
  <2>1. KeyFromText(text, t) = Tagged(t[1], Parsed(text, IntegerRange(t[1])))
    BY <1>5 DEF KeyFromText
  <2>2. LeafValues(t) = {t[1]} \X IntegerRange(t[1])
    BY <1>5 DEF LeafValues, Stored
  <2> QED
    BY <2>1, <2>2 DEF Tagged, Parsed
<1>6. CASE t[1] \notin KeyTypes
  BY <1>6 DEF KeyFromText
<1> QED
  BY <1>1, <1>2, <1>3, <1>4, <1>5, <1>6

\* KeyBefore orders the keys of one type, as the order of ScVal does.
LEMMA KeysAreOrdered ==
  ASSUME NEW t, t[1] \in KeyTypes
  PROVE  /\ \A a \in LeafValues(t) : ~KeyBefore(a, a)
         /\ \A a, b \in LeafValues(t) : a = b \/ KeyBefore(a, b) \/ KeyBefore(b, a)
         /\ \A a, b, c \in LeafValues(t) :
              KeyBefore(a, b) /\ KeyBefore(b, c) => KeyBefore(a, c)
<1> USE DEF KeyTypes, IntegerKeyTypes, TextTypes, AddressTypes, IntegerTags
<1>1. CASE t[1] \in TextTypes
  <2>1. \A a \in LeafValues(t) : a = <<t[1], a[2]>> /\ a[2] \in Texts
    BY <1>1 DEF LeafValues, Symbols
  <2>2. \A a, b \in LeafValues(t) : KeyBefore(a, b) <=> TextRank[a[2]] < TextRank[b[2]]
    BY <1>1, <2>1 DEF KeyBefore
  <2>3. \A a \in LeafValues(t) : TextRank[a[2]] \in Nat
    BY <2>1, TextAssumption
  <2>4. \A a, b \in LeafValues(t) : TextRank[a[2]] = TextRank[b[2]] => a = b
    BY <2>1, TextAssumption
  <2> HIDE DEF KeyTypes, IntegerKeyTypes, TextTypes, AddressTypes, IntegerTags
  <2> QED
    BY <2>2, <2>3, <2>4
<1>2. CASE t[1] \in AddressTypes
  <2>1. \A a \in LeafValues(t) :
          a = <<"Address", a[2]>> /\ a[2] \in {"Account", "Contract"} \X Nat
    BY <1>2, StrkeyAssumption DEF LeafValues, Ids
  <2>2. \A a, b \in LeafValues(t) :
          KeyBefore(a, b) <=> \/ a[2][1] = "Account" /\ b[2][1] = "Contract"
                              \/ a[2][1] = b[2][1] /\ a[2][2] < b[2][2]
    BY <1>2, <2>1 DEF KeyBefore
  <2>3. \A a \in LeafValues(t) :
          /\ a = <<"Address", <<a[2][1], a[2][2]>> >>
          /\ a[2][1] \in {"Account", "Contract"} /\ a[2][2] \in Nat
    BY <2>1
  <2> HIDE DEF KeyTypes, IntegerKeyTypes, TextTypes, AddressTypes, IntegerTags
  <2> QED
    BY <2>2, <2>3
<1>3. CASE t[1] = "Bool"
  <2>1. \A a \in LeafValues(t) : a = <<"Bool", a[2]>> /\ a[2] \in BOOLEAN
    BY <1>3 DEF LeafValues
  <2>2. \A a, b \in LeafValues(t) : KeyBefore(a, b) <=> ~a[2] /\ b[2]
    BY <1>3, <2>1 DEF KeyBefore
  <2> HIDE DEF KeyTypes, IntegerKeyTypes, TextTypes, AddressTypes, IntegerTags
  <2> QED
    BY <2>1, <2>2
<1>4. CASE t[1] \in IntegerKeyTypes
  <2>1. LeafValues(t) = {t[1]} \X IntegerRange(t[1]) /\ IntegerRange(t[1]) \subseteq Int
    BY <1>4, Ranges DEF LeafValues, Stored, IntegerRange
  <2>2. \A a \in LeafValues(t) : a = <<t[1], a[2]>> /\ a[2] \in Int
    BY <2>1
  <2>3. \A a, b \in LeafValues(t) : KeyBefore(a, b) <=> a[2] < b[2]
    BY <1>4, <2>2 DEF KeyBefore
  <2> HIDE DEF KeyTypes, IntegerKeyTypes, TextTypes, AddressTypes, IntegerTags
  <2> QED
    BY <2>2, <2>3
<1> QED
  BY <1>1, <1>2, <1>3, <1>4

\* Two texts are one key only where an integer is spelled in two ways.
LEMMA OneKeyPerText ==
  ASSUME NEW t, NEW a, NEW b, a # b, NEW k \in KeyFromText(a, t) \cap KeyFromText(b, t)
  PROVE  /\ k[1] \in IntegerKeyTypes
         /\ \E p, q \in Numerals : p # q /\ p[1] = a /\ q[1] = b /\ p[2] = q[2]
<1> USE DEF IntegerKeyTypes, TextTypes, AddressTypes
<1>1. t[1] # "Symbol"
  BY DEF KeyFromText, Symbol
<1>2. t[1] # "String"
  BY DEF KeyFromText
<1>3. t[1] \notin AddressTypes
  BY StrkeyAssumption DEF KeyFromText, Address
<1>4. t[1] # "Bool"
  BY DEF KeyFromText
<1>5. t[1] \in IntegerKeyTypes
  BY <1>1, <1>2, <1>3, <1>4 DEF KeyFromText
<1>6. /\ k \in Tagged(t[1], Parsed(a, IntegerRange(t[1])))
      /\ k \in Tagged(t[1], Parsed(b, IntegerRange(t[1])))
  BY <1>5 DEF KeyFromText
<1>7. k[1] = t[1] /\ k[2] \in Parsed(a, IntegerRange(t[1])) \cap Parsed(b, IntegerRange(t[1]))
  BY <1>6 DEF Tagged
<1> QED
  BY <1>5, <1>7 DEF Parsed

-----------------------------------------------------------------------------
(* Maps from objects                                                       *)

LEMMA EntryOrderIsOrder ==
  ASSUME NEW o, IsObject(o), KeysOf(o) \subseteq Texts, NEW t, t[1] \in KeyTypes,
         NEW keys, DOMAIN keys = o, \A m \in o : keys[m] \subseteq LeafValues(t) /\ keys[m] # {}
  PROVE  IsOrder(EntryOrder(keys), o)
<1> DEFINE K(m) == The(keys[m])
           Before(a, b) == KeyBefore(K(a), K(b)) \/ (K(a) = K(b) /\ TextRank[a[1]] < TextRank[b[1]])
<1>1. \A a, b \in o : <<a, b>> \in EntryOrder(keys) <=> Before(a, b)
  BY DEF EntryOrder
<1>2. \A m \in o : K(m) \in LeafValues(t)
  BY TheIsIn
<1>3. \A a, b \in o : TextRank[a[1]] \in Nat /\ (TextRank[a[1]] = TextRank[b[1]] => a = b)
  <2>1. \A m \in o : m[1] \in Texts
    BY DEF KeysOf
  <2>2. \A m \in o : TextRank[m[1]] \in Nat
    BY <2>1, TextAssumption
  <2>3. \A a, b \in o : TextRank[a[1]] = TextRank[b[1]] => a[1] = b[1]
    BY <2>1, TextAssumption
  <2>4. \A a, b \in o : a[1] = b[1] => a = b
    BY DEF IsObject
  <2> QED
    BY <2>2, <2>3, <2>4
<1> DEFINE L == LeafValues(t)
<1>4. /\ \A a \in L : ~KeyBefore(a, a)
      /\ \A a, b \in L : a = b \/ KeyBefore(a, b) \/ KeyBefore(b, a)
      /\ \A a, b, c \in L : KeyBefore(a, b) /\ KeyBefore(b, c) => KeyBefore(a, c)
  BY KeysAreOrdered
<1> HIDE DEF K, L
<1>5. \A a \in o : ~Before(a, a)
  BY <1>2, <1>3, <1>4 DEF L
<1>6. \A a, b \in o : a = b \/ Before(a, b) \/ Before(b, a)
  BY <1>2, <1>3, <1>4 DEF L
<1>7. ASSUME NEW a \in o, NEW b \in o, NEW c \in o, Before(a, b), Before(b, c)
      PROVE  Before(a, c)
  BY <1>2, <1>3, <1>4, <1>7 DEF L
<1> HIDE DEF Before
<1> QED
  BY <1>1, <1>5, <1>6, <1>7 DEF IsOrder

\* The entries of a map: the members in order, converted.
EntriesOf(order, keys, vals) ==
  [i \in DOMAIN order |-> [key |-> The(keys[order[i]]), val |-> The(vals[order[i]])]]

\* A map from an object has the members' entries, sorted as sort_by sorts them.
LEMMA MapOfArranges ==
  ASSUME NEW o, IsObject(o), KeysOf(o) \subseteq Texts, NEW t, t[1] \in KeyTypes,
         NEW keys, DOMAIN keys = o, \A m \in o : keys[m] \subseteq LeafValues(t),
         NEW vals, NEW v \in MapOf(keys, vals)
  PROVE  /\ \A m \in o : keys[m] # {} /\ vals[m] # {}
         /\ \E order : /\ Arranges(order, o, EntryOrder(keys))
                       /\ v = <<"Map", EntriesOf(order, keys, vals)>>
<1>1. \A m \in o : keys[m] # {} /\ vals[m] # {}
  BY DEF MapOf
<1>2. v = <<"Map", EntriesOf(Arranged(o, EntryOrder(keys)), keys, vals)>>
  BY <1>1 DEF MapOf, EntriesOf
<1>3. IsFiniteSet(o)
  BY DEF IsObject
<1>4. Arranges(Arranged(o, EntryOrder(keys)), o, EntryOrder(keys))
  BY <1>1, <1>3, EntryOrderIsOrder, ArrangedArranges
<1> QED
  BY <1>1, <1>2, <1>4

\* The order in which the members of an object become the entries of a map:
\* ascending, but for the spellings of one integer.
EntersMap(order, o, t, keys, vals) ==
  /\ Arranges(order, o, EntryOrder(keys))
  /\ \A i \in DOMAIN order :
       /\ The(keys[order[i]]) \in KeyFromText(order[i][1], t)
       /\ The(vals[order[i]]) \in vals[order[i]]
  /\ \A i, k \in DOMAIN order : i < k =>
       \/ KeyBefore(The(keys[order[i]]), The(keys[order[k]]))
       \/ /\ The(keys[order[i]]) = The(keys[order[k]])
          /\ The(keys[order[i]])[1] \in IntegerKeyTypes
          /\ Synonyms(KeysOf(o))

\* The keys of the members of an object, by the type of the keys.
KeysBy(keys, o, t) ==
  /\ IsObject(o) /\ KeysOf(o) \subseteq Texts
  /\ t[1] \in KeyTypes
  /\ DOMAIN keys = o /\ \A m \in o : keys[m] = KeyFromText(m[1], t)

\* The same, with what the order says of the keys: no later one is smaller.
LEMMA EntriesAscend ==
  ASSUME NEW o, NEW t, NEW keys, KeysBy(keys, o, t), NEW vals, NEW v \in MapOf(keys, vals)
  PROVE  \E order : EntersMap(order, o, t, keys, vals)
                    /\ v = <<"Map", EntriesOf(order, keys, vals)>>
<1> USE DEF KeysBy
<1>1. \A m \in o : keys[m] \subseteq LeafValues(t)
  BY KeyIsLeaf DEF KeysOf
<1>2. \A m \in o : keys[m] # {} /\ vals[m] # {}
  BY <1>1, MapOfArranges
<1>3. PICK order : Arranges(order, o, EntryOrder(keys)) /\ v = <<"Map", EntriesOf(order, keys, vals)>>
  BY <1>1, MapOfArranges
<1>4. \A i \in DOMAIN order : order[i] \in o
  BY <1>3 DEF Arranges
<1>5. \A i \in DOMAIN order :
        /\ The(keys[order[i]]) \in KeyFromText(order[i][1], t)
        /\ The(vals[order[i]]) \in vals[order[i]]
  BY <1>2, <1>4, TheIsIn
<1>6. ASSUME NEW i \in DOMAIN order, NEW k \in DOMAIN order, i < k,
             ~KeyBefore(The(keys[order[i]]), The(keys[order[k]]))
      PROVE  /\ The(keys[order[i]]) = The(keys[order[k]])
             /\ The(keys[order[i]])[1] \in IntegerKeyTypes
             /\ Synonyms(KeysOf(o))
  <2> DEFINE a == order[i]
             b == order[k]
  <2>1. <<a, b>> \in EntryOrder(keys)
    BY <1>3, <1>6 DEF Arranges
  <2>2. The(keys[a]) = The(keys[b]) /\ TextRank[a[1]] < TextRank[b[1]]
    BY <1>6, <2>1 DEF EntryOrder
  <2>3. a \in o /\ b \in o /\ a[1] \in Texts /\ b[1] \in Texts
    BY <1>4 DEF KeysOf
  <2>4. a[1] # b[1]
    <3>1. TextRank[a[1]] \in Nat
      BY <2>3, TextAssumption
    <3> HIDE DEF a, b
    <3> QED
      BY <2>2, <3>1
  <2>5. The(keys[a]) \in KeyFromText(a[1], t) \cap KeyFromText(b[1], t)
    BY <1>5, <2>2
  <2>6. /\ The(keys[a])[1] \in IntegerKeyTypes
        /\ \E p, q \in Numerals : p # q /\ p[1] = a[1] /\ q[1] = b[1] /\ p[2] = q[2]
    BY <2>4, <2>5, OneKeyPerText
  <2>7. Synonyms(KeysOf(o))
    BY <2>3, <2>6 DEF Synonyms, KeysOf
  <2> QED
    BY <2>2, <2>6, <2>7
<1> QED
  BY <1>3, <1>5, <1>6 DEF EntersMap

-----------------------------------------------------------------------------
(* Values of a type are ScVals                                             *)

TwoKinds == {"plain", "distinct"}

\* The sets that make up the leaves.
LEMMA ScLeafSets ==
  /\ <<"Void">> \in ScLeaves
  /\ {"Bool"} \X BOOLEAN \subseteq ScLeaves
  /\ \A tag \in IntegerTags : {tag} \X Stored(tag) \subseteq ScLeaves
  /\ {"Bytes"} \X Octets \subseteq ScLeaves
  /\ TextTypes \X Texts \subseteq ScLeaves
  /\ {"Address"} \X Ids \subseteq ScLeaves
  /\ {"U256", "I256", "Error"} \X {0} \subseteq ScLeaves
<1>1. \A tag \in IntegerTags : {tag} \X Stored(tag) \subseteq IntegerLeaves
  BY DEF IntegerLeaves
<1> QED
  BY <1>1, Zenon DEF ScLeaves

\* Symbols are ScVals without parts.
LEMMA SymbolsAreLeaves == Symbols \subseteq ScLeaves
<1>1. Symbols \subseteq TextTypes \X Texts
  BY DEF Symbols, TextTypes
<1> QED
  BY <1>1, ScLeafSets

\* A value of a type without parts is an ScVal without parts.
LEMMA LeafValuesAreLeaves == ASSUME NEW t PROVE LeafValues(t) \subseteq ScLeaves
<1> USE DEF AddressTypes, IntegerTags
<1>1. CASE t[1] \in IntegerTags
  <2>1. LeafValues(t) = {t[1]} \X Stored(t[1])
    BY <1>1 DEF LeafValues
  <2> QED
    BY <1>1, <2>1, ScLeafSets
<1>2. CASE t[1] = "Bool" \/ t[1] = "Void"
  <2>1. t[1] = "Bool" => LeafValues(t) = {"Bool"} \X BOOLEAN
    BY DEF LeafValues
  <2>2. t[1] = "Void" => LeafValues(t) = {<<"Void">>}
    BY DEF LeafValues
  <2> QED
    BY <1>2, <2>1, <2>2, ScLeafSets
<1>3. CASE t[1] \in {"Bytes", "BytesN"}
  <2>1. LeafValues(t) \subseteq {"Bytes"} \X Octets
    BY <1>3 DEF LeafValues
  <2> QED
    BY <2>1, ScLeafSets
<1>4. CASE t[1] \in {"String", "Symbol"}
  <2>1. LeafValues(t) \subseteq TextTypes \X Texts
    BY <1>4 DEF LeafValues, Symbols, TextTypes
  <2> QED
    BY <2>1, ScLeafSets
<1>5. CASE t[1] \in AddressTypes
  <2>1. LeafValues(t) = {"Address"} \X Ids
    BY <1>5 DEF LeafValues
  <2> QED
    BY <2>1, ScLeafSets
<1>6. CASE t[1] \in {"U256", "I256", "Error"}
  <2>1. LeafValues(t) \subseteq {"U256", "I256", "Error"} \X {0}
    BY <1>6 DEF LeafValues
  <2> QED
    BY <2>1, ScLeafSets
<1>7. CASE t[1] \notin IntegerTags \cup AddressTypes
                   \cup {"Bool", "Void", "Bytes", "BytesN", "String", "Symbol", "U256", "I256", "Error"}
  BY <1>7 DEF LeafValues
<1> QED
  BY <1>1, <1>2, <1>3, <1>4, <1>5, <1>6, <1>7

\* What a contract's user-defined types are made of.
LEMMA StructParts ==
  ASSUME NEW t \in SpecTypes, t[1] = "Udt", KindOf(t[2]) = "struct",
         NEW fields, fields = Definition("struct", t[2])
  PROVE  /\ FieldTypes(fields) \in Seq(SpecTypes)
         /\ FieldNames(fields) \subseteq Texts
         /\ \A i \in DOMAIN fields :
              /\ fields[i][2] \in SpecTypes
              /\ TypeOfField(fields, fields[i][1]) = fields[i][2]
<1>0. AreFields(fields)
  BY TypeAssumption
<1>1. fields \in Seq(Texts \X SpecTypes)
  BY <1>0 DEF AreFields
<1>2. \A i, k \in DOMAIN fields : fields[i][1] = fields[k][1] => i = k
  BY <1>0 DEF AreFields
<1>3. \A i \in DOMAIN fields : fields[i][1] \in Texts /\ fields[i][2] \in SpecTypes
  BY <1>1
<1>4. FieldTypes(fields) \in Seq(SpecTypes)
  BY <1>1, <1>3 DEF FieldTypes
<1>5. \A i \in DOMAIN fields : TypeOfField(fields, fields[i][1]) = fields[i][2]
  <2> SUFFICES ASSUME NEW i \in DOMAIN fields
               PROVE  TypeOfField(fields, fields[i][1]) = fields[i][2]
    OBVIOUS
  <2>1. (CHOOSE k \in DOMAIN fields : fields[k][1] = fields[i][1]) = i
    BY <1>2
  <2> QED
    BY <2>1 DEF TypeOfField
<1> QED
  BY <1>3, <1>4, <1>5 DEF FieldNames

\* The types of a case of a contract's union are types of the contract.
LEMMA UnionParts ==
  ASSUME NEW t \in SpecTypes, t[1] = "Udt", KindOf(t[2]) = "union",
         NEW name, NEW case \in UnionCase(t[2], name)
  PROVE  case.types \in Seq(SpecTypes)
<1> DEFINE cases == Definition("union", t[2])
<1>1. cases \in Seq([name : Texts, types : Seq(SpecTypes)])
  BY TypeAssumption
<1>2. PICK i \in DOMAIN cases : case = cases[i]
  BY DEF UnionCase
<1> HIDE DEF cases
<1>3. cases[i] \in [name : Texts, types : Seq(SpecTypes)]
  BY <1>1, SeqElement
<1> QED
  BY <1>2, <1>3

\* The values of an enum are u32s, and what a case name is looked up to is one of them.
LEMMA EnumParts ==
  ASSUME NEW t \in SpecTypes, t[1] = "Udt", NEW kind \in {"enum", "error_enum"}, KindOf(t[2]) = kind
  PROVE  /\ CaseValues(kind, t[2]) \subseteq U32
         /\ \A name : EnumCase(kind, t[2], name) \subseteq CaseValues(kind, t[2])
<1> DEFINE cases == Definition(kind, t[2])
<1>1. cases \in Seq(Texts \X U32)
  BY TypeAssumption
<1>2. \A i \in DOMAIN cases : cases[i][2] \in U32
  BY <1>1
<1> QED
  BY <1>2 DEF CaseValues, EnumCase

\* One value per type is a sequence of ScVals.
LEMMA RowIsSeq ==
  ASSUME NEW S, NEW values, NEW kind, \A t \in SpecTypes : values[<<kind, t>>] \subseteq S,
         NEW types \in Seq(SpecTypes), NEW s \in Row(values, kind, types)
  PROVE  s \in Seq(S)
<1>1. s \in Seq(ScVal) /\ Len(s) = Len(types) /\ \A i \in DOMAIN s : s[i] \in values[<<kind, types[i]>>]
  BY DEF Row
<1>2. \A i \in DOMAIN s : types[i] \in SpecTypes
  BY <1>1
<1> QED
  BY <1>1, <1>2, SeqOfElements

\* Struct values are ScVals, one level above their fields.
LEMMA StructValuesAreScVals ==
  ASSUME NEW S, ScLeaves \subseteq S, NEW values, NEW kind,
         \A t \in SpecTypes : values[<<kind, t>>] \subseteq S,
         NEW t \in SpecTypes, t[1] = "Udt", KindOf(t[2]) = "struct"
  PROVE  StructValues(values, kind, Definition("struct", t[2])) \subseteq ScValsAbove(S)
<1> DEFINE fields == Definition("struct", t[2])
           Names == FieldNames(fields)
           Of(name) == values[<<kind, TypeOfField(fields, name)>>]
<1>1. FieldTypes(fields) \in Seq(SpecTypes)
  BY StructParts
<1>2. \A name \in Names : TypeOfField(fields, name) \in SpecTypes
  BY StructParts DEF FieldNames
<1>3. \A name \in Names : Of(name) \subseteq S
  BY <1>2
<1> HIDE DEF fields
<1>4. Row(values, kind, FieldTypes(fields)) \subseteq Seq(S)
  BY <1>1, RowIsSeq
<1> DEFINE Rows == {es \in MapEntries("distinct", Symbols, ScVal) :
                      /\ {es[i].key[2] : i \in DOMAIN es} = Names
                      /\ \A i \in DOMAIN es : es[i].val \in Of(es[i].key[2])}
<1> HIDE DEF Names, Of
<1>5. Rows \subseteq Seq([key : S, val : S])
  <2> SUFFICES ASSUME NEW es \in Rows PROVE es \in Seq([key : S, val : S])
    OBVIOUS
  <2>1. /\ es \in Seq([key : Symbols, val : ScVal])
        /\ \A i \in DOMAIN es : es[i].key[2] \in Names /\ es[i].val \in Of(es[i].key[2])
    BY DEF MapEntries
  <2>2. \A i \in DOMAIN es : es[i] \in [key : Symbols, val : ScVal]
    BY <2>1, SeqElement
  <2>3. \A i \in DOMAIN es : es[i] \in [key : S, val : S]
    BY <1>3, <2>1, <2>2, SymbolsAreLeaves
  <2> HIDE DEF Rows
  <2> QED
    BY <2>1, <2>3, SeqOfElements
<1>6. StructValues(values, kind, fields) \subseteq ({"Vec"} \X Seq(S)) \cup ({"Map"} \X Seq([key : S, val : S]))
  <2>1. StructValues(values, kind, fields)
          = IF IsTupleStruct(fields) THEN {"Vec"} \X Row(values, kind, FieldTypes(fields))
            ELSE {"Map"} \X Rows
    BY DEF StructValues, Names, Of
  <2> HIDE DEF Rows
  <2>2. StructValues(values, kind, fields) \subseteq {"Vec"} \X Row(values, kind, FieldTypes(fields))
          \/ StructValues(values, kind, fields) \subseteq {"Map"} \X Rows
    BY <2>1
  <2> QED
    BY <1>4, <1>5, <2>2
<1> QED
  BY <1>6 DEF ScValsAbove, fields

\* Union values are vectors of ScVals of the level below.
LEMMA UnionValuesAreScVals ==
  ASSUME NEW S, ScLeaves \subseteq S, NEW values, NEW kind,
         \A t \in SpecTypes : values[<<kind, t>>] \subseteq S,
         NEW t \in SpecTypes, t[1] = "Udt", KindOf(t[2]) = "union"
  PROVE  UnionValues(values, kind, t[2]) \subseteq {"Vec"} \X Seq(S)
<1> SUFFICES ASSUME NEW s \in Seq(ScVal), s # <<>>, s[1] \in Symbols,
                    NEW case \in UnionCase(t[2], s[1][2]),
                    Tail(s) \in Row(values, kind, case.types)
             PROVE  s \in Seq(S)
  BY DEF UnionValues
<1>1. Tail(s) \in Seq(S)
  BY UnionParts, RowIsSeq
<1>2. \A i \in DOMAIN s : i # 1 => i - 1 \in DOMAIN Tail(s) /\ s[i] = Tail(s)[i - 1]
  OBVIOUS
<1>3. \A i \in DOMAIN s : s[i] \in S
  BY <1>1, <1>2, SymbolsAreLeaves, SeqElement
<1> QED
  BY <1>3, SeqOfElements

\* Values of any type are ScVals, one level above their parts.
LEMMA TypeValuesAreScVals ==
  ASSUME NEW S, ScLeaves \subseteq S, S \subseteq ScValsAbove(S), NEW values, NEW kind,
         \A t \in SpecTypes : values[<<kind, t>>] \subseteq S,
         NEW t \in SpecTypes
  PROVE  TypeValues(values, kind, t) \subseteq ScValsAbove(S)
<1>0. /\ ScLeaves \subseteq ScValsAbove(S)
      /\ {"Vec"} \X Seq(S) \subseteq ScValsAbove(S)
      /\ {"Map"} \X Seq([key : S, val : S]) \subseteq ScValsAbove(S)
  BY DEF ScValsAbove
<1>1. CASE t[1] = "Option"
  <2>1. TypeValues(values, kind, t) = {<<"Void">>} \cup values[<<kind, t[2]>>] /\ t[2] \in SpecTypes
    BY <1>1, TypeAssumption DEF TypeValues
  <2> QED
    BY <2>1, ScLeafSets
<1>2. CASE t[1] = "Vec"
  <2>1. TypeValues(values, kind, t) = {"Vec"} \X Seq(values[<<kind, t[2]>>]) /\ t[2] \in SpecTypes
    BY <1>2, TypeAssumption DEF TypeValues
  <2>2. Seq(values[<<kind, t[2]>>]) \subseteq Seq(S)
    BY <2>1, SeqGrows
  <2> QED
    BY <1>0, <2>1, <2>2
<1>3. CASE t[1] = "Map"
  <2> DEFINE K == IF t[2][1] \in KeyTypes THEN LeafValues(t[2]) ELSE values[<<kind, t[2]>>]
             E == [key : K, val : values[<<kind, t[3]>>]]
  <2>0. t[2] \in SpecTypes /\ t[3] \in SpecTypes
    BY <1>3, TypeAssumption
  <2>1. TypeValues(values, kind, t) \subseteq {"Map"} \X Seq(E)
    <3>1. TypeValues(values, kind, t) = MapValues(values, kind, t)
      BY <1>3 DEF TypeValues
    <3> QED
      BY <3>1 DEF MapValues, MapEntries
  <2>2. K \subseteq S
    BY <2>0, LeafValuesAreLeaves
  <2>3. E \subseteq [key : S, val : S]
    <3> HIDE DEF K
    <3> QED
      BY <2>0, <2>2
  <2> HIDE DEF E
  <2>4. Seq(E) \subseteq Seq([key : S, val : S])
    BY <2>3, SeqGrows
  <2> QED
    BY <1>0, <2>1, <2>4
<1>4. CASE t[1] = "Tuple"
  <2>1. TypeValues(values, kind, t) = {"Vec"} \X Row(values, kind, t[2]) /\ t[2] \in Seq(SpecTypes)
    BY <1>4, TypeAssumption DEF TypeValues
  <2>2. Row(values, kind, t[2]) \subseteq Seq(S)
    BY <2>1, RowIsSeq
  <2> QED
    BY <1>0, <2>1, <2>2
<1>5. CASE t[1] = "Udt"
  <2>0. TypeValues(values, kind, t) = UdtValues(values, kind, t[2])
    BY <1>5 DEF TypeValues
  <2>1. CASE KindOf(t[2]) = "struct"
    <3>1. TypeValues(values, kind, t) = StructValues(values, kind, Definition("struct", t[2]))
      BY <2>0, <2>1 DEF UdtValues
    <3> QED
      BY <1>5, <2>1, <3>1, StructValuesAreScVals
  <2>2. CASE KindOf(t[2]) = "union"
    <3>1. TypeValues(values, kind, t) = UnionValues(values, kind, t[2])
      BY <2>0, <2>2 DEF UdtValues
    <3>2. UnionValues(values, kind, t[2]) \subseteq {"Vec"} \X Seq(S)
      BY <1>5, <2>2, UnionValuesAreScVals
    <3> QED
      BY <1>0, <3>1, <3>2, Zenon
  <2>3. CASE KindOf(t[2]) \in {"enum", "error_enum"}
    <3>1. TypeValues(values, kind, t) \subseteq {"U32"} \X U32
      BY <1>5, <2>0, <2>3, EnumParts DEF UdtValues
    <3>2. {"U32"} \X U32 \subseteq ScLeaves
      BY ScLeafSets DEF IntegerTags, Stored, IntegerRange
    <3> QED
      BY <1>0, <3>1, <3>2
  <2>4. CASE KindOf(t[2]) \notin {"struct", "union", "enum", "error_enum"}
    BY <2>0, <2>4 DEF UdtValues
  <2> QED
    BY <2>1, <2>2, <2>3, <2>4
<1>6. CASE t[1] \notin {"Option", "Vec", "Map", "Tuple", "Udt"}
  <2>1. TypeValues(values, kind, t) = LeafValues(t)
    BY <1>6 DEF TypeValues
  <2> QED
    BY <1>0, <2>1, LeafValuesAreLeaves
<1> QED
  BY <1>1, <1>2, <1>3, <1>4, <1>5, <1>6

\* The values of a type are made of those of its types, one level below.
LEMMA ValuesAreAbove ==
  ASSUME NEW n \in Nat, NEW kind \in TwoKinds, NEW t \in SpecTypes
  PROVE  ValuesOf!Level[n + 1][<<kind, t>>] = TypeValues(ValuesOf!Level[n], kind, t)
<1>1. ValuesOf!Level[n + 1] = ValuesAbove(ValuesOf!Level[n])
  BY ValuesEquation
<1> DEFINE values == ValuesOf!Level[n]
<1> HIDE DEF values
<1>2. ValuesAbove(values)[<<kind, t>>] = TypeValues(values, kind, t)
  BY DEF ValuesAbove, TwoKinds
<1> QED
  BY <1>1, <1>2 DEF values

\* The values of a type of a depth are ScVals of that depth.
LEMMA ValuesAreScVals ==
  \A n \in Nat : \A kind \in TwoKinds, t \in SpecTypes :
    ValuesOf!Level[n][<<kind, t>>] \subseteq ScValOf!Level[n]
<1> DEFINE T == {n \in Nat : \A kind \in TwoKinds, t \in SpecTypes :
                   ValuesOf!Level[n][<<kind, t>>] \subseteq ScValOf!Level[n]}
<1>1. 0 \in T
  BY ValuesEquation DEF TwoKinds
<1>2. ASSUME NEW n \in Nat, n \in T PROVE n + 1 \in T
  <2> SUFFICES ASSUME NEW kind \in TwoKinds, NEW t \in SpecTypes
               PROVE  ValuesOf!Level[n + 1][<<kind, t>>] \subseteq ScValOf!Level[n + 1]
    OBVIOUS
  <2> DEFINE S == ScValOf!Level[n]
             values == ValuesOf!Level[n]
  <2>1. ValuesOf!Level[n + 1][<<kind, t>>] = TypeValues(values, kind, t)
    BY ValuesAreAbove
  <2>2. ScValOf!Level[n + 1] = ScValsAbove(S)
    BY ScValEquation
  <2>3. ScLeaves \subseteq S /\ S \subseteq ScValsAbove(S)
    BY <2>2, ScLeavesAtAllDepths, ScValGrows
  <2>4. \A u \in SpecTypes : values[<<kind, u>>] \subseteq S
    BY <1>2
  <2> HIDE DEF S, values
  <2> QED
    BY <2>1, <2>2, <2>3, <2>4, TypeValuesAreScVals
<1> HIDE DEF T
<1>3. Nat \subseteq T
  BY <1>1, <1>2, DepthInduction
<1> QED
  BY <1>3 DEF T

-----------------------------------------------------------------------------
(* Reading: one call, when the calls it makes return values of their types *)

J(kind) == JsonOf!Level[Depth][kind]

Reads(read, values, kind) ==
  /\ \A t \in SpecTypes : values[<<kind, t>>] \subseteq ScVal
  /\ \A j \in J(kind), t \in SpecTypes : read[<<j, t>>] \subseteq values[<<kind, t>>]

\* collect: every conversion has a result, and those are returned in order.
LEMMA CollectedIs ==
  ASSUME NEW results, NEW v \in Collected(results)
  PROVE  /\ DOMAIN v = DOMAIN results
         /\ v = [i \in DOMAIN results |-> The(results[i])]
         /\ \A i \in DOMAIN results : v[i] \in results[i]
<1>1. \A i \in DOMAIN results : results[i] # {}
  BY DEF Collected
<1>2. v = [i \in DOMAIN results |-> The(results[i])]
  BY <1>1 DEF Collected
<1> QED
  BY <1>1, <1>2, TheIsIn

\* Items converted one per type are values of these types.
LEMMA ItemsAreRow ==
  ASSUME NEW read, NEW values, NEW kind, Reads(read, values, kind),
         NEW items \in Seq(J(kind)), NEW types \in Seq(SpecTypes)
  PROVE  Items(read, items, types) \subseteq Row(values, kind, types)
<1> SUFFICES ASSUME NEW s \in Items(read, items, types) PROVE s \in Row(values, kind, types)
  OBVIOUS
<1> DEFINE results == [i \in 1..Len(types) |-> read[<<items[i], types[i]>>]]
<1>1. Len(items) = Len(types) /\ s \in Collected(results)
  BY DEF Items
<1>2. /\ DOMAIN s = 1..Len(types)
      /\ s = [i \in 1..Len(types) |-> The(results[i])]
      /\ \A i \in 1..Len(types) : s[i] \in read[<<items[i], types[i]>>]
  BY <1>1, CollectedIs
<1>3. \A i \in 1..Len(types) : items[i] \in J(kind) /\ types[i] \in SpecTypes
  BY <1>1
<1>4. \A i \in 1..Len(types) : s[i] \in values[<<kind, types[i]>>] /\ s[i] \in ScVal
  BY <1>2, <1>3 DEF Reads
<1> HIDE DEF results
<1>5. s \in Seq(ScVal) /\ Len(s) = Len(types)
  <2>1. Len(types) \in Nat
    OBVIOUS
  <2>2. s \in [1..Len(types) -> ScVal]
    BY <1>2, <1>4
  <2> QED
    BY <2>1, <2>2
<1> QED
  BY <1>2, <1>4, <1>5 DEF Row

\* An accepted integer fits the field of its ScVal, halves included.
LEMMA IntegerIsStored ==
  ASSUME NEW j, NEW tag \in IntegerTags
  PROVE  IntegerFromJson(j, tag) \subseteq Stored(tag)
<1>1. /\ AsU64(j) \subseteq U64 /\ AsI64(j) \subseteq I64
      /\ AsU128(j) \subseteq U128 /\ AsI128(j) \subseteq I128
  BY Ranges DEF AsU64, AsI64, AsU128, AsI128, Integer, Parsed
<1>2. CASE tag \in {"U128", "I128"}
  BY <1>1, <1>2, HalvesFit DEF IntegerFromJson, Stored
<1>3. CASE tag \notin {"U128", "I128"}
  BY <1>1, <1>3 DEF IntegerFromJson, Stored, IntegerRange, IntegerTags
<1> QED
  BY <1>2, <1>3

\* The types that hold no others.
LEMMA LeafIsTyped ==
  ASSUME NEW kind \in TwoKinds, NEW j \in J(kind), NEW read, NEW t \in SpecTypes,
         t[1] \notin {"Option", "Vec", "Map", "Tuple", "Udt"}
  PROVE  Typed(read, j, t) \subseteq LeafValues(t)
<1>0. /\ j[1] = "str" => j[2] \in Texts
      /\ j[1] = "bool" => j[2] \in BOOLEAN
  BY JsonParts DEF J, TwoKinds, JsonKinds
<1>1. CASE t[1] \in IntegerTags
  <2>1. Typed(read, j, t) = Tagged(t[1], IntegerFromJson(j, t[1]))
    BY <1>1, TypedInteger
  <2>2. LeafValues(t) = {t[1]} \X Stored(t[1])
    BY <1>1 DEF LeafValues, IntegerTags, AddressTypes
  <2> QED
    BY <1>1, <2>1, <2>2, IntegerIsStored DEF Tagged
<1> USE DEF IntegerTags, AddressTypes
<1>2. CASE t[1] = "Bool"
  <2>1. Typed(read, j, t) = IF j[1] = "bool" THEN {<<"Bool", j[2]>>} ELSE {}
    BY <1>2 DEF Typed
  <2>2. LeafValues(t) = {"Bool"} \X BOOLEAN
    BY <1>2 DEF LeafValues
  <2> QED
    BY <1>0, <2>1, <2>2
<1>3. CASE t[1] = "Void"
  BY <1>3 DEF Typed, LeafValues
<1>4. CASE t[1] = "Bytes"
  BY <1>4 DEF Typed, LeafValues, Tagged
<1>5. CASE t[1] = "BytesN"
  BY <1>5 DEF Typed, LeafValues, Tagged
<1>6. CASE t[1] = "String"
  BY <1>0, <1>6 DEF Typed, LeafValues
<1>7. CASE t[1] = "Symbol"
  BY <1>0, <1>7 DEF Typed, LeafValues, Symbol, Symbols
<1>8. CASE t[1] \in AddressTypes
  BY <1>8 DEF Typed, LeafValues, Address, Ids
<1>9. CASE t[1] \notin IntegerTags \cup AddressTypes
                   \cup {"Bool", "Void", "Bytes", "BytesN", "String", "Symbol"}
  BY <1>9 DEF Typed
<1> QED
  BY <1>1, <1>2, <1>3, <1>4, <1>5, <1>6, <1>7, <1>8, <1>9

\* What an object is made of.
LEMMA ObjectParts ==
  ASSUME NEW kind, NEW S, NEW o \in Objects(kind, S)
  PROVE  /\ IsObject(o) /\ Permits(kind, KeysOf(o)) /\ KeysOf(o) \subseteq Texts
         /\ \A m \in o : m = <<m[1], m[2]>> /\ m[1] \in Texts /\ m[2] \in S
BY DEF Objects, KeysOf

\* An object read as a map is a value of the map type: keys in order, and each
\* once unless two of them spell one integer,
LEMMA KeyedMapIsTyped ==
  ASSUME NEW kind \in TwoKinds, NEW read, NEW values, Reads(read, values, kind),
         NEW o \in Objects(kind, J(kind)), NEW t \in SpecTypes, t[1] = "Map",
         t[2][1] \in KeyTypes
  PROVE  MapOf([m \in o |-> KeyFromText(m[1], t[2])], [m \in o |-> read[<<m[2], t[3]>>]])
           \subseteq {"Map"} \X MapEntries(kind, LeafValues(t[2]), values[<<kind, t[3]>>])
<1> DEFINE keys == [m \in o |-> KeyFromText(m[1], t[2])]
           vals == [m \in o |-> read[<<m[2], t[3]>>]]
           V == values[<<kind, t[3]>>]
<1> SUFFICES ASSUME NEW v \in MapOf(keys, vals)
             PROVE  v \in {"Map"} \X MapEntries(kind, LeafValues(t[2]), V)
  OBVIOUS
<1>0. t[3] \in SpecTypes
  BY TypeAssumption
<1>1. /\ IsObject(o) /\ Permits(kind, KeysOf(o)) /\ KeysOf(o) \subseteq Texts
      /\ \A m \in o : m[1] \in Texts /\ m[2] \in J(kind)
  BY ObjectParts
<1>2. /\ DOMAIN keys = o /\ \A m \in o : keys[m] = KeyFromText(m[1], t[2])
      /\ \A m \in o : vals[m] \subseteq V
  BY <1>0, <1>1 DEF Reads
<1> HIDE DEF keys, vals, V
<1>3. PICK order : EntersMap(order, o, t[2], keys, vals) /\ v = <<"Map", EntriesOf(order, keys, vals)>>
  <2>1. KeysBy(keys, o, t[2])
    BY <1>0, <1>1, <1>2 DEF KeysBy
  <2> QED
    BY <2>1, EntriesAscend
<1>4. DOMAIN order = 1..Cardinality(o) /\ Cardinality(o) \in Nat
      /\ \A i \in DOMAIN order : order[i] \in o
  BY <1>1, <1>3, FS_CardinalityType DEF EntersMap, Arranges, IsObject
<1> DEFINE es == EntriesOf(order, keys, vals)
           K == LeafValues(t[2])
<1>5. \A i \in DOMAIN order : The(keys[order[i]]) \in K /\ The(vals[order[i]]) \in V
  BY <1>1, <1>2, <1>3, <1>4, KeyIsLeaf DEF EntersMap
<1>6. DOMAIN es = DOMAIN order
      /\ \A i \in DOMAIN order : es[i] = [key |-> The(keys[order[i]]), val |-> The(vals[order[i]])]
  BY DEF EntriesOf
<1>7. es \in [1..Cardinality(o) -> [key : K, val : V]]
  <2> HIDE DEF K
  <2> QED
    BY <1>4, <1>5 DEF EntriesOf
<1>8. Ascending(kind, es)
  <2>1. Synonyms(KeysOf(o)) => kind = "plain"
    BY <1>1 DEF Permits, TwoKinds
  <2> HIDE DEF es
  <2> QED
    BY <1>3, <1>6, <2>1 DEF EntersMap, Ascending, KeyBeforeOrSame
<1>9. es \in Seq([key : K, val : V])
  <2> HIDE DEF es, K
  <2> QED
    BY <1>4, <1>7, FunctionIsSeq
<1> QED
  BY <1>3, <1>8, <1>9 DEF MapEntries

\* and for keys of other types it is the empty map.
LEMMA MapIsTyped ==
  ASSUME NEW kind \in TwoKinds, NEW read, NEW values, Reads(read, values, kind),
         NEW o \in Objects(kind, J(kind)), NEW t \in SpecTypes, t[1] = "Map"
  PROVE  MapOf([m \in o |-> KeyFromText(m[1], t[2])], [m \in o |-> read[<<m[2], t[3]>>]])
           \subseteq MapValues(values, kind, t)
<1> DEFINE keys == [m \in o |-> KeyFromText(m[1], t[2])]
           vals == [m \in o |-> read[<<m[2], t[3]>>]]
<1>1. CASE t[2][1] \in KeyTypes
  <2>1. MapValues(values, kind, t)
          = {"Map"} \X MapEntries(kind, LeafValues(t[2]), values[<<kind, t[3]>>])
    BY <1>1 DEF MapValues
  <2> QED
    BY <1>1, <2>1, KeyedMapIsTyped
<1>2. CASE t[2][1] \notin KeyTypes
  <2> SUFFICES ASSUME NEW v \in MapOf(keys, vals) PROVE v \in MapValues(values, kind, t)
    OBVIOUS
  <2>1. DOMAIN keys = o /\ \A m \in o : keys[m] # {}
    BY DEF MapOf
  <2>2. \A m \in o : keys[m] = {}
    BY <1>2 DEF KeyFromText, KeyTypes, AddressTypes, IntegerKeyTypes, TextTypes
  <2> HIDE DEF keys, vals
  <2>3. o = {}
    BY <2>1, <2>2
  <2> DEFINE order == Arranged(o, EntryOrder(keys))
  <2>4. v = <<"Map", EntriesOf(order, keys, vals)>>
    BY <2>1, <2>3 DEF MapOf, EntriesOf
  <2>5. Cardinality(o) = 0 /\ IsFiniteSet(o)
    BY <2>3, FS_EmptySet
  <2>6. Arranges(order, o, EntryOrder(keys))
    BY <2>3, <2>5, ArrangedArranges DEF IsOrder
  <2>7. DOMAIN order = 1..0
    BY <2>5, <2>6 DEF Arranges
  <2> HIDE DEF order
  <2>8. EntriesOf(order, keys, vals)
          \in [1..0 -> [key : values[<<kind, t[2]>>], val : values[<<kind, t[3]>>]]]
    BY <2>7 DEF EntriesOf
  <2>9. /\ EntriesOf(order, keys, vals)
             \in Seq([key : values[<<kind, t[2]>>], val : values[<<kind, t[3]>>]])
        /\ DOMAIN EntriesOf(order, keys, vals) = {}
    BY <2>8, FunctionIsSeq
  <2> QED
    BY <1>2, <2>4, <2>9 DEF MapValues
<1> QED
  BY <1>1, <1>2

\* Fields of structs are converted as keys of the type Symbol.
LEMMA SymbolKey == \A text : KeyFromText(text, <<"Symbol">>) = Symbol(text)
BY DEF KeyFromText, AddressTypes, IntegerKeyTypes

\* The members of an object that are fields make the map of a struct: sorted,
\* each field once, each of its own type.
LEMMA FieldsAreTyped ==
  ASSUME NEW kind \in TwoKinds, NEW read, NEW values, Reads(read, values, kind),
         NEW o \in Objects(kind, J(kind)),
         NEW fields, FieldNames(fields) \subseteq Texts,
         \A name \in FieldNames(fields) : TypeOfField(fields, name) \in SpecTypes,
         NEW named \in SUBSET o,
         KeysOf(named) = FieldNames(fields),
         NEW v \in MapOf([m \in named |-> Symbol(m[1])],
                         [m \in named |-> read[<<m[2], TypeOfField(fields, m[1])>>]])
  PROVE  v \in {"Map"} \X
           {es \in MapEntries("distinct", Symbols, ScVal) :
              /\ {es[i].key[2] : i \in DOMAIN es} = FieldNames(fields)
              /\ \A i \in DOMAIN es :
                   es[i].val \in values[<<kind, TypeOfField(fields, es[i].key[2])>>]}
<1> DEFINE keys == [m \in named |-> Symbol(m[1])]
           vals == [m \in named |-> read[<<m[2], TypeOfField(fields, m[1])>>]]
           t == <<"Symbol">>
           Names == FieldNames(fields)
           Of(name) == values[<<kind, TypeOfField(fields, name)>>]
<1>1. /\ IsObject(o) /\ \A m \in o : m[1] \in Texts /\ m[2] \in J(kind)
      /\ named \subseteq o
  BY ObjectParts
<1>2. IsObject(named) /\ KeysOf(named) \subseteq Texts
  BY <1>1, FS_Subset DEF IsObject
<1>3. DOMAIN keys = named /\ \A m \in named : keys[m] = KeyFromText(m[1], t)
  BY SymbolKey
<1>4. \A m \in named : m[1] \in Names /\ vals[m] \subseteq Of(m[1]) /\ Of(m[1]) \subseteq ScVal
  BY <1>1 DEF Reads, KeysOf
<1>5. t[1] \in KeyTypes
  BY DEF KeyTypes, TextTypes
<1>6. v \in MapOf(keys, vals)
  OBVIOUS
<1> HIDE DEF keys, vals, t, Names, Of
<1>7. PICK order : EntersMap(order, named, t, keys, vals) /\ v = <<"Map", EntriesOf(order, keys, vals)>>
  <2>1. KeysBy(keys, named, t)
    BY <1>2, <1>3, <1>5 DEF KeysBy
  <2> QED
    BY <1>6, <2>1, EntriesAscend
<1>8. /\ DOMAIN order = 1..Cardinality(named) /\ Cardinality(named) \in Nat
      /\ \A i \in DOMAIN order : order[i] \in named
      /\ \A m \in named : \E i \in DOMAIN order : order[i] = m
  BY <1>2, <1>7, FS_CardinalityType DEF EntersMap, Arranges, IsObject
<1>9. ASSUME NEW i \in DOMAIN order
      PROVE  /\ The(keys[order[i]]) = <<"Symbol", order[i][1]>>
             /\ The(keys[order[i]]) \in Symbols
             /\ The(vals[order[i]]) \in Of(order[i][1]) /\ The(vals[order[i]]) \in ScVal
  <2>1. The(keys[order[i]]) \in Symbol(order[i][1]) /\ The(vals[order[i]]) \in vals[order[i]]
    BY <1>7, SymbolKey DEF EntersMap, t
  <2>2. order[i][1] \in Texts
    BY <1>1, <1>8
  <2> QED
    BY <1>4, <1>8, <2>1, <2>2 DEF Symbol, Symbols
<1> DEFINE es == EntriesOf(order, keys, vals)
<1>10. DOMAIN es = DOMAIN order
      /\ \A i \in DOMAIN order : es[i] = [key |-> The(keys[order[i]]), val |-> The(vals[order[i]])]
  BY DEF EntriesOf
<1>11. es \in Seq([key : Symbols, val : ScVal])
  <2>1. es \in [1..Cardinality(named) -> [key : Symbols, val : ScVal]]
    BY <1>8, <1>9 DEF EntriesOf
  <2> HIDE DEF es
  <2> QED
    BY <1>8, <2>1, FunctionIsSeq
<1> HIDE DEF es
<1>12. Ascending("distinct", es)
  <2>1. \A i \in DOMAIN order : The(keys[order[i]])[1] \notin IntegerKeyTypes
    BY <1>9 DEF IntegerKeyTypes
  <2> QED
    BY <1>7, <1>10, <2>1 DEF EntersMap, Ascending, KeyBeforeOrSame
<1>13. \A i \in DOMAIN es : es[i].key[2] = order[i][1] /\ es[i].val \in Of(es[i].key[2])
  BY <1>9, <1>10
<1>14. {es[i].key[2] : i \in DOMAIN es} = Names
  <2>1. \A i \in DOMAIN es : es[i].key[2] \in Names
    BY <1>4, <1>8, <1>10, <1>13
  <2>2. \A name \in Names : \E i \in DOMAIN es : es[i].key[2] = name
    <3> SUFFICES ASSUME NEW name \in Names PROVE \E i \in DOMAIN es : es[i].key[2] = name
      OBVIOUS
    <3>1. PICK m \in named : m[1] = name
      BY DEF KeysOf, Names
    <3>2. PICK i \in DOMAIN order : order[i] = m
      BY <1>8
    <3> QED
      BY <1>10, <1>13, <3>1, <3>2
  <2> QED
    BY <2>1, <2>2
<1> QED
  BY <1>7, <1>11, <1>12, <1>13, <1>14 DEF MapEntries, es, Names, Of

\* struct_to_scval returns a value of the struct, as an array or as an object.
LEMMA StructIsTyped ==
  ASSUME NEW kind \in TwoKinds, NEW read, NEW values, Reads(read, values, kind),
         NEW j \in J(kind),
         NEW t \in SpecTypes, t[1] = "Udt", KindOf(t[2]) = "struct",
         NEW fields, fields = Definition("struct", t[2])
  PROVE  StructFromJson(read, fields, j) \subseteq StructValues(values, kind, fields)
<1>0. /\ FieldTypes(fields) \in Seq(SpecTypes) /\ FieldNames(fields) \subseteq Texts
      /\ \A i \in DOMAIN fields : TypeOfField(fields, fields[i][1]) \in SpecTypes
  BY StructParts
<1>3. \A name \in FieldNames(fields) : TypeOfField(fields, name) \in SpecTypes
  BY <1>0 DEF FieldNames
<1>1. CASE IsTupleStruct(fields)
  <2>1. j[1] = "arr" => j[2] \in Seq(J(kind))
    BY JsonParts DEF J, TwoKinds, JsonKinds
  <2>2. j[1] = "arr" => Items(read, j[2], FieldTypes(fields)) \subseteq Row(values, kind, FieldTypes(fields))
    BY <1>0, <2>1, ItemsAreRow
  <2>3. j[1] # "arr" => StructFromJson(read, fields, j) = {}
    BY <1>1 DEF StructFromJson
  <2>4. j[1] = "arr" =>
          StructFromJson(read, fields, j) = Tagged("Vec", Items(read, j[2], FieldTypes(fields)))
    BY <1>1 DEF StructFromJson
  <2>5. StructValues(values, kind, fields) = {"Vec"} \X Row(values, kind, FieldTypes(fields))
    BY <1>1 DEF StructValues
  <2> QED
    BY <2>2, <2>3, <2>4, <2>5 DEF Tagged
<1>2. CASE ~IsTupleStruct(fields)
  <2> DEFINE named == {m \in j[2] : m[1] \in FieldNames(fields)}
             V == StructValues(values, kind, fields)
  <2>1. j[1] = "obj" => j[2] \in Objects(kind, J(kind))
    BY JsonParts DEF J, TwoKinds, JsonKinds
  <2> SUFFICES ASSUME NEW v \in StructFromJson(read, fields, j) PROVE v \in V
    OBVIOUS
  <2>2. /\ j[1] = "obj" /\ KeysOf(named) = FieldNames(fields)
        /\ v \in MapOf([m \in named |-> Symbol(m[1])],
                       [m \in named |-> read[<<m[2], TypeOfField(fields, m[1])>>]])
    BY <1>2 DEF StructFromJson
  <2>3. V = {"Map"} \X
              {es \in MapEntries("distinct", Symbols, ScVal) :
                 /\ {es[i].key[2] : i \in DOMAIN es} = FieldNames(fields)
                 /\ \A i \in DOMAIN es :
                      es[i].val \in values[<<kind, TypeOfField(fields, es[i].key[2])>>]}
    BY <1>2 DEF StructValues
  <2> HIDE DEF V
  <2> QED
    BY <1>0, <1>3, <2>1, <2>2, <2>3, FieldsAreTyped
<1> QED
  BY <1>1, <1>2

\* A union value is written with a text for its case and JSON for its arguments.
LEMMA CaseAndArgsParts ==
  ASSUME NEW kind \in TwoKinds, NEW j \in J(kind), NEW ca \in CaseAndArgs(j)
  PROVE  ca[1] \in Texts /\ ca[2] \in Seq(J(kind))
<1>1. \A m \in J(kind) : ArgsOf(m) \in Seq(J(kind))
  <2> SUFFICES ASSUME NEW m \in J(kind) PROVE ArgsOf(m) \in Seq(J(kind))
    OBVIOUS
  <2>1. m[1] = "arr" => m[2] \in Seq(J(kind))
    BY JsonParts DEF J, TwoKinds, JsonKinds
  <2> QED
    BY <2>1 DEF ArgsOf
<1>2. CASE j[1] = "str"
  <2>1. j[2] \in Texts
    BY <1>2, JsonParts DEF J, TwoKinds, JsonKinds
  <2>2. ca = <<j[2], <<>> >>
    BY <1>2 DEF CaseAndArgs
  <2> QED
    BY <2>1, <2>2
<1>3. CASE j[1] = "obj"
  <2>1. PICK m \in j[2] : ca = <<m[1], ArgsOf(m[2])>>
    BY <1>3 DEF CaseAndArgs
  <2>2. j[2] \in Objects(kind, J(kind))
    BY <1>3, JsonParts DEF J, TwoKinds, JsonKinds
  <2>3. m[1] \in Texts /\ m[2] \in J(kind)
    BY <2>2, ObjectParts
  <2> QED
    BY <1>1, <2>1, <2>3
<1>4. CASE j[1] \notin {"str", "obj"}
  BY <1>4 DEF CaseAndArgs
<1> QED
  BY <1>2, <1>3, <1>4

\* union_to_scval returns a case of the union with the arguments it declares.
LEMMA UnionIsTyped ==
  ASSUME NEW kind \in TwoKinds, NEW read, NEW values, Reads(read, values, kind),
         NEW j \in J(kind),
         NEW t \in SpecTypes, t[1] = "Udt", KindOf(t[2]) = "union"
  PROVE  UnionFromJson(read, t[2], j) \subseteq UnionValues(values, kind, t[2])
<1> SUFFICES ASSUME NEW v \in UnionFromJson(read, t[2], j) PROVE v \in UnionValues(values, kind, t[2])
  OBVIOUS
<1>1. PICK ca \in CaseAndArgs(j) : \E case \in UnionCase(t[2], ca[1]) :
        v \in {<<"Vec", <<sa[1]>> \o sa[2]>> : sa \in Symbol(ca[1]) \X Items(read, ca[2], case.types)}
  BY DEF UnionFromJson
<1>2. PICK case \in UnionCase(t[2], ca[1]) :
        v \in {<<"Vec", <<sa[1]>> \o sa[2]>> : sa \in Symbol(ca[1]) \X Items(read, ca[2], case.types)}
  BY <1>1
<1>3. PICK sym \in Symbol(ca[1]), args \in Items(read, ca[2], case.types) : v = <<"Vec", <<sym>> \o args>>
  BY <1>2
<1>4. ca[1] \in Texts /\ ca[2] \in Seq(J(kind))
  BY CaseAndArgsParts
<1>5. args \in Row(values, kind, case.types)
  BY <1>3, <1>4, UnionParts, ItemsAreRow
<1>6. args \in Seq(ScVal)
  BY <1>5 DEF Row
<1>7. sym \in Symbols /\ sym[2] = ca[1]
  BY <1>3, <1>4 DEF Symbol, Symbols
<1>8. sym \in ScVal
  BY <1>7, SymbolsAreLeaves, ScLeavesAtAllDepths, BoundsAssumption DEF ScVal
<1> DEFINE s == <<sym>> \o args
<1>9. s \in Seq(ScVal) /\ s # <<>> /\ s[1] = sym /\ Tail(s) = args
  BY <1>6, <1>8
<1> HIDE DEF s
<1>10. s \in {r \in Seq(ScVal) :
                /\ r # <<>>
                /\ r[1] \in Symbols
                /\ \E c \in UnionCase(t[2], r[1][2]) : Tail(r) \in Row(values, kind, c.types)}
  BY <1>5, <1>7, <1>9
<1> QED
  BY <1>3, <1>10 DEF UnionValues, s

\* enum_to_scval returns a case; error_enum_to_scval some u32.
LEMMA EnumIsTyped ==
  ASSUME NEW values, NEW kind, NEW read, NEW j, NEW t \in SpecTypes, t[1] = "Udt",
         KindOf(t[2]) \in {"enum", "error_enum"}
  PROVE  UdtFromJson(read, t[2], j) \subseteq UdtValues(values, kind, t[2])
<1>1. CASE KindOf(t[2]) = "enum"
  <2>1. EnumFromJson(t[2], j) \subseteq {"U32"} \X CaseValues("enum", t[2])
    BY <1>1, EnumParts DEF EnumFromJson, Tagged
  <2> QED
    BY <1>1, <2>1 DEF UdtFromJson, UdtValues
<1>2. CASE KindOf(t[2]) = "error_enum"
  <2>1. \A name : EnumCase("error_enum", t[2], name) \subseteq U32
    BY <1>2, EnumParts
  <2>2. ErrorEnumFromJson(t[2], j) \subseteq {"U32"} \X U32
    BY <2>1 DEF ErrorEnumFromJson, Tagged
  <2> QED
    BY <1>2, <2>2 DEF UdtFromJson, UdtValues
<1> QED
  BY <1>1, <1>2

\* One call of json_to_scval, the escape hatch apart.
LEMMA TypedIsTyped ==
  ASSUME NEW kind \in TwoKinds, NEW read, NEW values, Reads(read, values, kind),
         NEW j \in J(kind), NEW t \in SpecTypes
  PROVE  Typed(read, j, t) \subseteq TypeValues(values, kind, t)
<1>1. CASE t[1] \notin {"Option", "Vec", "Map", "Tuple", "Udt"}
  BY <1>1, LeafIsTyped DEF TypeValues
<1> USE DEF IntegerTags, AddressTypes
<1>2. CASE t[1] = "Option"
  <2>1. Typed(read, j, t) \subseteq {<<"Void">>} \cup read[<<j, t[2]>>]
    BY <1>2 DEF Typed
  <2>2. TypeValues(values, kind, t) = {<<"Void">>} \cup values[<<kind, t[2]>>]
    BY <1>2 DEF TypeValues
  <2>3. t[2] \in SpecTypes
    BY <1>2, TypeAssumption
  <2> QED
    BY <2>1, <2>2, <2>3 DEF Reads
<1>3. CASE t[1] = "Vec"
  <2> DEFINE types == [i \in DOMAIN j[2] |-> t[2]]
  <2>1. j[1] # "arr" => Typed(read, j, t) = {}
    BY <1>3 DEF Typed
  <2>2. j[1] = "arr" => Typed(read, j, t) = Tagged("Vec", Items(read, j[2], types))
    BY <1>3 DEF Typed
  <2>3. TypeValues(values, kind, t) = {"Vec"} \X Seq(values[<<kind, t[2]>>])
    BY <1>3 DEF TypeValues
  <2>4. t[2] \in SpecTypes
    BY <1>3, TypeAssumption
  <2>5. ASSUME j[1] = "arr" PROVE Items(read, j[2], types) \subseteq Seq(values[<<kind, t[2]>>])
    <3>1. j[2] \in Seq(J(kind))
      BY <2>5, JsonParts DEF J, TwoKinds, JsonKinds
    <3>2. types \in Seq(SpecTypes) /\ \A i \in 1..Len(types) : types[i] = t[2]
      BY <2>4, <3>1
    <3> HIDE DEF types
    <3>3. \A s \in Row(values, kind, types) : s \in Seq(values[<<kind, t[2]>>])
      <4> SUFFICES ASSUME NEW s \in Row(values, kind, types)
                   PROVE  s \in Seq(values[<<kind, t[2]>>])
        OBVIOUS
      <4>1. s \in Seq(ScVal) /\ \A i \in DOMAIN s : i \in 1..Len(types) /\ s[i] \in values[<<kind, types[i]>>]
        BY <3>2 DEF Row
      <4> QED
        BY <3>2, <4>1, SeqOfElements
    <3> QED
      BY <3>1, <3>2, <3>3, ItemsAreRow
  <2> HIDE DEF types
  <2> QED
    BY <2>1, <2>2, <2>3, <2>5 DEF Tagged
<1>4. CASE t[1] = "Map"
  <2>1. j[1] # "obj" => Typed(read, j, t) = {}
    BY <1>4 DEF Typed
  <2>2. j[1] = "obj" => Typed(read, j, t) =
          MapOf([m \in j[2] |-> KeyFromText(m[1], t[2])], [m \in j[2] |-> read[<<m[2], t[3]>>]])
    BY <1>4 DEF Typed
  <2>3. j[1] = "obj" => j[2] \in Objects(kind, J(kind))
    BY JsonParts DEF J, TwoKinds, JsonKinds
  <2>4. TypeValues(values, kind, t) = MapValues(values, kind, t)
    BY <1>4 DEF TypeValues
  <2> QED
    BY <1>4, <2>1, <2>2, <2>3, <2>4, MapIsTyped
<1>5. CASE t[1] = "Tuple"
  <2>1. Typed(read, j, t) = IF j[1] = "arr" THEN Tagged("Vec", Items(read, j[2], t[2])) ELSE {}
    BY <1>5 DEF Typed
  <2>2. TypeValues(values, kind, t) = {"Vec"} \X Row(values, kind, t[2])
    BY <1>5 DEF TypeValues
  <2>3. t[2] \in Seq(SpecTypes)
    BY <1>5, TypeAssumption
  <2>4. j[1] = "arr" => j[2] \in Seq(J(kind))
    BY JsonParts DEF J, TwoKinds, JsonKinds
  <2>5. j[1] = "arr" => Items(read, j[2], t[2]) \subseteq Row(values, kind, t[2])
    BY <2>3, <2>4, ItemsAreRow
  <2> QED
    BY <2>1, <2>2, <2>5 DEF Tagged
<1>6. CASE t[1] = "Udt"
  <2>0. /\ Typed(read, j, t) = UdtFromJson(read, t[2], j)
        /\ TypeValues(values, kind, t) = UdtValues(values, kind, t[2])
    BY <1>6 DEF Typed, TypeValues
  <2> DEFINE fields == Definition("struct", t[2])
  <2>1. CASE KindOf(t[2]) = "struct"
    <3>1. /\ UdtFromJson(read, t[2], j) = StructFromJson(read, fields, j)
          /\ UdtValues(values, kind, t[2]) = StructValues(values, kind, fields)
      BY <2>1 DEF UdtFromJson, UdtValues
    <3>2. StructFromJson(read, fields, j) \subseteq StructValues(values, kind, fields)
      BY <1>6, <2>1, StructIsTyped
    <3> QED
      BY <2>0, <3>1, <3>2, Zenon
  <2>2. CASE KindOf(t[2]) = "union"
    <3>1. /\ UdtFromJson(read, t[2], j) = UnionFromJson(read, t[2], j)
          /\ UdtValues(values, kind, t[2]) = UnionValues(values, kind, t[2])
      BY <2>2 DEF UdtFromJson, UdtValues
    <3>2. UnionFromJson(read, t[2], j) \subseteq UnionValues(values, kind, t[2])
      BY <1>6, <2>2, UnionIsTyped
    <3> QED
      BY <2>0, <3>1, <3>2, Zenon
  <2>3. CASE KindOf(t[2]) \in {"enum", "error_enum"}
    <3>1. UdtFromJson(read, t[2], j) \subseteq UdtValues(values, kind, t[2])
      BY <1>6, <2>3, EnumIsTyped
    <3> QED
      BY <2>0, <3>1, Zenon
  <2>4. CASE KindOf(t[2]) \notin {"struct", "union", "enum", "error_enum"}
    BY <2>0, <2>4 DEF UdtFromJson
  <2> QED
    BY <2>1, <2>2, <2>3, <2>4
<1> QED
  BY <1>1, <1>2, <1>3, <1>4, <1>5, <1>6

\* JSON of either kind is JSON.
LEMMA KindIsJson == ASSUME NEW kind \in TwoKinds PROVE J(kind) \subseteq Json
BY KindsAreJson DEF J, TwoKinds, PlainJson, DistinctJson

\* JSON of the two kinds has no escape hatch, at any depth.
LEMMA NoEscape == ASSUME NEW kind \in TwoKinds, NEW j \in J(kind) PROVE ~IsEscape(j)
<1>1. j[1] = "obj" => j[2] \in Objects(kind, J(kind))
  BY JsonParts DEF J, TwoKinds, JsonKinds
<1>2. j[1] = "obj" => Permits(kind, KeysOf(j[2]))
  BY <1>1, ObjectParts
<1> QED
  BY <1>2 DEF IsEscape, Permits, TwoKinds

\* What one call of json_to_scval returns, by the calls it makes.
LEMMA ReadingIsAbove ==
  ASSUME NEW n \in Nat, NEW j \in Json, NEW t \in SpecTypes
  PROVE  Reading!Level[n + 1][<<j, t>>] = IF IsEscape(j) THEN Decoded(j[2])
                                          ELSE Typed(Reading!Level[n], j, t)
<1>1. Reading!Level[n + 1] = ReadAbove(Reading!Level[n])
  BY ReadingEquation
<1> DEFINE read == Reading!Level[n]
<1> HIDE DEF read
<1>2. <<j, t>> \in Json \X SpecTypes
  OBVIOUS
<1>3. ReadAbove(read)[<<j, t>>] = IF IsEscape(j) THEN Decoded(j[2]) ELSE Typed(read, j, t)
  BY <1>2 DEF ReadAbove
<1> QED
  BY <1>1, <1>3 DEF read

\* What JSON of a depth converts to has its type, one depth after the other.
LEMMA ReadingIsTyped ==
  ASSUME NEW kind \in TwoKinds
  PROVE  \A n \in Nat : n <= Depth => Reads(Reading!Level[n], ValuesOf!Level[n], kind)
<1>0. Depth \in Nat
  BY BoundsAssumption
<1> DEFINE T == {n \in Nat : n <= Depth => Reads(Reading!Level[n], ValuesOf!Level[n], kind)}
<1>1. ASSUME NEW n \in Nat, n <= Depth, NEW t \in SpecTypes
      PROVE  ValuesOf!Level[n][<<kind, t>>] \subseteq ScVal
  BY <1>0, <1>1, ValuesAreScVals, ScValDepths DEF ScVal
<1>2. 0 \in T
  <2>1. \A j \in J(kind), t \in SpecTypes : <<j, t>> \in Json \X SpecTypes
    BY KindIsJson
  <2>2. \A j \in J(kind), t \in SpecTypes : Reading!Level[0][<<j, t>>] = {}
    BY <2>1, ReadingEquation
  <2> QED
    BY <1>0, <1>1, <2>2 DEF Reads
<1>3. ASSUME NEW n \in Nat, n \in T PROVE n + 1 \in T
  <2> SUFFICES ASSUME n + 1 <= Depth
               PROVE  Reads(Reading!Level[n + 1], ValuesOf!Level[n + 1], kind)
    OBVIOUS
  <2>1. Reads(Reading!Level[n], ValuesOf!Level[n], kind)
    BY <1>0, <1>3
  <2>2. ASSUME NEW j \in J(kind), NEW t \in SpecTypes
        PROVE  Reading!Level[n + 1][<<j, t>>] \subseteq ValuesOf!Level[n + 1][<<kind, t>>]
    <3>1. Reading!Level[n + 1][<<j, t>>] = Typed(Reading!Level[n], j, t)
      BY NoEscape, KindIsJson, ReadingIsAbove
    <3>2. ValuesOf!Level[n + 1][<<kind, t>>] = TypeValues(ValuesOf!Level[n], kind, t)
      BY ValuesAreAbove
    <3>3. Typed(Reading!Level[n], j, t) \subseteq TypeValues(ValuesOf!Level[n], kind, t)
      BY <2>1, TypedIsTyped
    <3> QED
      BY <3>1, <3>2, <3>3
  <2>3. \A t \in SpecTypes : ValuesOf!Level[n + 1][<<kind, t>>] \subseteq ScVal
    BY <1>1
  <2> QED
    BY <2>2, <2>3 DEF Reads
<1> HIDE DEF T
<1>4. Nat \subseteq T
  BY <1>2, <1>3, DepthInduction
<1> QED
  BY <1>4 DEF T

\* No value of another type reaches the contract, whatever the types, the JSON
\* and the depth to which they nest.
THEOREM ArgumentsAreTypedHolds == Spec => []ArgumentsAreTyped
<1>1. Linked => ArgumentsAreTyped
  <2> SUFFICES ASSUME Linked, NEW j \in sent, NEW kind \in TwoKinds, j \in J(kind)
               PROVE  arg \subseteq Values(kind, type)
    BY DEF ArgumentsAreTyped, TwoKinds, J, PlainJson, DistinctJson
  <2>1. type \in SpecTypes /\ arg = FromJson(j, type)
    BY DEF Linked
  <2>2. Reads(Reading!Level[Depth], ValuesOf!Level[Depth], kind)
    BY ReadingIsTyped, BoundsAssumption
  <2> QED
    BY <2>1, <2>2 DEF Reads, FromJson, Values
<1> QED
  BY <1>1, LinkedHolds, PTL

-----------------------------------------------------------------------------
(* Writing: what is written of an ScVal is made of what is written of its   *)
(* parts                                                                   *)

LEMMA ScValsWithin == \A n \in Nat : n <= Depth => ScValOf!Level[n] \subseteq ScVal
BY ScValDepths, BoundsAssumption DEF ScVal

\* What one call of scval_to_json returns, by the calls it makes.
LEMMA WritingIsAbove ==
  ASSUME NEW n \in Nat, NEW v \in ScVal
  PROVE  Writing!Level[n + 1][v] = Written(Writing!Level[n], v)
<1>1. Writing!Level[n + 1] = WriteAbove(Writing!Level[n])
  BY WritingEquation
<1> DEFINE write == Writing!Level[n]
<1> HIDE DEF write
<1>2. WriteAbove(write)[v] = Written(write, v)
  BY DEF WriteAbove
<1> QED
  BY <1>1, <1>2 DEF write

\* The variants of ScVal, one at a time.
LEMMA LeafVariants ==
  ASSUME NEW v \in ScLeaves
  PROVE  \/ v = <<"Void">>
         \/ v[1] = "Bool" /\ v = <<v[1], v[2]>> /\ v[2] \in BOOLEAN
         \/ v[1] \in IntegerTags /\ v = <<v[1], v[2]>> /\ v[2] \in Stored(v[1])
         \/ v[1] = "Bytes" /\ v = <<v[1], v[2]>> /\ v[2] \in Octets
         \/ v[1] \in TextTypes /\ v = <<v[1], v[2]>> /\ v[2] \in Texts
         \/ v[1] = "Address" /\ v = <<v[1], v[2]>> /\ v[2] \in Ids
         \/ v[1] \in {"U256", "I256", "Error"} /\ v = <<v[1], 0>>
<1>1. CASE v \in IntegerLeaves
  BY <1>1 DEF IntegerLeaves
<1>2. CASE v \notin IntegerLeaves
  BY <1>2 DEF ScLeaves
<1> QED
  BY <1>1, <1>2

\* What is written of a leaf needs no further call.
LEMMA LeavesAreWritten ==
  ASSUME NEW v \in ScLeaves, NEW f, NEW g
  PROVE  Written(f, v) = Written(g, v)
<1>1. v[1] \notin {"Vec", "Map"}
  BY LeafVariants DEF IntegerTags, TextTypes
<1> QED
  BY <1>1 DEF Written

\* What is written of an ScVal depends on what is written of its parts only.
LEMMA PartsAreWritten ==
  ASSUME NEW S, NEW v \in ScValsAbove(S), NEW f, NEW g, \A u \in S : f[u] = g[u]
  PROVE  Written(f, v) = Written(g, v)
<1>1. CASE v \in ScLeaves
  BY <1>1, LeavesAreWritten
<1>2. CASE v \in {"Vec"} \X Seq(S)
  <2>1. PICK s \in Seq(S) : v = <<"Vec", s>>
    BY <1>2
  <2>2. \A i \in DOMAIN s : f[s[i]] = g[s[i]]
    BY <2>1, SeqElement
  <2>3. \A w : Written(w, v) = <<"arr", [i \in DOMAIN s |-> w[s[i]]]>>
    BY <2>1 DEF Written, TextTypes
  <2> QED
    BY <2>2, <2>3
<1>3. CASE v \in {"Map"} \X Seq([key : S, val : S])
  <2>1. PICK es \in Seq([key : S, val : S]) : v = <<"Map", es>>
    BY <1>3
  <2>2. \A i \in DOMAIN es : f[es[i].key] = g[es[i].key] /\ f[es[i].val] = g[es[i].val]
    <3> TAKE i \in DOMAIN es
    <3>1. es[i] \in [key : S, val : S]
      BY <2>1, SeqElement
    <3> QED
      BY <3>1
  <2>3. \A w : Written(w, v) = MapToJson(w, es)
    BY <2>1 DEF Written, TextTypes
  <2>4. LastOfText(es) \subseteq DOMAIN es
    BY DEF LastOfText
  <2>5. {<<es[i].key[2], f[es[i].val]>> : i \in LastOfText(es)}
          = {<<es[i].key[2], g[es[i].val]>> : i \in LastOfText(es)}
    BY <2>2, <2>4
  <2>6. MapToJson(f, es) = MapToJson(g, es)
    BY <2>2, <2>5 DEF MapToJson
  <2> QED
    BY <2>3, <2>6
<1> QED
  BY <1>1, <1>2, <1>3 DEF ScValsAbove

\* scval_to_json, one call: the JSON of an ScVal is put together from the JSON
\* of its parts.
LEMMA ToJsonIsWritten ==
  ASSUME NEW v \in ScVal
  PROVE  ToJson(v) = Written(Writing!Level[Depth + 1], v)
<1>0. Depth \in Nat
  BY BoundsAssumption
<1> DEFINE T == {n \in Nat : n <= Depth =>
                   \A u \in ScValOf!Level[n] : Writing!Level[n + 2][u] = Writing!Level[n + 1][u]}
<1>1. 0 \in T
  <2> SUFFICES ASSUME NEW u \in ScValOf!Level[0]
               PROVE  Writing!Level[0 + 2][u] = Writing!Level[0 + 1][u]
    OBVIOUS
  <2>1. u \in ScLeaves /\ u \in ScVal
    BY <1>0, ScValEquation, ScValsWithin
  <2>2. Writing!Level[0 + 1][u] = Written(Writing!Level[0], u)
    BY <2>1, WritingIsAbove
  <2>3. Writing!Level[1 + 1][u] = Written(Writing!Level[1], u)
    BY <2>1, WritingIsAbove
  <2> QED
    BY <2>1, <2>2, <2>3, LeavesAreWritten
<1>2. ASSUME NEW n \in Nat, n \in T PROVE n + 1 \in T
  <2> SUFFICES ASSUME n + 1 <= Depth, NEW u \in ScValOf!Level[n + 1]
               PROVE  Writing!Level[(n + 1) + 2][u] = Writing!Level[(n + 1) + 1][u]
    OBVIOUS
  <2>1. u \in ScVal /\ u \in ScValsAbove(ScValOf!Level[n])
    BY <1>0, ScValsWithin, ScValEquation
  <2>2. \A s \in ScValOf!Level[n] : Writing!Level[n + 2][s] = Writing!Level[n + 1][s]
    BY <1>0, <1>2
  <2>3. Writing!Level[(n + 1) + 1][u] = Written(Writing!Level[n + 1], u)
    BY <2>1, WritingIsAbove
  <2>4. Writing!Level[(n + 2) + 1][u] = Written(Writing!Level[n + 2], u)
    BY <2>1, WritingIsAbove
  <2>5. Written(Writing!Level[n + 2], u) = Written(Writing!Level[n + 1], u)
    BY <2>1, <2>2, PartsAreWritten
  <2>6. (n + 1) + 2 = (n + 2) + 1
    OBVIOUS
  <2> QED
    BY <2>3, <2>4, <2>5, <2>6
<1> HIDE DEF T
<1>3. Nat \subseteq T
  BY <1>1, <1>2, DepthInduction
<1>4. Writing!Level[Depth + 2][v] = Writing!Level[Depth + 1][v]
  BY <1>0, <1>3 DEF T, ScVal
<1>5. Writing!Level[(Depth + 1) + 1][v] = Written(Writing!Level[Depth + 1], v)
  BY <1>0, WritingIsAbove
<1>6. (Depth + 1) + 1 = Depth + 2
  BY <1>0
<1> QED
  BY <1>4, <1>5, <1>6 DEF ToJson

-----------------------------------------------------------------------------
(* Reading back what was written                                           *)

\* Every integer that a type holds is read back from what it is written as.
LEMMA IntegerReadsBack ==
  ASSUME NEW tag \in IntegerTags, NEW x \in Stored(tag), NEW write
  PROVE  IntegerFromJson(Written(write, <<tag, x>>), tag) = {x}
<1> DEFINE v == <<tag, x>>
           j == Written(write, v)
<1>0. \A n \in I128 \cup U128 : <<Decimal(n), n>> \in Numerals
  BY DEF Numerals
<1>1. \A n \in I128 \cup U128 : \A native, range :
        Integer(Text(Decimal(n)), native, range) = {n} \cap range
  <2> TAKE n \in I128 \cup U128
  <2> TAKE native, range
  <2>1. Parsed(Decimal(n), range) = {n} \cap range
    BY <1>0, NumeralIsRead
  <2> QED
    BY <2>1 DEF Integer, Text
<1>2. CASE tag \in {"U32", "I32"}
  <2>1. j = <<"num", x>>
    BY <1>2 DEF Written, TextTypes
  <2>2. \A range : Integer(j, range, range) = {x} \cap range
    BY <2>1 DEF Integer
  <2>3. x \in IntegerRange(tag)
    BY <1>2 DEF Stored
  <2> QED
    BY <1>2, <2>2, <2>3, Ranges DEF IntegerFromJson, AsU64, AsI64, IntegerRange
<1>3. CASE tag \in {"U64", "I64", "Timepoint", "Duration"}
  <2>1. j = Text(Decimal(x))
    BY <1>3 DEF Written, TextTypes
  <2>2. x \in IntegerRange(tag)
    BY <1>3 DEF Stored
  <2>3. x \in I128 \cup U128
    BY <1>3, <2>2, Ranges DEF IntegerRange
  <2>4. \A native, range : Integer(j, native, range) = {x} \cap range
    BY <1>1, <2>1, <2>3
  <2> QED
    BY <1>3, <2>2, <2>4 DEF IntegerFromJson, AsU64, AsI64, IntegerRange
<1>4. CASE tag \in {"U128", "I128"}
  <2>1. j = Text(Decimal(FromParts(x)))
    BY <1>4 DEF Written, TextTypes
  <2>2. FromParts(x) \in IntegerRange(tag) /\ ToParts(FromParts(x)) = x
    BY <1>4, HalvesSeparate DEF Stored, IntegerRange
  <2>3. FromParts(x) \in I128 \cup U128
    BY <1>4, <2>2 DEF IntegerRange
  <2>4. \A native, range : Integer(j, native, range) = {FromParts(x)} \cap range
    BY <1>1, <2>1, <2>3
  <2>5. IntegerFromJson(j, tag) = {ToParts(n) : n \in {FromParts(x)} \cap IntegerRange(tag)}
    BY <1>4, <2>4 DEF IntegerFromJson, AsU128, AsI128, IntegerRange
  <2> QED
    BY <2>2, <2>5
<1> QED
  BY <1>2, <1>3, <1>4 DEF IntegerTags

\* A value of a type without parts is read back: halves, bytes, texts, strkeys.
LEMMA LeafReadsBack ==
  ASSUME NEW t, t[1] \notin {"U256", "I256", "Error"}, NEW v \in LeafValues(t),
         t[1] \notin {"Option", "Vec", "Map", "Tuple", "Udt"},
         NEW read, NEW write
  PROVE  Typed(read, Written(write, v), t) = {v}
<1> DEFINE j == Written(write, v)
<1>1. CASE t[1] \in IntegerTags
  <2>1. PICK x \in Stored(t[1]) : v = <<t[1], x>>
    BY <1>1 DEF LeafValues, IntegerTags, AddressTypes
  <2>2. IntegerFromJson(j, t[1]) = {x}
    BY <1>1, <2>1, IntegerReadsBack
  <2>3. Typed(read, j, t) = Tagged(t[1], IntegerFromJson(j, t[1]))
    BY <1>1, TypedInteger
  <2> QED
    BY <2>1, <2>2, <2>3 DEF Tagged
<1> USE DEF IntegerTags, AddressTypes, TextTypes, Text
<1>2. CASE t[1] = "Bool"
  <2>1. PICK b \in BOOLEAN : v = <<"Bool", b>>
    BY <1>2 DEF LeafValues
  <2>2. j = <<"bool", b>>
    BY <2>1 DEF Written
  <2>3. Typed(read, j, t) = {<<"Bool", j[2]>>}
    BY <1>2, <2>2 DEF Typed
  <2> QED
    BY <2>1, <2>2, <2>3
<1>3. CASE t[1] = "Void"
  BY <1>3 DEF LeafValues, Typed
<1>4. CASE t[1] \in {"Bytes", "BytesN"}
  <2>1. PICK b \in Octets : v = <<"Bytes", b>> /\ (t[1] = "BytesN" => Len(b) = t[2])
    BY <1>4 DEF LeafValues
  <2>2. j = <<"str", HexOf(b)>>
    BY <2>1 DEF Written
  <2>3. BytesFromJson(j) = {b}
    BY <2>1, <2>2, HexAssumption DEF BytesFromJson
  <2>4. Typed(read, j, t) = Tagged("Bytes", {b})
    BY <1>4, <2>1, <2>3 DEF Typed
  <2> QED
    BY <2>1, <2>4 DEF Tagged
<1>5. CASE t[1] = "String"
  <2>1. PICK s \in Texts : v = <<"String", s>>
    BY <1>5 DEF LeafValues
  <2>2. j = <<"str", s>>
    BY <2>1 DEF Written
  <2> QED
    BY <1>5, <2>1, <2>2 DEF Typed
<1>6. CASE t[1] = "Symbol"
  <2>1. PICK s \in Texts \ LongTexts : v = <<"Symbol", s>>
    BY <1>6 DEF LeafValues, Symbols
  <2>2. j = <<"str", s>>
    BY <2>1 DEF Written
  <2> QED
    BY <1>6, <2>1, <2>2 DEF Typed, Symbol
<1>7. CASE t[1] \in AddressTypes
  <2>1. PICK a \in Ids : v = <<"Address", a>>
    BY <1>7 DEF LeafValues
  <2>2. j = <<"str", AddressText(a)>>
    BY <2>1 DEF Written
  <2>3. AddressText(a) \in DOMAIN Strkeys /\ Strkeys[AddressText(a)] = a
    BY <2>1 DEF AddressText, Ids
  <2>4. Typed(read, j, t) = Address(AddressText(a))
    BY <1>7, <2>2 DEF Typed
  <2> QED
    BY <2>1, <2>3, <2>4 DEF Address
<1>8. CASE t[1] \notin IntegerTags \cup AddressTypes
                   \cup {"Bool", "Void", "Bytes", "BytesN", "String", "Symbol"}
  BY <1>8 DEF LeafValues
<1> QED
  BY <1>1, <1>2, <1>3, <1>4, <1>5, <1>6, <1>7, <1>8

\* The only result is the one taken.
LEMMA TheOne == \A x : The({x}) = x
BY DEF The

\* Each item is read as the element of s in its place.
ReadsEach(read, items, types, s) ==
  /\ Len(items) = Len(s) /\ Len(types) = Len(s)
  /\ \A i \in DOMAIN s : read[<<items[i], types[i]>>] = {s[i]}

\* A sequence whose elements read back reads back.
LEMMA ItemsReadBack ==
  ASSUME NEW S, NEW s \in Seq(S), NEW read, NEW items, NEW types, ReadsEach(read, items, types, s)
  PROVE  Items(read, items, types) = {s}
<1> USE DEF ReadsEach
<1> DEFINE results == [i \in 1..Len(types) |-> read[<<items[i], types[i]>>]]
<1>1. DOMAIN s = 1..Len(types)
  OBVIOUS
<1>2. DOMAIN results = DOMAIN s /\ \A i \in DOMAIN s : results[i] = {s[i]}
  BY <1>1
<1>3. Items(read, items, types) = Collected(results)
  BY DEF Items
<1> HIDE DEF results
<1>4. Collected(results) = {[i \in DOMAIN results |-> The(results[i])]}
  BY <1>2 DEF Collected
<1>5. \A i \in DOMAIN results : The(results[i]) = s[i]
  BY <1>2, TheOne
<1>6. [i \in DOMAIN results |-> The(results[i])] = [i \in DOMAIN s |-> s[i]]
  BY <1>2, <1>5
<1>7. s = [i \in DOMAIN s |-> s[i]]
  OBVIOUS
<1> QED
  BY <1>3, <1>4, <1>6, <1>7

\* The object o has a member for each entry, and it is read as the entry.
ReadsEntries(es, o, member, keys, vals) ==
  /\ member \in [DOMAIN es -> o]
  /\ \A m \in o : \E i \in DOMAIN es : member[i] = m
  /\ DOMAIN keys = o
  /\ \A i \in DOMAIN es :
       /\ member[i][1] = es[i].key[2]
       /\ keys[member[i]] = {es[i].key}
       /\ vals[member[i]] = {es[i].val}

\* The sort puts the members of the object back in the order of the entries.
LEMMA MembersReadBack ==
  ASSUME NEW t, t[1] \in TextTypes, NEW V, NEW es \in MapEntries("distinct", LeafValues(t), V),
         NEW o, NEW member, NEW keys, NEW vals, ReadsEntries(es, o, member, keys, vals)
  PROVE  MapOf(keys, vals) = {<<"Map", es>>}
<1> USE DEF ReadsEntries
<1> DEFINE N == Len(es)
           K == LeafValues(t)
<1>1. N \in Nat /\ DOMAIN es = 1..N /\ es \in Seq([key : K, val : V])
  BY DEF MapEntries
<1>2. \A i \in 1..N : es[i] \in [key : K, val : V]
  BY <1>1, SeqElement
<1>3. \A k \in K : k = <<t[1], k[2]>> /\ k[2] \in Texts
  BY DEF LeafValues, Symbols, TextTypes, AddressTypes, IntegerTags
<1>4. \A i, k \in 1..N : i < k => KeyBefore(es[i].key, es[k].key)
  BY <1>1 DEF MapEntries, Ascending, KeyBeforeOrSame
<1>5. t[1] \in KeyTypes
  BY DEF KeyTypes
<1>6. \A i, k \in 1..N : member[i][1] = member[k][1] => i = k
  <2> SUFFICES ASSUME NEW i \in 1..N, NEW k \in 1..N, es[i].key[2] = es[k].key[2], i < k
               PROVE  FALSE
    BY <1>1
  <2> HIDE DEF K
  <2>0. es[i].key \in K /\ es[k].key \in K
    BY <1>2
  <2>1. es[i].key = es[k].key /\ es[i].key \in K
    BY <1>3, <2>0
  <2> QED
    BY <1>4, <1>5, <2>1, KeysAreOrdered DEF K
<1> HIDE DEF K
<1>7. member \in Bijection(1..N, o)
  <2> HIDE DEF N
  <2>1. member \in [1..N -> o]
    BY <1>1
  <2>2. member \in Injection(1..N, o)
    BY <1>6, <2>1 DEF Injection, IsInjective
  <2>3. member \in Surjection(1..N, o)
    BY <1>1, <2>1 DEF Surjection
  <2> QED
    BY <2>2, <2>3 DEF Bijection
<1>8. IsFiniteSet(1..N) /\ Cardinality(1..N) = N
  <2> HIDE DEF N
  <2>1. N \in Int /\ 1 \in Int
    BY <1>1
  <2>2. IsFiniteSet(1..N) /\ Cardinality(1..N) = IF 1 > N THEN 0 ELSE N - 1 + 1
    BY <2>1, FS_Interval, Zenon
  <2> QED
    BY <1>1, <2>2
<1>9. IsFiniteSet(o) /\ Cardinality(o) = N
  BY <1>7, <1>8, FS_Bijection DEF ExistsBijection
<1>10. IsObject(o) /\ KeysOf(o) \subseteq Texts
  <2>1. \A m \in o : m[1] \in Texts
    BY <1>1, <1>2, <1>3
  <2>2. \A a, b \in o : a[1] = b[1] => a = b
    BY <1>1, <1>6
  <2> QED
    BY <1>9, <2>1, <2>2 DEF IsObject, KeysOf
<1>11. \A m \in o : keys[m] \subseteq K /\ keys[m] # {} /\ vals[m] # {}
  <2> TAKE m \in o
  <2>1. PICK i \in 1..N : member[i] = m
    BY <1>1
  <2>2. keys[m] = {es[i].key} /\ vals[m] = {es[i].val} /\ es[i].key \in K
    BY <1>1, <1>2, <2>1
  <2> QED
    BY <2>2
<1>12. IsOrder(EntryOrder(keys), o)
  <2>1. DOMAIN keys = o
    OBVIOUS
  <2> HIDE DEF ReadsEntries
  <2> QED
    BY <1>5, <1>10, <1>11, <2>1, EntryOrderIsOrder DEF K
<1>13. Arranges(member, o, EntryOrder(keys))
  <2>1. member \in [1..N -> o]
    BY <1>7 DEF Bijection, Injection
  <2>2. ASSUME NEW i \in 1..N, NEW k \in 1..N, i < k
        PROVE  <<member[i], member[k]>> \in EntryOrder(keys)
    <3>1. The(keys[member[i]]) = es[i].key /\ The(keys[member[k]]) = es[k].key
      BY <1>1, TheOne
    <3>2. member[i] \in o /\ member[k] \in o
      BY <1>1
    <3> QED
      BY <1>4, <2>2, <3>1, <3>2 DEF EntryOrder
  <2> QED
    BY <1>1, <1>9, <2>1, <2>2 DEF Arranges
<1>14. Arranged(o, EntryOrder(keys)) = member
  BY <1>9, <1>12, <1>13, ArrangedArranges, ArrangementIsUnique
<1>15. MapOf(keys, vals) = {<<"Map", EntriesOf(member, keys, vals)>>}
  BY <1>11, <1>14 DEF MapOf, EntriesOf
<1>16. EntriesOf(member, keys, vals) = es
  <2>1. \A i \in 1..N : The(keys[member[i]]) = es[i].key /\ The(vals[member[i]]) = es[i].val
    BY <1>1, TheOne
  <2>2. \A i \in 1..N : es[i] = [key |-> es[i].key, val |-> es[i].val]
    BY <1>2
  <2>3. EntriesOf(member, keys, vals) = [i \in 1..N |-> es[i]]
    BY <1>1, <2>1, <2>2 DEF EntriesOf
  <2>4. es = [i \in 1..N |-> es[i]]
    BY <1>1
  <2> QED
    BY <2>3, <2>4
<1> QED
  BY <1>15, <1>16

Write == Writing!Level[Depth + 1]

\* What of the values of some types is read back, when it has no escape hatch.
ReadsBackOf(read, values, types) ==
  \A t \in types : \A v \in values[<<"distinct", t>>] :
    v \in ScVal /\ (Write[v] \in PlainJson => read[<<Write[v], t>>] = {v})

\* scval_to_json unfolds at every ScVal of the depth: no call is cut off.
LEMMA WriteIsWritten == ASSUME NEW v \in ScVal PROVE Write[v] = Written(Write, v)
BY ToJsonIsWritten DEF ToJson, Write

\* Only the void is written as null, so an option that holds a value keeps it.
LEMMA NullIsVoid == ASSUME NEW v \in ScVal, Write[v] = Null PROVE v = <<"Void">>
<1>1. Written(Write, v) = Null
  BY WriteIsWritten
<1>2. PICK m \in Nat : Depth = m + 1
  BY DepthIsAbove
<1>3. v \in ScValsAbove(ScValOf!Level[m])
  BY <1>2, ScValEquation DEF ScVal
<1>4. v \in ScLeaves \/ v[1] \in {"Vec", "Map"}
  BY <1>3 DEF ScValsAbove
<1>5. \/ v = <<"Void">>
      \/ v[1] \in {"Bool", "Bytes", "Address", "U256", "I256", "Error", "Vec", "Map"}
                    \cup IntegerTags \cup TextTypes
  BY <1>4, LeafVariants
<1> SUFFICES ASSUME v[1] \in {"Bool", "Bytes", "Address", "U256", "I256", "Error", "Vec", "Map"}
                               \cup IntegerTags \cup TextTypes
             PROVE  Written(Write, v)[1] # "null"
  BY <1>1, <1>5 DEF Null
<1>6. CASE v[1] \in IntegerTags \cup TextTypes \cup {"Bool", "Bytes", "Address"}
  BY <1>6 DEF Written, Text, IntegerTags, TextTypes
<1>7. CASE v[1] \in {"U256", "I256", "Error", "Vec"}
  BY <1>7 DEF Written, TextTypes
<1>8. CASE v[1] = "Map"
  <2>1. Written(Write, v) = MapToJson(Write, v[2])
    BY <1>8 DEF Written, TextTypes
  <2> QED
    BY <2>1 DEF MapToJson
<1> QED
  BY <1>6, <1>7, <1>8

\* A map with texts for keys is written as an object, and no member replaces
\* another.
LEMMA TextMapIsWritten ==
  ASSUME NEW t, t[1] \in TextTypes, NEW V, NEW es \in MapEntries("distinct", LeafValues(t), V)
  PROVE  Written(Write, <<"Map", es>>)
           = <<"obj", {<<es[i].key[2], Write[es[i].val]>> : i \in DOMAIN es}>>
<1> DEFINE K == LeafValues(t)
           N == Len(es)
<1>1. N \in Nat /\ DOMAIN es = 1..N /\ es \in Seq([key : K, val : V])
  BY DEF MapEntries
<1>2. \A i \in 1..N : es[i] \in [key : K, val : V]
  BY <1>1, SeqElement
<1>3. \A k \in K : k = <<t[1], k[2]>>
  BY DEF LeafValues, Symbols, TextTypes, AddressTypes, IntegerTags
<1>4. \A i, k \in 1..N : i < k => KeyBefore(es[i].key, es[k].key)
  BY <1>1 DEF MapEntries, Ascending, KeyBeforeOrSame
<1>5. \A k \in K : ~KeyBefore(k, k)
  BY KeysAreOrdered DEF KeyTypes
<1> HIDE DEF K, N
<1>6. \A i \in 1..N : es[i].key \in K /\ es[i].key[1] = t[1]
  BY <1>2, <1>3
<1>7. AllStringKeys(es)
  BY <1>1, <1>6 DEF AllStringKeys
<1>8. LastOfText(es) = DOMAIN es
  <2> SUFFICES ASSUME NEW i \in 1..N, NEW k \in 1..N, es[k].key[2] = es[i].key[2], i < k
               PROVE  FALSE
    BY <1>1 DEF LastOfText
  <2>1. es[k].key = es[i].key
    BY <1>3, <1>6
  <2> QED
    BY <1>4, <1>5, <1>6, <2>1
<1>9. Written(Write, <<"Map", es>>) = MapToJson(Write, es)
  BY DEF Written, TextTypes
<1> QED
  BY <1>7, <1>8, <1>9 DEF MapToJson

\* The array written of one value per type reads back.
LEMMA RowReadsBack ==
  ASSUME NEW read, NEW values, NEW types, ReadsBackOf(read, values, types),
         NEW ts \in Seq(types), NEW s \in Row(values, "distinct", ts),
         <<"arr", [i \in DOMAIN s |-> Write[s[i]]]>> \in PlainJson
  PROVE  Items(read, [i \in DOMAIN s |-> Write[s[i]]], ts) = {s}
<1> DEFINE items == [i \in DOMAIN s |-> Write[s[i]]]
           j == <<"arr", items>>
<1>1. s \in Seq(ScVal) /\ Len(s) = Len(ts) /\ \A i \in DOMAIN s : s[i] \in values[<<"distinct", ts[i]>>]
  BY DEF Row
<1>2. \A i \in DOMAIN s : ts[i] \in types
  BY <1>1
<1>3. "plain" \in JsonKinds /\ PlainJson = JsonOf!Level[Depth]["plain"]
  BY DEF JsonKinds, PlainJson
<1>4. j \in PlainJson /\ j[1] = "arr" /\ j[2] = items
  OBVIOUS
<1>5. DOMAIN items = DOMAIN s /\ Len(items) = Len(s) /\ \A i \in DOMAIN s : items[i] = Write[s[i]]
  BY <1>1
<1> HIDE DEF items, j
<1>6. items \in Seq(PlainJson)
  BY <1>3, <1>4, JsonParts
<1>7. \A i \in DOMAIN s : Write[s[i]] \in PlainJson
  BY <1>5, <1>6, SeqElement
<1>8. \A i \in DOMAIN s : read[<<items[i], ts[i]>>] = {s[i]}
  BY <1>1, <1>2, <1>5, <1>7 DEF ReadsBackOf
<1>9. ReadsEach(read, items, ts, s)
  BY <1>1, <1>5, <1>8 DEF ReadsEach
<1>10. Items(read, items, ts) = {s}
  BY <1>1, <1>9, ItemsReadBack
<1> QED
  BY <1>10 DEF items

\* o is what the entries are written as, and vals what their values are read as.
IsMembersOf(o, es) ==
  /\ \A i \in DOMAIN es : <<es[i].key[2], Write[es[i].val]>> \in o
  /\ \A m \in o : \E i \in DOMAIN es : m = <<es[i].key[2], Write[es[i].val]>>

ReadsVals(vals, es) ==
  \A i \in DOMAIN es : vals[<<es[i].key[2], Write[es[i].val]>>] = {es[i].val}

\* An object with the members of a map is sorted back into that map: the order
\* of its texts does not matter.
LEMMA ObjectReadsBack ==
  ASSUME NEW t, t[1] \in TextTypes, NEW V, NEW es \in MapEntries("distinct", LeafValues(t), V),
         NEW o, IsMembersOf(o, es),
         NEW vals, ReadsVals(vals, es)
  PROVE  MapOf([m \in o |-> KeyFromText(m[1], t)], vals) = {<<"Map", es>>}
<1> DEFINE member == [i \in DOMAIN es |-> <<es[i].key[2], Write[es[i].val]>>]
           keys == [m \in o |-> KeyFromText(m[1], t)]
           K == LeafValues(t)
<1>1. /\ member \in [DOMAIN es -> o]
      /\ \A m \in o : \E i \in DOMAIN es : member[i] = m
      /\ \A i \in DOMAIN es : member[i] \in o /\ member[i][1] = es[i].key[2]
      /\ \A i \in DOMAIN es : vals[member[i]] = {es[i].val}
  BY DEF IsMembersOf, ReadsVals
<1>2. \A k \in K : KeyFromText(k[2], t) = {k}
  BY DEF LeafValues, Symbols, KeyFromText, Symbol, TextTypes, AddressTypes, IntegerTags, IntegerKeyTypes
<1>3. \A i \in DOMAIN es : es[i].key \in K
  <2> HIDE DEF K
  <2> TAKE i \in DOMAIN es
  <2>1. es[i] \in [key : K, val : V]
    BY SeqElement DEF MapEntries, K
  <2> QED
    BY <2>1
<1>4. DOMAIN keys = o /\ \A m \in o : keys[m] = KeyFromText(m[1], t)
  OBVIOUS
<1> HIDE DEF member, keys, K
<1>5. \A i \in DOMAIN es : keys[member[i]] = {es[i].key}
  <2> TAKE i \in DOMAIN es
  <2>1. keys[member[i]] = KeyFromText(es[i].key[2], t)
    BY <1>1, <1>4
  <2> QED
    BY <1>2, <1>3, <2>1
<1>6. ReadsEntries(es, o, member, keys, vals)
  BY <1>1, <1>4, <1>5 DEF ReadsEntries
<1>7. MapOf(keys, vals) = {<<"Map", es>>}
  BY <1>6, MembersReadBack
<1> QED
  BY <1>7 DEF keys

\* What the members of a written object hold is JSON without the escape hatch.
LEMMA MembersArePlain ==
  ASSUME NEW o, <<"obj", o>> \in PlainJson, NEW m \in o
  PROVE  m[2] \in PlainJson
<1>1. "plain" \in JsonKinds /\ PlainJson = JsonOf!Level[Depth]["plain"]
  BY DEF JsonKinds, PlainJson
<1> DEFINE j == <<"obj", o>>
<1>2. j \in PlainJson /\ j[1] = "obj" /\ j[2] = o
  OBVIOUS
<1> HIDE DEF j
<1>3. o \in Objects("plain", PlainJson)
  BY <1>1, <1>2, JsonParts
<1> QED
  BY <1>3, ObjectParts

\* A vector is written as an array.
LEMMA VecIsWritten ==
  \A s : Written(Write, <<"Vec", s>>) = <<"arr", [i \in DOMAIN s |-> Write[s[i]]]>>
BY DEF Written, TextTypes

\* A map of values that read back reads back.
LEMMA MapReadsBack ==
  ASSUME NEW read, NEW values, NEW types, ReadsBackOf(read, values, types),
         NEW key, key[1] \in TextTypes, NEW u \in types,
         NEW es \in MapEntries("distinct", LeafValues(key), values[<<"distinct", u>>]),
         NEW o, IsMembersOf(o, es),
         \A m \in o : m[2] \in PlainJson
  PROVE  MapOf([m \in o |-> KeyFromText(m[1], key)], [m \in o |-> read[<<m[2], u>>]])
           = {<<"Map", es>>}
<1> DEFINE vals == [m \in o |-> read[<<m[2], u>>]]
<1>1. ASSUME NEW i \in DOMAIN es PROVE vals[<<es[i].key[2], Write[es[i].val]>>] = {es[i].val}
  <2> DEFINE m == <<es[i].key[2], Write[es[i].val]>>
  <2>1. es[i] \in [key : LeafValues(key), val : values[<<"distinct", u>>]]
    BY SeqElement DEF MapEntries
  <2>2. es[i].val \in values[<<"distinct", u>>]
    BY <2>1
  <2>3. m \in o /\ m[2] = Write[es[i].val]
    BY DEF IsMembersOf
  <2>4. m[2] \in PlainJson
    BY <2>3
  <2>5. read[<<Write[es[i].val], u>>] = {es[i].val}
    BY <2>2, <2>3, <2>4 DEF ReadsBackOf
  <2> QED
    BY <2>3, <2>5
<1> HIDE DEF vals
<1>2. ReadsVals(vals, es)
  BY <1>1 DEF ReadsVals
<1>3. MapOf([m \in o |-> KeyFromText(m[1], key)], vals) = {<<"Map", es>>}
  BY <1>2, ObjectReadsBack
<1> QED
  BY <1>3 DEF vals

\* The fields of a struct read back, each by its own type.
LEMMA FieldsReadBack ==
  ASSUME NEW read, NEW values, NEW types, ReadsBackOf(read, values, types),
         NEW fields,
         \A name \in FieldNames(fields) : TypeOfField(fields, name) \in types,
         NEW es \in MapEntries("distinct", Symbols, ScVal),
         \A i \in DOMAIN es : /\ es[i].key[2] \in FieldNames(fields)
                              /\ es[i].val \in values[<<"distinct", TypeOfField(fields, es[i].key[2])>>],
         NEW o, IsMembersOf(o, es),
         \A m \in o : m[2] \in PlainJson
  PROVE  MapOf([m \in o |-> Symbol(m[1])],
               [m \in o |-> read[<<m[2], TypeOfField(fields, m[1])>>]])
           = {<<"Map", es>>}
<1> DEFINE vals == [m \in o |-> read[<<m[2], TypeOfField(fields, m[1])>>]]
           t == <<"Symbol">>
<1>1. ASSUME NEW i \in DOMAIN es PROVE vals[<<es[i].key[2], Write[es[i].val]>>] = {es[i].val}
  <2> DEFINE m == <<es[i].key[2], Write[es[i].val]>>
             u == TypeOfField(fields, es[i].key[2])
  <2>1. u \in types /\ es[i].val \in values[<<"distinct", u>>]
    OBVIOUS
  <2>2. m \in o /\ m[1] = es[i].key[2] /\ m[2] = Write[es[i].val]
    BY DEF IsMembersOf
  <2>3. m[2] \in PlainJson
    BY <2>2
  <2> HIDE DEF u
  <2>4. read[<<Write[es[i].val], u>>] = {es[i].val}
    BY <2>1, <2>2, <2>3 DEF ReadsBackOf
  <2>5. vals[m] = read[<<m[2], TypeOfField(fields, m[1])>>]
    BY <2>2
  <2> QED
    BY <2>2, <2>4, <2>5 DEF u
<1>2. LeafValues(t) = Symbols /\ t[1] \in TextTypes
  BY DEF LeafValues, AddressTypes, IntegerTags, TextTypes
<1>3. [m \in o |-> Symbol(m[1])] = [m \in o |-> KeyFromText(m[1], t)]
  BY SymbolKey
<1> HIDE DEF vals, t
<1>4. ReadsVals(vals, es)
  BY <1>1 DEF ReadsVals
<1>5. MapOf([m \in o |-> KeyFromText(m[1], t)], vals) = {<<"Map", es>>}
  BY <1>2, <1>4, ObjectReadsBack
<1> QED
  BY <1>3, <1>5 DEF vals

\* The object written of a map has the map's members.
LEMMA ObjectOfEntries ==
  ASSUME NEW es, NEW o, o = {<<es[i].key[2], Write[es[i].val]>> : i \in DOMAIN es}
  PROVE  IsMembersOf(o, es)
BY DEF IsMembersOf

\* A struct reads back from the array or the object it was written as.
LEMMA StructReadsBack ==
  ASSUME NEW read, NEW values, NEW types \in SUBSET SpecTypes, ReadsBackOf(read, values, types),
         NEW t \in SpecTypes, t[1] = "Udt", KindOf(t[2]) = "struct",
         NEW fields, fields = Definition("struct", t[2]),
         \A i \in DOMAIN fields : fields[i][2] \in types,
         NEW v \in StructValues(values, "distinct", fields), v \in ScVal, Write[v] \in PlainJson
  PROVE  StructFromJson(read, fields, Write[v]) = {v}
<1>0. /\ FieldTypes(fields) \in Seq(types)
      /\ \A name \in FieldNames(fields) : TypeOfField(fields, name) \in types
  <2>1. /\ FieldTypes(fields) \in Seq(SpecTypes)
        /\ \A i \in DOMAIN fields : TypeOfField(fields, fields[i][1]) = fields[i][2]
    BY StructParts
  <2>2. \A i \in DOMAIN FieldTypes(fields) : FieldTypes(fields)[i] \in types
    BY DEF FieldTypes
  <2>3. FieldTypes(fields) \in Seq(types)
    BY <2>1, <2>2, SeqOfElements
  <2> QED
    BY <2>1, <2>3 DEF FieldNames
<1>1. CASE IsTupleStruct(fields)
  <2>1. PICK s \in Row(values, "distinct", FieldTypes(fields)) : v = <<"Vec", s>>
    BY <1>1 DEF StructValues
  <2> DEFINE items == [i \in DOMAIN s |-> Write[s[i]]]
  <2>2. Write[v] = <<"arr", items>>
    BY <2>1, VecIsWritten, WriteIsWritten
  <2>3. Items(read, items, FieldTypes(fields)) = {s}
    BY <1>0, <2>2, RowReadsBack
  <2> HIDE DEF items
  <2>4. StructFromJson(read, fields, Write[v]) = Tagged("Vec", Items(read, items, FieldTypes(fields)))
    BY <1>1, <2>2 DEF StructFromJson
  <2> QED
    BY <2>1, <2>3, <2>4 DEF Tagged
<1>2. CASE ~IsTupleStruct(fields)
  <2> DEFINE Names == FieldNames(fields)
  <2>1. PICK es \in MapEntries("distinct", Symbols, ScVal) :
          /\ v = <<"Map", es>>
          /\ {es[i].key[2] : i \in DOMAIN es} = Names
          /\ \A i \in DOMAIN es :
               es[i].val \in values[<<"distinct", TypeOfField(fields, es[i].key[2])>>]
    BY <1>2 DEF StructValues
  <2> DEFINE o == {<<es[i].key[2], Write[es[i].val]>> : i \in DOMAIN es}
             sym == <<"Symbol">>
  <2>2. LeafValues(sym) = Symbols /\ sym[1] \in TextTypes
    BY DEF LeafValues, AddressTypes, IntegerTags, TextTypes
  <2>3. IsMembersOf(o, es)
    BY ObjectOfEntries
  <2> HIDE DEF sym
  <2>4. Written(Write, <<"Map", es>>) = <<"obj", o>>
    BY <2>2, TextMapIsWritten
  <2>5. Write[v] = <<"obj", o>>
    BY <2>1, <2>4, WriteIsWritten
  <2> HIDE DEF o, Names
  <2>6. \A m \in o : m[2] \in PlainJson
    BY <2>5, MembersArePlain
  <2>7. \A i \in DOMAIN es : es[i].key[2] \in Names
    BY <2>1
  <2>8. (\A m \in o : m[1] \in Names) /\ KeysOf(o) = Names
    <3>1. \A m \in o : m[1] \in Names
      BY <2>3, <2>7 DEF IsMembersOf
    <3>2. \A name \in Names : \E m \in o : m[1] = name
      BY <2>1, <2>3 DEF IsMembersOf
    <3> QED
      BY <3>1, <3>2 DEF KeysOf
  <2>9. MapOf([m \in o |-> Symbol(m[1])],
              [m \in o |-> read[<<m[2], TypeOfField(fields, m[1])>>]]) = {<<"Map", es>>}
    BY <1>0, <2>1, <2>3, <2>6, <2>7, FieldsReadBack DEF Names
  <2>10. {m \in o : m[1] \in Names} = o
    BY <2>8
  <2>11. StructFromJson(read, fields, <<"obj", o>>)
           = MapOf([m \in o |-> Symbol(m[1])],
                   [m \in o |-> read[<<m[2], TypeOfField(fields, m[1])>>]])
    BY <1>2, <2>8, <2>10 DEF StructFromJson, Names
  <2> QED
    BY <2>1, <2>5, <2>9, <2>11
<1> QED
  BY <1>1, <1>2

\* The number of an enum case reads back.
LEMMA EnumReadsBack ==
  ASSUME NEW read, NEW values, NEW t \in SpecTypes, t[1] = "Udt",
         KindOf(t[2]) \in {"enum", "error_enum"}, NEW v \in UdtValues(values, "distinct", t[2])
  PROVE  UdtFromJson(read, t[2], Written(Write, v)) = {v}
<1>1. CASE KindOf(t[2]) = "enum"
  <2>1. PICK x \in CaseValues("enum", t[2]) : v = <<"U32", x>>
    BY <1>1 DEF UdtValues
  <2>2. Written(Write, v) = <<"num", x>> /\ x \in U32
    BY <1>1, <2>1, EnumParts DEF Written, TextTypes
  <2> QED
    BY <1>1, <2>1, <2>2 DEF UdtFromJson, EnumFromJson, Tagged
<1>2. CASE KindOf(t[2]) = "error_enum"
  <2>1. PICK x \in U32 : v = <<"U32", x>>
    BY <1>2 DEF UdtValues
  <2>2. Written(Write, v) = <<"num", x>>
    BY <2>1 DEF Written, TextTypes
  <2> QED
    BY <1>2, <2>1, <2>2 DEF UdtFromJson, ErrorEnumFromJson, Tagged
<1> QED
  BY <1>1, <1>2

\* One call of json_to_scval on what was written.
LEMMA TypedReadsBack ==
  ASSUME NEW read, NEW values, NEW types \in SUBSET SpecTypes, ReadsBackOf(read, values, types),
         NEW t \in SameBothWays(types),
         NEW v \in TypeValues(values, "distinct", t), v \in ScVal, Write[v] \in PlainJson
  PROVE  Typed(read, Write[v], t) = {v}
<1>0. t \in types /\ t \in SpecTypes /\ Write[v] = Written(Write, v)
  BY WriteIsWritten DEF SameBothWays
<1>1. CASE t[1] = "Option"
  <2>1. t[2] \in types
    BY <1>1 DEF SameBothWays
  <2>2. v = <<"Void">> \/ v \in values[<<"distinct", t[2]>>]
    BY <1>1 DEF TypeValues
  <2>3. Typed(read, Write[v], t)
          = IF Write[v] = Null THEN {<<"Void">>} ELSE read[<<Write[v], t[2]>>]
    BY <1>1 DEF Typed, IntegerTags, AddressTypes
  <2>4. v = <<"Void">> => Write[v] = Null
    BY <1>0 DEF Written, TextTypes
  <2> QED
    BY <2>1, <2>2, <2>3, <2>4, NullIsVoid DEF ReadsBackOf
<1>2. CASE t[1] = "Vec"
  <2>1. t[2] \in types
    BY <1>2 DEF SameBothWays
  <2>2. PICK s \in Seq(values[<<"distinct", t[2]>>]) : v = <<"Vec", s>>
    BY <1>2 DEF TypeValues
  <2> DEFINE items == [i \in DOMAIN s |-> Write[s[i]]]
             ts == [i \in DOMAIN items |-> t[2]]
  <2>3. ts \in Seq(types) /\ Len(ts) = Len(s) /\ \A i \in DOMAIN s : ts[i] = t[2]
    BY <2>1
  <2> HIDE DEF ts
  <2>4. \A i \in DOMAIN s : s[i] \in values[<<"distinct", t[2]>>]
    BY SeqElement
  <2>5. s \in Seq(ScVal)
    BY <2>1, <2>4, SeqOfElements DEF ReadsBackOf
  <2>6. s \in Row(values, "distinct", ts)
    BY <2>3, <2>4, <2>5 DEF Row
  <2>7. Write[v] = <<"arr", items>>
    BY <1>0, <2>2, VecIsWritten
  <2>8. Items(read, items, ts) = {s}
    <3>1. <<"arr", items>> \in PlainJson /\ ts \in Seq(types)
      BY <2>3, <2>7
    <3> QED
      BY <2>6, <3>1, RowReadsBack
  <2> HIDE DEF items
  <2>9. Typed(read, Write[v], t) = Tagged("Vec", Items(read, items, ts))
    BY <1>2, <2>7 DEF Typed, IntegerTags, AddressTypes, ts
  <2> QED
    BY <2>2, <2>8, <2>9 DEF Tagged
<1>3. CASE t[1] = "Map"
  <2>1. t[2][1] \in TextTypes /\ t[3] \in types
    BY <1>3 DEF SameBothWays
  <2>2. PICK es \in MapEntries("distinct", LeafValues(t[2]), values[<<"distinct", t[3]>>]) :
          v = <<"Map", es>>
    BY <1>3, <2>1 DEF TypeValues, MapValues, KeyTypes
  <2> DEFINE o == {<<es[i].key[2], Write[es[i].val]>> : i \in DOMAIN es}
  <2>3. IsMembersOf(o, es)
    BY ObjectOfEntries
  <2>4. Written(Write, <<"Map", es>>) = <<"obj", o>>
    BY <2>1, TextMapIsWritten
  <2>5. Write[v] = <<"obj", o>>
    BY <1>0, <2>2, <2>4
  <2> HIDE DEF o
  <2>6. \A m \in o : m[2] \in PlainJson
    BY <2>5, MembersArePlain
  <2>7. MapOf([m \in o |-> KeyFromText(m[1], t[2])], [m \in o |-> read[<<m[2], t[3]>>]])
          = {<<"Map", es>>}
    BY <2>1, <2>3, <2>6, MapReadsBack
  <2>8. Typed(read, <<"obj", o>>, t)
          = MapOf([m \in o |-> KeyFromText(m[1], t[2])], [m \in o |-> read[<<m[2], t[3]>>]])
    BY <1>3 DEF Typed, IntegerTags, AddressTypes
  <2> QED
    BY <2>2, <2>5, <2>7, <2>8
<1>4. CASE t[1] = "Tuple"
  <2>1. t[2] \in Seq(SpecTypes) /\ \A i \in DOMAIN t[2] : t[2][i] \in types
    BY <1>0, <1>4, TypeAssumption DEF SameBothWays
  <2>2. t[2] \in Seq(types)
    BY <2>1, SeqOfElements
  <2>3. PICK s \in Row(values, "distinct", t[2]) : v = <<"Vec", s>>
    BY <1>4 DEF TypeValues
  <2> DEFINE items == [i \in DOMAIN s |-> Write[s[i]]]
  <2>4. Write[v] = <<"arr", items>>
    BY <1>0, <2>3, VecIsWritten
  <2>5. Items(read, items, t[2]) = {s}
    BY <2>2, <2>4, RowReadsBack
  <2> HIDE DEF items
  <2>6. Typed(read, Write[v], t) = Tagged("Vec", Items(read, items, t[2]))
    BY <1>4, <2>4 DEF Typed, IntegerTags, AddressTypes
  <2> QED
    BY <2>3, <2>5, <2>6 DEF Tagged
<1>5. CASE t[1] = "Udt"
  <2>0. /\ v \in UdtValues(values, "distinct", t[2])
        /\ Typed(read, Write[v], t) = UdtFromJson(read, t[2], Write[v])
    BY <1>5 DEF Typed, TypeValues, IntegerTags, AddressTypes
  <2> DEFINE fields == Definition("struct", t[2])
  <2>1. \/ KindOf(t[2]) \in {"enum", "error_enum"}
        \/ KindOf(t[2]) = "struct" /\ \A i \in DOMAIN fields : fields[i][2] \in types
    BY <1>5 DEF SameBothWays
  <2>2. CASE KindOf(t[2]) \in {"enum", "error_enum"}
    <3>1. UdtFromJson(read, t[2], Written(Write, v)) = {v}
      <4>1. t \in SpecTypes /\ v \in UdtValues(values, "distinct", t[2])
        BY <1>0, <2>0
      <4> QED
        BY <1>5, <2>2, <4>1, EnumReadsBack
    <3> QED
      BY <1>0, <2>0, <3>1
  <2>3. CASE KindOf(t[2]) = "struct"
    <3>1. UdtFromJson(read, t[2], Write[v]) = StructFromJson(read, fields, Write[v])
      BY <2>3 DEF UdtFromJson
    <3>2. v \in StructValues(values, "distinct", fields)
      BY <2>0, <2>3 DEF UdtValues
    <3>3. \A i \in DOMAIN fields : fields[i][2] \in types
      BY <2>1, <2>3
    <3>4. StructFromJson(read, fields, Write[v]) = {v}
      BY <1>0, <1>5, <2>3, <3>2, <3>3, StructReadsBack
    <3> QED
      BY <2>0, <3>1, <3>4
  <2> QED
    BY <2>1, <2>2, <2>3
<1>6. CASE t[1] \notin {"Option", "Vec", "Map", "Tuple", "Udt"}
  <2>1. t[1] \notin {"U256", "I256", "Error"}
    BY <1>6 DEF SameBothWays
  <2>2. v \in LeafValues(t)
    BY <1>6 DEF TypeValues
  <2> QED
    BY <1>0, <1>6, <2>1, <2>2, LeafReadsBack
<1> QED
  BY <1>1, <1>2, <1>3, <1>4, <1>5, <1>6

\* Types that are written as they are read are types of the contract.
LEMMA ReadableTypes ==
  \A n \in Nat : ReadableOf!Level[n] \subseteq SpecTypes
<1> DEFINE T == {n \in Nat : ReadableOf!Level[n] \subseteq SpecTypes}
<1>1. 0 \in T
  BY ReadableEquation
<1>2. ASSUME NEW n \in Nat, n \in T PROVE n + 1 \in T
  BY <1>2, ReadableEquation DEF SameBothWays
<1> HIDE DEF T
<1>3. Nat \subseteq T
  BY <1>1, <1>2, DepthInduction
<1> QED
  BY <1>3 DEF T

\* The induction: at every depth, a value of a type that is written as it is
\* read converts back from what is written of it.
LEMMA WrittenReadsBack ==
  \A n \in Nat : n <= Depth =>
    ReadsBackOf(Reading!Level[n], ValuesOf!Level[n], ReadableOf!Level[n])
<1>0. Depth \in Nat
  BY BoundsAssumption
<1> DEFINE Holds(n) == ReadsBackOf(Reading!Level[n], ValuesOf!Level[n], ReadableOf!Level[n])
           T == {n \in Nat : n <= Depth => Holds(n)}
<1>1. 0 \in T
  <2>1. \A t \in ReadableOf!Level[0] : ValuesOf!Level[0][<<"distinct", t>>] = {}
    BY ValuesEquation, ReadableEquation
  <2> QED
    BY <2>1 DEF ReadsBackOf
<1>2. ASSUME NEW n \in Nat, n \in T PROVE n + 1 \in T
  <2> SUFFICES ASSUME n + 1 <= Depth, NEW t \in ReadableOf!Level[n + 1],
                      NEW v \in ValuesOf!Level[n + 1][<<"distinct", t>>]
               PROVE  /\ v \in ScVal
                      /\ Write[v] \in PlainJson => Reading!Level[n + 1][<<Write[v], t>>] = {v}
    BY DEF ReadsBackOf
  <2>1. Holds(n)
    BY <1>0, <1>2
  <2>2. t \in SpecTypes /\ t \in SameBothWays(ReadableOf!Level[n])
    BY ReadableTypes, ReadableEquation
  <2>3. v \in TypeValues(ValuesOf!Level[n], "distinct", t)
    BY <2>2, ValuesAreAbove DEF TwoKinds
  <2>4. v \in ScVal
    BY <2>2, ValuesAreScVals, ScValsWithin DEF TwoKinds
  <2>5. ASSUME Write[v] \in PlainJson PROVE Reading!Level[n + 1][<<Write[v], t>>] = {v}
    <3>1. Write[v] \in J("plain") /\ "plain" \in TwoKinds
      BY <2>5 DEF PlainJson, J, TwoKinds
    <3>2. Write[v] \in Json /\ ~IsEscape(Write[v])
      BY <3>1, KindIsJson, NoEscape
    <3>3. Reading!Level[n + 1][<<Write[v], t>>] = Typed(Reading!Level[n], Write[v], t)
      BY <2>2, <3>2, ReadingIsAbove
    <3>4. ReadableOf!Level[n] \in SUBSET SpecTypes
      BY ReadableTypes
    <3>5. Typed(Reading!Level[n], Write[v], t) = {v}
      BY <2>1, <2>2, <2>3, <2>4, <2>5, <3>4, TypedReadsBack
    <3> QED
      BY <3>3, <3>5
  <2> QED
    BY <2>4, <2>5
<1> HIDE DEF T
<1>3. Nat \subseteq T
  BY <1>1, <1>2, DepthInduction
<1> QED
  BY <1>3 DEF T

\* An answer of a type that is written the way it is read, sent back, is the
\* value the contract returned, whatever the types and the depth of the value.
THEOREM RepliesReadBackHolds == Spec => []RepliesReadBack
<1>1. Linked => RepliesReadBack
  <2> SUFFICES ASSUME Linked, WrittenAsRead(type), sent \subseteq PlainJson,
                      NEW v \in returned, NEW j \in sent
               PROVE  arg = {v}
    BY DEF RepliesReadBack, ReadsBack
  <2>1. v \in Values("distinct", type) /\ reply = {ToJson(v)} /\ sent = reply
    BY DEF Linked
  <2>2. j = Write[v] /\ j \in PlainJson
    BY <2>1 DEF ToJson, Write
  <2>3. arg = FromJson(j, type)
    BY DEF Linked
  <2>4. ReadsBackOf(Reading!Level[Depth], ValuesOf!Level[Depth], ReadableOf!Level[Depth])
    BY WrittenReadsBack, BoundsAssumption
  <2>5. Reading!Level[Depth][<<Write[v], type>>] = {v}
    BY <2>1, <2>2, <2>4 DEF ReadsBackOf, Values, WrittenAsRead
  <2> QED
    BY <2>2, <2>3, <2>5 DEF FromJson
<1> QED
  BY <1>1, LinkedHolds, PTL
=============================================================================
