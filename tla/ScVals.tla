------------------------------- MODULE ScVals -------------------------------
(***************************************************************************)
(* scval.rs: from the JSON a caller sends to the ScVal a contract expects, *)
(* by the type the contract's spec gives, and from the ScVal a contract    *)
(* returns to the JSON of the answer, by the value alone.                  *)
(*                                                                         *)
(* A JSON value is a tuple that starts with its kind: <<"null">>,          *)
(* <<"bool", b>>, <<"num", n>>, <<"frac">> (a number with a fraction),     *)
(* <<"str", text>>, <<"arr", sequence>>, <<"obj", set of members>> with    *)
(* members <<key, value>>, and <<"xdr", v>>, the serde form of the ScVal   *)
(* v.  An ScVal starts with its variant.  A conversion returns the set of  *)
(* its result, empty when it fails.                                        *)
(***************************************************************************)
EXTENDS Halves, ContractSpec, FiniteSets

CONSTANTS
  SpecTypes,   \* the types of the contract, with the types they are made of
  Depth,       \* bound: how deep JSON, ScVals and types may nest
  MaxBytes,    \* the longest ScBytes
  TextRank,    \* the order of texts, a function from all texts to Nat
  LongTexts,   \* texts of more than 32 bytes
  Decimal(_),  \* an integer's to_string
  Aliases,     \* other numerals that str::parse reads, as <<text, integer>>
  HexTexts,    \* what hex::decode reads, after the prefix: texts to bytes
  HexOf(_),    \* "0x" and hex::encode of a sequence of bytes
  Strkeys      \* account and contract strkeys: texts to <<kind, key>>

Texts  == DOMAIN TextRank
Octets == UNION {[1..n -> U8] : n \in 0..MaxBytes}
Ids    == {Strkeys[text] : text \in DOMAIN Strkeys}

IntegerRange(tag) ==
  CASE tag = "U32" -> U32 [] tag = "I32" -> I32
    [] tag \in {"U64", "Timepoint", "Duration"} -> U64
    [] tag = "I64" -> I64 [] tag = "U128" -> U128 [] tag = "I128" -> I128

IntegerTags == {"U32", "I32", "U64", "I64", "Timepoint", "Duration",
                "U128", "I128"}

\* What an ScVal of an integer type holds: halves, for the widest.
Stored(tag) ==
  CASE tag = "U128" -> [hi : U64, lo : U64]
    [] tag = "I128" -> [hi : I64, lo : U64]
    [] OTHER        -> IntegerRange(tag)

\* Every numeral of an integer that some type holds; what else a text may say
\* is refused by all of them.
Numerals == {<<Decimal(n), n>> : n \in I128 \cup U128} \cup Aliases

\* The types of the keys that json_key_to_scval takes.
IntegerKeyTypes == {"U32", "I32", "U64", "I64"}
TextTypes       == {"Symbol", "String"}
AddressTypes    == {"Address", "MuxedAddress"}
KeyTypes        == IntegerKeyTypes \cup TextTypes \cup AddressTypes \cup {"Bool"}

\* What the constants stand for makes these true of the code: texts have one
\* order, a numeral one integer, an address one strkey, and hex::decode undoes
\* hex::encode.
ASSUME BoundsAssumption == Depth \in Nat \ {0} /\ MaxBytes \in Nat

ASSUME TextAssumption ==
  /\ {"note", "256-bit value", "error"} \subseteq Texts
  /\ \A a \in Texts : TextRank[a] \in Nat
  /\ \A a, b \in Texts : TextRank[a] = TextRank[b] => a = b

ASSUME NumeralAssumption ==
  /\ \A p, q \in Numerals : p[1] = q[1] => p[2] = q[2]
  /\ \A p \in Numerals : p[1] \in Texts /\ p[2] \in Int

ASSUME HexAssumption ==
  \A b \in Octets : /\ HexOf(b) \in Texts \cap DOMAIN HexTexts
                    /\ HexTexts[HexOf(b)] = b

ASSUME StrkeyAssumption ==
  /\ DOMAIN Strkeys \subseteq Texts
  /\ \A a \in DOMAIN Strkeys : Strkeys[a] \in {"Account", "Contract"} \X Nat
  /\ \A a, b \in DOMAIN Strkeys : Strkeys[a] = Strkeys[b] => a = b

\* The fields of a struct have names of their own.
AreFields(fields) ==
  /\ fields \in Seq(Texts \X SpecTypes)
  /\ \A i, k \in DOMAIN fields : fields[i][1] = fields[k][1] => i = k

\* A contract's types are made of its types.
ASSUME TypeAssumption ==
  \A t \in SpecTypes :
    /\ t[1] \in {"Option", "Vec"} => t[2] \in SpecTypes
    /\ t[1] = "Map" => {t[2], t[3]} \subseteq SpecTypes
    /\ t[1] = "Tuple" => t[2] \in Seq(SpecTypes)
    /\ t[1] = "Udt" =>
         LET kind == KindOf(t[2])
             body == Definition(kind, t[2])
         IN  /\ kind = "struct" => AreFields(body)
             /\ kind = "union" => body \in Seq([name : Texts, types : Seq(SpecTypes)])
             /\ kind \in {"enum", "error_enum"} => body \in Seq(Texts \X U32)

-----------------------------------------------------------------------------
(* JSON and ScVals, up to the depth                                        *)

KeysOf(object) == {m[1] : m \in object}

\* Two of the keys are numerals of one integer.
Synonyms(keys) ==
  \E p, q \in {p \in Numerals : p[1] \in keys} : p # q /\ p[2] = q[2]

\* A key occurs once: serde_json keeps the last of its members.
IsObject(members) ==
  IsFiniteSet(members) /\ \A a, b \in members : a[1] = b[1] => a = b

\* Any JSON; JSON that uses the escape hatch nowhere; and of that, JSON with
\* no object that spells one integer in two ways.
JsonKinds == {"any", "plain", "distinct"}

Permits(kind, keys) ==
  CASE kind = "any"      -> TRUE
    [] kind = "plain"    -> "__xdr" \notin keys
    [] kind = "distinct" -> "__xdr" \notin keys /\ ~Synonyms(keys)

Objects(kind, S) ==
  {o \in SUBSET (Texts \X S) : IsObject(o) /\ Permits(kind, KeysOf(o))}

IntegerLeaves == UNION {{tag} \X Stored(tag) : tag \in IntegerTags}

ScLeaves ==
  {<<"Void">>} \cup ({"Bool"} \X BOOLEAN) \cup IntegerLeaves
  \cup ({"Bytes"} \X Octets) \cup (TextTypes \X Texts)
  \cup ({"Address"} \X Ids) \cup ({"U256", "I256", "Error"} \X {0})

ScValsAbove(S) ==
  ScLeaves \cup ({"Vec"} \X Seq(S)) \cup ({"Map"} \X Seq([key : S, val : S]))

ScValOf == INSTANCE Levels WITH Bottom <- ScLeaves, Above <- ScValsAbove
ScVal   == ScValOf!Level[Depth]

JsonLeaves ==
  {<<"null">>, <<"frac">>} \cup ({"bool"} \X BOOLEAN) \cup ({"num"} \X Int)
  \cup ({"str"} \X Texts) \cup ({"xdr"} \X ScVal)

JsonAbove(json) ==
  [kind \in JsonKinds |->
     JsonLeaves \cup ({"arr"} \X Seq(json[kind]))
                \cup ({"obj"} \X Objects(kind, json[kind]))]

JsonOf == INSTANCE Levels WITH
  Bottom <- [kind \in JsonKinds |-> JsonLeaves], Above <- JsonAbove
Json         == JsonOf!Level[Depth]["any"]
PlainJson    == JsonOf!Level[Depth]["plain"]
DistinctJson == JsonOf!Level[Depth]["distinct"]

Null    == <<"null">>
Text(t) == <<"str", t>>

-----------------------------------------------------------------------------
(* Reading: leaves                                                         *)

Tagged(tag, results) == {<<tag, v>> : v \in results}

The(results) == CHOOSE v \in results : TRUE

\* The results of a sequence of conversions, when none failed.
Collected(results) ==
  IF \E i \in DOMAIN results : results[i] = {} THEN {}
  ELSE {[i \in DOMAIN results |-> The(results[i])]}

\* str::parse.
Parsed(text, range) == {p[2] : p \in {q \in Numerals : q[1] = text}} \cap range

\* A JSON number is read in the native range, a string as a numeral of the
\* type itself.
Integer(j, native, range) ==
  CASE j[1] = "num" -> {j[2]} \cap native
    [] j[1] = "str" -> Parsed(j[2], range)
    [] OTHER        -> {}

\* as_u64, as_i64, as_u128, as_i128.
AsU64(j)  == Integer(j, U64, U64)
AsI64(j)  == Integer(j, I64, I64)
AsU128(j) == Integer(j, U64, U128)
AsI128(j) == Integer(j, I64, I128)

IntegerFromJson(j, tag) ==
  CASE tag = "U32"  -> AsU64(j) \cap U32
    [] tag = "I32"  -> AsI64(j) \cap I32
    [] tag \in {"U64", "Timepoint", "Duration"} -> AsU64(j)
    [] tag = "I64"  -> AsI64(j)
    [] tag = "U128" -> {ToParts(n) : n \in AsU128(j)}
    [] tag = "I128" -> {ToParts(n) : n \in AsI128(j)}

BytesFromJson(j) ==
  CASE j[1] = "str" -> IF j[2] \in DOMAIN HexTexts THEN {HexTexts[j[2]]} ELSE {}
    [] j[1] = "arr" -> Collected([i \in DOMAIN j[2] |->
                         IF j[2][i][1] = "num" THEN {j[2][i][2]} \cap U8 ELSE {}])
    [] OTHER        -> {}

Symbol(text)  == IF text \in LongTexts THEN {} ELSE {<<"Symbol", text>>}
Address(text) ==
  IF text \in DOMAIN Strkeys THEN {<<"Address", Strkeys[text]>>} ELSE {}

EnumFromJson(name, j) ==
  CASE j[1] = "num" ->
         Tagged("U32", {j[2]} \cap U32 \cap CaseValues("enum", name))
    [] j[1] = "str" -> Tagged("U32", EnumCase("enum", name, j[2]))
    [] OTHER        -> {}

\* An integer is not looked up among the cases.
ErrorEnumFromJson(name, j) ==
  CASE j[1] = "num" -> Tagged("U32", {j[2]} \cap U32)
    [] j[1] = "str" -> Tagged("U32", EnumCase("error_enum", name, j[2]))
    [] OTHER        -> {}

-----------------------------------------------------------------------------
(* Reading: maps                                                           *)

\* json_key_to_scval: map keys are texts, whatever the type of the key.
KeyFromText(text, type) ==
  CASE type[1] = "Symbol" -> Symbol(text)
    [] type[1] = "String" -> {<<"String", text>>}
    [] type[1] \in AddressTypes -> Address(text)
    [] type[1] = "Bool"   -> IF text \in {"true", "false"}
                             THEN {<<"Bool", text = "true">>} ELSE {}
    [] type[1] \in IntegerKeyTypes ->
         Tagged(type[1], Parsed(text, IntegerRange(type[1])))
    [] OTHER -> {}

\* The order of ScVal, between keys of one type.
KeyBefore(a, b) ==
  CASE a[1] = "Bool" -> ~a[2] /\ b[2]
    [] a[1] \in TextTypes -> TextRank[a[2]] < TextRank[b[2]]
    [] a[1] = "Address" ->
         \/ a[2][1] = "Account" /\ b[2][1] = "Contract"
         \/ a[2][1] = b[2][1] /\ a[2][2] < b[2][2]
    [] OTHER -> a[2] < b[2]

\* The sequence of the elements of S in the order R.
Arranged(S, R) ==
  CHOOSE s \in [1..Cardinality(S) -> S] :
    /\ \A x \in S : \E i \in DOMAIN s : s[i] = x
    /\ \A i, k \in DOMAIN s : i < k => <<s[i], s[k]>> \in R

\* A plausible slip: entries in the order in which the object holds them.
EntryOrder_AsGiven(keys) ==
  {p \in (DOMAIN keys) \X (DOMAIN keys) : TextRank[p[1][1]] < TextRank[p[2][1]]}

\* sort_by key is stable, and the members of an object are ordered by text.
EntryOrder(keys) ==
  {p \in (DOMAIN keys) \X (DOMAIN keys) :
     LET a == The(keys[p[1]])
         b == The(keys[p[2]])
     IN  KeyBefore(a, b) \/ (a = b /\ TextRank[p[1][1]] < TextRank[p[2][1]])}

\* A map from what the members of an object convert to: keys and vals are
\* functions from the members to results.
MapOf(keys, vals) ==
  IF \E m \in DOMAIN keys : keys[m] = {} \/ vals[m] = {} THEN {}
  ELSE LET order == Arranged(DOMAIN keys, EntryOrder(keys))
       IN  {<<"Map", [i \in DOMAIN order |->
                        [key |-> The(keys[order[i]]), val |-> The(vals[order[i]])]]>>}

-----------------------------------------------------------------------------
(* Reading: all types, with read for what is nested                        *)

IsEscape(j) == j[1] = "obj" /\ "__xdr" \in KeysOf(j[2])

\* serde_json::from_value: whatever ScVal the caller spells out.
Decoded(members) ==
  UNION {IF m[2][1] = "xdr" THEN {m[2][2]} ELSE {} :
           m \in {m \in members : m[1] = "__xdr"}}

\* One conversion per item, when there are as many items as types.
Items(read, items, types) ==
  IF Len(items) # Len(types) THEN {}
  ELSE Collected([i \in 1..Len(types) |-> read[<<items[i], types[i]>>]])

\* The fields are named 0, 1, 2...: the struct is written as an array.
IsTupleStruct(fields) ==
  /\ fields # <<>>
  /\ \A i \in DOMAIN fields : fields[i][1] = Decimal(i - 1)

FieldTypes(fields) == [i \in DOMAIN fields |-> fields[i][2]]
FieldNames(fields) == {fields[i][1] : i \in DOMAIN fields}

TypeOfField(fields, name) ==
  fields[CHOOSE i \in DOMAIN fields : fields[i][1] = name][2]

StructFromJson(read, fields, j) ==
  CASE IsTupleStruct(fields) /\ j[1] = "arr" ->
         Tagged("Vec", Items(read, j[2], FieldTypes(fields)))
    [] ~IsTupleStruct(fields) /\ j[1] = "obj" ->
         LET named == {m \in j[2] : m[1] \in FieldNames(fields)}
         IN  IF KeysOf(named) # FieldNames(fields) THEN {}
             ELSE MapOf([m \in named |-> Symbol(m[1])],
                        [m \in named |-> read[<<m[2], TypeOfField(fields, m[1])>>]])
    [] OTHER -> {}

ArgsOf(j) ==
  CASE j[1] = "arr"  -> j[2]
    [] j[1] = "null" -> <<>>
    [] OTHER         -> <<j>>

\* The case name and the arguments a union value is written with.
CaseAndArgs(j) ==
  CASE j[1] = "str" -> {<<j[2], <<>>>>}
    [] j[1] = "obj" -> {<<m[1], ArgsOf(m[2])>> : m \in {m \in j[2] : j[2] = {m}}}
    [] OTHER        -> {}

UnionFromJson(read, name, j) ==
  UNION {UNION {{<<"Vec", <<sa[1]>> \o sa[2]>> :
                   sa \in Symbol(ca[1]) \X Items(read, ca[2], case.types)} :
                  case \in UnionCase(name, ca[1])} : ca \in CaseAndArgs(j)}

UdtFromJson(read, name, j) ==
  CASE KindOf(name) = "struct" -> StructFromJson(read, Definition("struct", name), j)
    [] KindOf(name) = "union"      -> UnionFromJson(read, name, j)
    [] KindOf(name) = "enum"       -> EnumFromJson(name, j)
    [] KindOf(name) = "error_enum" -> ErrorEnumFromJson(name, j)
    [] OTHER                       -> {}

\* json_to_scval by the type.
Typed(read, j, type) ==
  CASE type[1] = "Bool" -> IF j[1] = "bool" THEN {<<"Bool", j[2]>>} ELSE {}
    [] type[1] = "Void" -> {<<"Void">>}
    [] type[1] \in IntegerTags -> Tagged(type[1], IntegerFromJson(j, type[1]))
    [] type[1] = "Bytes" -> Tagged("Bytes", BytesFromJson(j) \cap Octets)
    [] type[1] = "BytesN" ->
         Tagged("Bytes", {b \in BytesFromJson(j) \cap Octets : Len(b) = type[2]})
    [] type[1] = "String" -> IF j[1] = "str" THEN {<<"String", j[2]>>} ELSE {}
    [] type[1] = "Symbol" -> IF j[1] = "str" THEN Symbol(j[2]) ELSE {}
    [] type[1] \in AddressTypes -> IF j[1] = "str" THEN Address(j[2]) ELSE {}
    [] type[1] = "Option" ->
         IF j = Null THEN {<<"Void">>} ELSE read[<<j, type[2]>>]
    [] type[1] = "Vec" ->
         IF j[1] # "arr" THEN {}
         ELSE Tagged("Vec", Items(read, j[2], [i \in DOMAIN j[2] |-> type[2]]))
    [] type[1] = "Map" ->
         IF j[1] # "obj" THEN {}
         ELSE MapOf([m \in j[2] |-> KeyFromText(m[1], type[2])],
                    [m \in j[2] |-> read[<<m[2], type[3]>>]])
    [] type[1] = "Tuple" ->
         IF j[1] = "arr" THEN Tagged("Vec", Items(read, j[2], type[2])) ELSE {}
    [] type[1] = "Udt" -> UdtFromJson(read, type[2], j)
    [] OTHER -> {}  \* Val, Error, U256, I256, Result

\* json_to_scval.  The escape hatch is looked for first, at every depth.
ReadAbove(read) ==
  [p \in Json \X SpecTypes |->
     IF IsEscape(p[1]) THEN Decoded(p[1][2]) ELSE Typed(read, p[1], p[2])]

Reading == INSTANCE Levels WITH
  Bottom <- [p \in Json \X SpecTypes |-> {}], Above <- ReadAbove

FromJson(j, type) == Reading!Level[Depth][<<j, type>>]

-----------------------------------------------------------------------------
(* Writing                                                                 *)

AddressText(a) == CHOOSE t \in DOMAIN Strkeys : Strkeys[t] = a

\* A plausible slip: the first key decides.
AllStringKeys_First(entries) ==
  entries # <<>> /\ entries[1].key[1] \in TextTypes

\* An empty map has only string keys: it is an object.
AllStringKeys(entries) ==
  \A i \in DOMAIN entries : entries[i].key[1] \in TextTypes

\* An entry replaces an earlier one whose key has the same text.
LastOfText(entries) ==
  {i \in DOMAIN entries :
     \A k \in DOMAIN entries : entries[k].key[2] = entries[i].key[2] => k <= i}

MapToJson(write, entries) ==
  IF AllStringKeys(entries)
  THEN <<"obj", {<<entries[i].key[2], write[entries[i].val]>> : i \in LastOfText(entries)}>>
  ELSE <<"arr", [i \in DOMAIN entries |->
                   <<"arr", <<write[entries[i].key], write[entries[i].val]>> >>]>>

\* scval_to_json: by the value alone, so a union is written as the vector it
\* is, and a 256-bit integer or an error as an object that describes it.
Written(write, v) ==
  CASE v[1] = "Bool"               -> <<"bool", v[2]>>
    [] v[1] = "Void"               -> Null
    [] v[1] \in {"U32", "I32"}     -> <<"num", v[2]>>
    [] v[1] \in {"U64", "I64", "Timepoint", "Duration"} -> Text(Decimal(v[2]))
    [] v[1] \in {"U128", "I128"}   -> Text(Decimal(FromParts(v[2])))
    [] v[1] = "Bytes"              -> Text(HexOf(v[2]))
    [] v[1] \in TextTypes        -> Text(v[2])
    [] v[1] = "Address"            -> Text(AddressText(v[2]))
    [] v[1] = "Vec"                -> <<"arr", [i \in DOMAIN v[2] |-> write[v[2][i]]]>>
    [] v[1] = "Map"                -> MapToJson(write, v[2])
    [] v[1] \in {"U256", "I256"}   -> <<"obj", {<<"note", Text("256-bit value")>>}>>
    [] v[1] = "Error"              -> <<"obj", {<<"error", Text("error")>>}>>

WriteAbove(write) == [v \in ScVal |-> Written(write, v)]

Writing == INSTANCE Levels WITH
  Bottom <- [v \in ScVal |-> Null], Above <- WriteAbove

\* An ScVal of the depth has leaves one call further down.
ToJson(v) == Writing!Level[Depth + 1][v]
=============================================================================
