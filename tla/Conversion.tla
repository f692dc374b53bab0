----------------------------- MODULE Conversion -----------------------------
(***************************************************************************)
(* A client and a function of one parameter that returns a value of the    *)
(* parameter's type.  The client sends JSON, or leaves the argument out;   *)
(* the contract returns any value of the type and the client reads it in   *)
(* the answer; the client may send what it read back as the argument.      *)
(***************************************************************************)
EXTENDS ScVals

CONSTANTS
  Inputs,   \* the JSON values a client sends
  Outputs   \* the ScVals a contract returns

ASSUME InputAssumption == Inputs \subseteq Json

VARIABLES
  type,      \* of the parameter and of the return value
  sent,      \* the JSON argument as conversion sees it, in a set; or none
  arg,       \* the ScVal it became, in a set; none if refused
  returned,  \* the ScVal the contract returned, in a set; or none
  reply      \* the JSON it is answered with, in a set; or none

vars == <<type, sent, arg, returned, reply>>

-----------------------------------------------------------------------------
(* The values of a type: what a contract has, which JSON with distinct     *)
(* keys stands for; and what other JSON may stand for, where an integer    *)
(* that keys of a map spell in two ways is the key of two entries.         *)

KeyBeforeOrSame(kind, a, b) ==
  KeyBefore(a, b) \/ (kind = "plain" /\ a = b /\ a[1] \in IntegerKeyTypes)

\* A host map has each key once, in order.
Ascending(kind, entries) ==
  \A i, k \in DOMAIN entries :
    i < k => KeyBeforeOrSame(kind, entries[i].key, entries[k].key)

Symbols == {"Symbol"} \X (Texts \ LongTexts)

LeafValues(t) ==
  CASE t[1] = "Bool"   -> {"Bool"} \X BOOLEAN
    [] t[1] = "Void"   -> {<<"Void">>}
    [] t[1] \in IntegerTags -> {t[1]} \X Stored(t[1])
    [] t[1] = "Bytes"  -> {"Bytes"} \X Octets
    [] t[1] = "BytesN" -> {"Bytes"} \X {b \in Octets : Len(b) = t[2]}
    [] t[1] = "String" -> {"String"} \X Texts
    [] t[1] = "Symbol" -> Symbols
    [] t[1] \in AddressTypes -> {"Address"} \X Ids
    [] t[1] \in {"U256", "I256", "Error"} -> {t[1]} \X {0}  \* described only
    [] OTHER -> {}  \* Val, Result

\* One value per type; values being what is known of the types that others
\* are made of.
Row(values, kind, types) ==
  {s \in Seq(ScVal) : /\ Len(s) = Len(types)
                      /\ \A i \in DOMAIN s : s[i] \in values[<<kind, types[i]>>]}

MapEntries(kind, keys, vals) ==
  {es \in Seq([key : keys, val : vals]) : Ascending(kind, es)}

\* Maps keyed by other types are no arguments unless they are empty, and the
\* order of their keys is left out.
MapValues(values, kind, t) ==
  {"Map"} \X
    IF t[2][1] \in KeyTypes
    THEN MapEntries(kind, LeafValues(t[2]), values[<<kind, t[3]>>])
    ELSE {es \in Seq([key : values[<<kind, t[2]>>], val : values[<<kind, t[3]>>]]) :
            \A i, k \in DOMAIN es : es[i].key = es[k].key => i = k}

StructValues(values, kind, fields) ==
  IF IsTupleStruct(fields) THEN {"Vec"} \X Row(values, kind, FieldTypes(fields))
  ELSE {"Map"} \X
         {es \in MapEntries("distinct", Symbols, ScVal) :
            /\ {es[i].key[2] : i \in DOMAIN es} = FieldNames(fields)
            /\ \A i \in DOMAIN es :
                 es[i].val \in values[<<kind, TypeOfField(fields, es[i].key[2])>>]}

\* The name of a case, and what its types say.
UnionValues(values, kind, name) ==
  {"Vec"} \X
    {s \in Seq(ScVal) :
       /\ s # <<>>
       /\ s[1] \in Symbols
       /\ \E case \in UnionCase(name, s[1][2]) : Tail(s) \in Row(values, kind, case.types)}

UdtValues(values, kind, name) ==
  CASE KindOf(name) = "struct" -> StructValues(values, kind, Definition("struct", name))
    [] KindOf(name) = "union"  -> UnionValues(values, kind, name)
    [] KindOf(name) = "enum"   -> {"U32"} \X CaseValues("enum", name)
    [] KindOf(name) = "error_enum" -> {"U32"} \X U32
    [] OTHER -> {}

TypeValues(values, kind, t) ==
  CASE t[1] = "Option" -> {<<"Void">>} \cup values[<<kind, t[2]>>]
    [] t[1] = "Vec"    -> {"Vec"} \X Seq(values[<<kind, t[2]>>])
    [] t[1] = "Map"    -> MapValues(values, kind, t)
    [] t[1] = "Tuple"  -> {"Vec"} \X Row(values, kind, t[2])
    [] t[1] = "Udt"    -> UdtValues(values, kind, t[2])
    [] OTHER           -> LeafValues(t)

ValuesAbove(values) ==
  [p \in {"plain", "distinct"} \X SpecTypes |-> TypeValues(values, p[1], p[2])]

ValuesOf == INSTANCE Levels WITH
  Bottom <- [p \in {"plain", "distinct"} \X SpecTypes |-> {}], Above <- ValuesAbove

Values(kind, t) == ValuesOf!Level[Depth][<<kind, t>>]

-----------------------------------------------------------------------------
(* The exchange                                                            *)

Init ==
  /\ type \in SpecTypes
  /\ sent = {} /\ arg = {} /\ returned = {} /\ reply = {}

Idle == sent = {} /\ returned = {}

Converted(j) ==
  /\ sent' = {j}
  /\ arg' = FromJson(j, type)

\* A parameter that the body does not name is converted from null.
ArgumentOf(body) == IF body = {} THEN Null ELSE CHOOSE j \in body : TRUE

Call ==
  /\ Idle
  /\ \E body \in {{}} \cup {{j} : j \in Inputs} : Converted(ArgumentOf(body))
  /\ UNCHANGED <<type, returned, reply>>

Return ==
  /\ Idle
  /\ \E v \in Outputs \cap Values("distinct", type) :
       returned' = {v} /\ reply' = {ToJson(v)}
  /\ UNCHANGED <<type, sent, arg>>

CallAgain ==
  /\ sent = {}
  /\ \E j \in reply \cap Json : Converted(j)
  /\ UNCHANGED <<type, returned, reply>>

\* The exchange is over, and another may begin.
Leave ==
  /\ sent # {}
  /\ sent' = {} /\ arg' = {} /\ returned' = {} /\ reply' = {}
  /\ UNCHANGED type

Next == Call \/ Return \/ CallAgain \/ Leave

Spec == Init /\ [][Next]_vars

-----------------------------------------------------------------------------
(* Properties                                                              *)

\* What the proxy hands to the contract is a value of the declared type: every
\* integer in range, every vector of the declared length, maps and structs in
\* the order the host demands, user-defined types by the definition that
\* counts.  The two ways out are the escape hatch (json_to_scval's __xdr) and
\* two spellings of one integer among the keys of a map; and these still leave
\* everything else of the value as its type has it.
ArgumentsAreTyped ==
  \A j \in sent :
    /\ j \in PlainJson    => arg \subseteq Values("plain", type)
    /\ j \in DistinctJson => arg \subseteq Values("distinct", type)

\* The integer an ScVal stands for, its halves put together by their meaning.
IntegerOf(v) ==
  IF v[1] \in {"U128", "I128"} THEN v[2].hi * Word + v[2].lo ELSE v[2]

\* No integer is wrapped, truncated or changed by its conversion, and every
\* decimal string that is in the range of the type is taken.
IntegersAreExact ==
  type[1] \in IntegerTags =>
    \A j \in sent :
      /\ j[1] = "num" => \A v \in arg : IntegerOf(v) = j[2]
      /\ \A p \in Numerals : j = Text(p[1]) =>
           {IntegerOf(v) : v \in arg} = {p[2]} \cap IntegerRange(type[1])

\* The types whose values are written the way they are read: no union, and no
\* map but those with texts for keys; types being what is known of the types
\* they are made of.
SameBothWays(types) ==
  {t \in types :
     CASE t[1] \in {"Option", "Vec"} -> t[2] \in types
       [] t[1] = "Map"   -> t[2][1] \in TextTypes /\ t[3] \in types
       [] t[1] = "Tuple" -> \A i \in DOMAIN t[2] : t[2][i] \in types
       [] t[1] = "Udt"   ->
            \/ KindOf(t[2]) \in {"enum", "error_enum"}
            \/ /\ KindOf(t[2]) = "struct"
               /\ \A i \in DOMAIN Definition("struct", t[2]) :
                    Definition("struct", t[2])[i][2] \in types
       [] OTHER -> t[1] \notin {"U256", "I256", "Error", "Val", "Result"}}

ReadableOf == INSTANCE Levels WITH Bottom <- SpecTypes, Above <- SameBothWays

WrittenAsRead(t) == t \in ReadableOf!Level[Depth]

ReadsBack == \A v \in returned, j \in sent : arg = {v}

\* An answer sent back as an argument is the value the contract returned:
\* wide integers keep every digit, bytes their length, an absent option, a
\* struct and an empty map stay what they are.  A text key "__xdr" excepted.
RepliesReadBack ==
  WrittenAsRead(type) /\ sent \subseteq PlainJson => ReadsBack

\* README: "Return values follow the same rendering in reverse", a map being
\* an object with its keys as strings.
MapsReadBack == type[1] = "Map" /\ sent \subseteq PlainJson => ReadsBack

\* The same sentence, for unions.
UnionsReadBack == type[1] = "Udt" /\ KindOf(type[2]) = "union" => ReadsBack

\* README: u64, i64, u128 and i128 are given as a "number or decimal string".
\* Stated of the numbers that serde_json itself holds as integers.
NumbersInRangeAreTaken ==
  type[1] \in {"U64", "I64", "U128", "I128"} =>
    \A j \in sent :
      j[1] = "num" /\ j[2] \in (U64 \cup I64) \cap IntegerRange(type[1]) => arg # {}
=============================================================================
