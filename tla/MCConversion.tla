---------------------------- MODULE MCConversion ----------------------------
(***************************************************************************)
(* Two-valued bytes, 32-bit types of four values and 64-bit types of       *)
(* eight; every integer of the 128-bit types and some beyond them, as      *)
(* numbers and as numerals.                                                *)
(***************************************************************************)
EXTENDS Conversion, SequencesExt

MCEntries == <<
  [kind |-> "struct", name |-> "Point", body |-> << <<"y", <<"U32">> >>, <<"x", <<"Option", <<"Bool">> >> >> >>],
  [kind |-> "struct", name |-> "Pair",  body |-> << <<"0", <<"I32">> >>, <<"1", <<"Bool">> >> >>],
  [kind |-> "struct", name |-> "Unit",  body |-> << >>],
  [kind |-> "union",  name |-> "Shape",
   body |-> << [name |-> "none", types |-> << >>],
               [name |-> "dot",  types |-> << <<"U32">> >>],
               [name |-> "line", types |-> << <<"U32">>, <<"Bool">> >>] >>],
  [kind |-> "enum",   name |-> "Color", body |-> << <<"a", 0>>, <<"b", 3>> >>],
  [kind |-> "enum",   name |-> "Color", body |-> << <<"a", 1>>, <<"b", 2>> >>],
  [kind |-> "enum",   name |-> "Pair",  body |-> << <<"a", 1>> >>],
  [kind |-> "error_enum", name |-> "Failure", body |-> << <<"a", 1>>, <<"b", 3>> >>] >>

Integers128 == -34..66

MCDecimal(n) == ToString(n)

\* "01" is a second numeral of 1.
MCAliases == {<<"01", 1>>}
NumeralTexts == {"01"} \cup {ToString(n) : n \in Integers128}

HexDigits(b) ==
  CASE Len(b) = 0 -> ""
    [] Len(b) = 1 -> "0" \o ToString(b[1])
    [] Len(b) = 2 -> "0" \o ToString(b[1]) \o "0" \o ToString(b[2])
MCHexOf(b) == "0x" \o HexDigits(b)
MCHexTexts ==
  [t \in {HexDigits(b) : b \in Octets} \cup {MCHexOf(b) : b \in Octets} |->
     CHOOSE b \in Octets : t \in {HexDigits(b), MCHexOf(b)}]

MCStrkeys == "C1" :> <<"Contract", 1>> @@ "G1" :> <<"Account", 1>> @@ "G2" :> <<"Account", 2>>

MCLongTexts == {"x33"}
OtherTexts ==
  << "C1", "G1", "G2", "__xdr", "a", "b", "dot", "false", "line",
     "none", "true", "x", "x33", "y", "note", "256-bit value", "error" >>
\* An order in which -1 comes before -2 and 01 before 0.
OrderedTexts ==
  <<"", "-1", "00", "0000", "0001", "01", "0100", "0101">>
  \o [i \in 1..Cardinality(Integers128) - 1 |-> ToString(IF i <= 33 THEN i - 35 ELSE i - 34)]
  \o <<"0x", "0x00", "0x0000", "0x0001", "0x01", "0x0100", "0x0101">> \o OtherTexts
MCTextRank ==
  [t \in ToSet(OrderedTexts) |-> CHOOSE i \in DOMAIN OrderedTexts : OrderedTexts[i] = t]

T(tag) == <<tag>>
MCTypes ==
  {T(tag) : tag \in IntegerTags \cup {"Bool", "Void", "Bytes", "String", "Symbol",
                                      "Address", "U256", "Error"}}
  \cup {<<"Udt", n>> : n \in {"Point", "Pair", "Unit", "Shape", "Color", "Failure"}}
  \cup {<<"Map", T(k), v>> : k \in {"Symbol", "String", "U32", "I64", "Bool", "Address"},
                             v \in {T("U32"), <<"Option", T("Bool")>>}}
  \cup {<<"Map", T("Bytes"), T("U32")>>}
  \cup {<<"Vec", t>> : t \in {T("U32"), <<"Option", T("U64")>>, <<"Udt", "Color">>,
                              <<"Map", T("Symbol"), T("Void")>>, <<"Udt", "Shape">>}}
  \cup {<<"Tuple", <<T("U32"), T("Bool")>> >>, <<"Tuple", <<T("I128")>> >>,
        <<"BytesN", 1>>,
        <<"Map", T("Symbol"), T("Void")>>, <<"Vec", T("Bool")>>, <<"Vec", <<"Vec", T("Bool")>> >>}
  \cup {<<"Option", T(tag)>> : tag \in {"U32", "Bool", "U64"}}

Pairs(S) == UNION {[1..n -> S] : n \in 0..2}

\* Values for the contract to return.
Numbers    == LeafValues(T("U32"))
Booleans   == LeafValues(T("Bool"))
MaybeBools == {<<"Void">>} \cup Booleans
Vectors(S) == {"Vec"} \X Pairs(S)
Maps(keys, vals) ==
  {"Map"} \X {es \in Pairs([key : keys, val : vals]) : Ascending("distinct", es)}
Named(name) == {<<"Symbol", name>>}
Point(x, y) ==
  <<"Map", <<[key |-> <<"Symbol", "x">>, val |-> x], [key |-> <<"Symbol", "y">>, val |-> y]>> >>
Shapes ==
  {"Vec"} \X ({<<k>> : k \in Named("none")} \cup (Named("dot") \X Numbers)
              \cup (Named("line") \X Numbers \X Booleans))
MapKeys ==
  {tag \X {"__xdr", "a", "b", "x", "-1"} : tag \in {{"Symbol"}, {"String"}}}
  \cup {Numbers, {"I64"} \X (-2..1), Booleans, {"Address"} \X Ids}

MCOutputs ==
  UNION {LeafValues(t) : t \in MCTypes}
  \cup UNION {Maps(keys, Numbers) : keys \in MapKeys}
  \cup UNION {Maps(keys, MaybeBools) : keys \in MapKeys}
  \cup ({"Map"} \X {es \in Pairs([key : {"Bytes"} \X {<<1>>, <<>>}, val : Numbers]) :
                       Len(es) = 2 => es[1].key # es[2].key})
  \cup UNION {Vectors(S) :
                S \in {Numbers, {<<"Void">>} \cup LeafValues(T("U64")), Shapes, Booleans,
                       Maps({"Symbol"} \X {"__xdr", "a", "x"}, {<<"Void">>}), Vectors(Booleans)}}
  \cup ({"Vec"} \X (Numbers \X Booleans)) \cup ({"Vec"} \X (LeafValues(T("I32")) \X Booleans))
  \cup {<<"Vec", <<i>> >> : i \in LeafValues(T("I128"))}
  \cup {Point(x, y) : x \in MaybeBools, y \in Numbers} \cup Shapes

-----------------------------------------------------------------------------
Scalars ==
  {Null, <<"frac">>} \cup {<<"bool", b>> : b \in BOOLEAN}
  \cup {<<"num", n>> : n \in Integers128} \cup {Text(t) : t \in ToSet(OrderedTexts)}

Few == {Null, <<"bool", TRUE>>, <<"num", 1>>, <<"num", 3>>, <<"num", 4>>, Text("a"), Text("-1")}
Arrays == {<<"arr", s>> : s \in Pairs(Few)}
SmallArrays == {<<"arr", s>> : s \in {<< >>, << <<"num", 1>> >>, << <<"num", 1>>, <<"bool", TRUE>> >>}}
Members == {<<"num", 1>>, <<"bool", TRUE>>, Text("a"), <<"xdr", <<"U32", 2>> >>} \cup SmallArrays
PairedKeys ==
  {"__xdr", "a", "x", "y", "0", "1", "01", "-1", "-2", "C1", "G1", "true", "false"}
TwoTypes == {<<"num", 1>>, <<"bool", TRUE>>}
SmallObjects ==
  {<<"obj", {}>>} \cup {<<"obj", {m}>> : m \in ToSet(OtherTexts) \X Members}
  \cup {<<"obj", {p[1], p[2]}>> :
          p \in {p \in (PairedKeys \X (TwoTypes \cup {<<"xdr", <<"U32", 2>> >>}))
                        \X (PairedKeys \X TwoTypes) : p[1][1] # p[2][1]}}
Nested ==
  {<<"arr", s>> : s \in Pairs(SmallArrays \cup {<<"obj", {<<"a", <<"bool", TRUE>> >>}>>,
                                                <<"obj", {<<"dot", <<"num", 1>> >>}>>})}

MCInputs == Scalars \cup Arrays \cup SmallObjects \cup Nested
=============================================================================
