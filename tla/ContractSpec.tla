---------------------------- MODULE ContractSpec ----------------------------
(***************************************************************************)
(* spec.rs: the user-defined types of a contract, built from the entries   *)
(* of its WASM section, and how a name is looked up in them.  A type is a  *)
(* tuple that starts with its ScSpecTypeDef variant: <<"U32">>,            *)
(* <<"Vec", element>>, <<"Map", key, value>>, <<"Udt", name>>...           *)
(***************************************************************************)
EXTENDS Integers, Sequences

\* The entries in the section's order: [kind, name, body], the body being a
\* sequence of fields <<name, type>>, of union cases [name, types] (no types
\* for a void case), or of enum cases <<name, value>>.
CONSTANT Entries

Kinds == {"struct", "union", "enum", "error_enum"}

EntriesNamed(kind, name) ==
  {i \in DOMAIN Entries : Entries[i].kind = kind /\ Entries[i].name = name}

\* from_entries inserts in a map of each kind: a later entry replaces an
\* earlier one of its name.
Definition(kind, name) ==
  LET latest == CHOOSE i \in EntriesNamed(kind, name) :
                  \A k \in EntriesNamed(kind, name) : k <= i
  IN  Entries[latest].body

\* What a name of a type stands for: the kinds are tried in this order.
KindOf(name) ==
  CASE EntriesNamed("struct", name) # {}     -> "struct"
    [] EntriesNamed("union", name) # {}      -> "union"
    [] EntriesNamed("enum", name) # {}       -> "enum"
    [] EntriesNamed("error_enum", name) # {} -> "error_enum"
    [] OTHER                                 -> "undefined"

\* The first case of a union with the name, or none.
UnionCase(name, case) ==
  LET cases == Definition("union", name)
      found == {i \in DOMAIN cases : cases[i].name = case}
  IN  {cases[i] : i \in {i \in found : \A k \in found : i <= k}}

\* The value of the first case of an enum with the name, or none.
EnumCase(kind, name, case) ==
  LET cases == Definition(kind, name)
      found == {i \in DOMAIN cases : cases[i][1] = case}
  IN  {cases[i][2] : i \in {i \in found : \A k \in found : i <= k}}

CaseValues(kind, name) ==
  {Definition(kind, name)[i][2] : i \in DOMAIN Definition(kind, name)}
=============================================================================
