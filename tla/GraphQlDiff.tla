----------------------------- MODULE GraphQlDiff -----------------------------
(***************************************************************************)
(* The GraphQL engine (radar-core/src/graphql.rs): parse_graphql merges    *)
(* the definitions of a document into a map of types, diff_graphql         *)
(* compares two maps.                                                      *)
(*                                                                         *)
(* A type is [kind, fields, members]: members are enum values or the types *)
(* of a union, both in order.  A field is [name, type, args, default], an  *)
(* argument [name, type, default]; type is [named, nonNull], which the     *)
(* code holds as a string that ends with '!' or not.  An item of a         *)
(* document is [extends, name, type].                                      *)
(***************************************************************************)
EXTENDS SchemaChange

\* The arms of GqlTypeKind: fields, values or members, or nothing.
WithFields == {"object", "interface", "input"}
WithMembers == {"enum", "union"}
GqlKinds == WithFields \cup WithMembers \cup {"scalar"}

TypeRefs == [named : STRING, nonNull : BOOLEAN]
GqlArgs == [name : STRING, type : TypeRefs, default : BOOLEAN]
GqlFields == [name : STRING, type : TypeRefs, args : Seq(GqlArgs), default : BOOLEAN]

GqlTypes ==
    {t \in [kind : GqlKinds, fields : Seq(GqlFields), members : Seq(STRING)] :
        /\ t.kind \notin WithFields => t.fields = <<>>
        /\ t.kind \notin WithMembers => t.members = <<>>}

GqlItems == [extends : BOOLEAN, name : STRING, type : GqlTypes]

-----------------------------------------------------------------------------
(* parse_graphql.                                                          *)

Builtins == {"String", "Int", "Float", "Boolean", "ID"}

\* What is kept of a declaration: of a field its arguments, of an input its
\* default.
FieldToGql(f) == [f EXCEPT !.default = FALSE]

InputValueToField(f) == [f EXCEPT !.args = <<>>]

ConvertTypeDef(t) ==
    [t EXCEPT !.fields = [i \in DOMAIN t.fields |->
        IF t.kind = "input" THEN InputValueToField(t.fields[i]) ELSE FieldToGql(t.fields[i])]]

\* An extension of a type of its own kind; another kind replaces the type.
Extended(type, ext) ==
    IF type.kind = ext.kind THEN [type EXCEPT !.fields = @ \o ext.fields, !.members = @ \o ext.members] ELSE ext

\* Into the map of types, over what it has of the name.
Insert(map, name, type) == [n \in DOMAIN map \cup {name} |-> IF n = name THEN type ELSE map[n]]

Define(map, d) ==
    IF d.extends \/ d.name \in Builtins THEN map ELSE Insert(map, d.name, ConvertTypeDef(d.type))

\* A scalar's extension has no fields; an absent base is created.
ApplyExtension(map, d) ==
    IF ~d.extends \/ d.type.kind = "scalar" THEN map
    ELSE LET ext == ConvertTypeDef(d.type) IN
         Insert(map, d.name, IF d.name \in DOMAIN map THEN Extended(map[d.name], ext) ELSE ext)

NoTypes == [n \in {} |-> n]

\* First the definitions, then the extensions, each in order.
ParseGraphQl(doc) == FoldLeft(ApplyExtension, FoldLeft(Define, NoTypes, doc), doc)

-----------------------------------------------------------------------------
(* diff_graphql.                                                           *)

Required(input) == input.type.nonNull /\ ~input.default

\* Mutant: a default that is taken away is not looked at.
LosesDefault_Never(b, h) == FALSE

LosesDefault(b, h) == b.default /\ Required(h)

\* A field or an argument on both sides.
DiffCommon(path, b, h, isInput) ==
    IF b.type # h.type THEN {Change(path, "TypeChanged", "breaking")}
    ELSE IF isInput /\ LosesDefault(b, h) THEN {Change(path, "RequiredChanged", "breaking")} ELSE {}

\* Mutant: an added argument is always optional.
AddedChange_Safe(path, h, isInput) == Change(path, "FieldAdded", "safe")

AddedChange(path, h, isInput) ==
    IF isInput /\ Required(h) THEN Change(path, "RequiredChanged", "breaking")
    ELSE Change(path, "FieldAdded", "safe")

DiffNamed(path, b, h, isInput) ==
    {Change(Append(path, n), "FieldRemoved", "breaking") : n \in DOMAIN b \ DOMAIN h}
    \cup {AddedChange(Append(path, n), h[n], isInput) : n \in DOMAIN h \ DOMAIN b}
    \cup UNION {DiffCommon(Append(path, n), b[n], h[n], isInput) : n \in DOMAIN b \cap DOMAIN h}

DiffArgs(path, b, h) == DiffNamed(path, ByName(b), ByName(h), TRUE)

DiffFields(name, b, h, isInput) ==
    LET bs == ByName(b) hs == ByName(h) IN
    DiffNamed(<<name>>, bs, hs, isInput)
    \cup UNION {DiffArgs(<<name, n>>, bs[n].args, hs[n].args) : n \in DOMAIN bs \cap DOMAIN hs}

DiffEnumValues(name, b, h) ==
    {Change(<<name, v>>, "EnumValueRemoved", "breaking") : v \in ToSet(b) \ ToSet(h)}
    \cup {Change(<<name, v>>, "EnumValueAdded", "risky") : v \in ToSet(h) \ ToSet(b)}

DiffUnionMembers(name, b, h) ==
    {Change(<<name, "|", m>>, "FieldRemoved", "breaking") : m \in ToSet(b) \ ToSet(h)}
    \cup {Change(<<name, "|", m>>, "FieldAdded", "risky") : m \in ToSet(h) \ ToSet(b)}

DiffScalar(name) == {}

DiffType(name, b, h) ==
    IF b.kind # h.kind THEN {Change(<<"type", name>>, "TypeChanged", "breaking")}
    ELSE CASE b.kind \in {"object", "interface"} -> DiffFields(name, b.fields, h.fields, FALSE)
           [] b.kind = "input" -> DiffFields(name, b.fields, h.fields, TRUE)
           [] b.kind = "enum" -> DiffEnumValues(name, b.members, h.members)
           [] b.kind = "union" -> DiffUnionMembers(name, b.members, h.members)
           [] b.kind = "scalar" -> DiffScalar(name)

DiffGraphQl(base, head) ==
    {Change(<<"type", n>>, "OperationRemoved", "breaking") : n \in DOMAIN base \ DOMAIN head}
    \cup {Change(<<"type", n>>, "OperationAdded", "safe") : n \in DOMAIN head \ DOMAIN base}
    \cup UNION {DiffType(n, base[n], head[n]) : n \in DOMAIN base \cap DOMAIN head}
=============================================================================
