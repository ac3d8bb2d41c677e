------------------------------ MODULE ProtoDiff ------------------------------
(***************************************************************************)
(* diff_proto (radar-core/src/proto.rs).  A schema is                      *)
(* [messages, enums, services], each a map by qualified name: of fields    *)
(* [name, type, number], of values [name, number], and of rpcs             *)
(* [name, input, output].                                                  *)
(***************************************************************************)
EXTENDS SchemaChange

ProtoFields == [name : STRING, type : STRING, number : Nat]
ProtoValues == [name : STRING, number : Int]
ProtoSides == [stream : BOOLEAN, message : STRING]
ProtoRpcs == [name : STRING, input : ProtoSides, output : ProtoSides]

\* A message has a number once, an enum and a service a name.
IsProtoSchema(s) ==
    /\ \A n \in DOMAIN s.messages :
         /\ s.messages[n] \in Seq(ProtoFields)
         /\ \A i, j \in DOMAIN s.messages[n] : s.messages[n][i].number = s.messages[n][j].number => i = j
    /\ \A n \in DOMAIN s.enums :
         /\ s.enums[n] \in Seq(ProtoValues)
         /\ \A i, j \in DOMAIN s.enums[n] : s.enums[n][i].name = s.enums[n][j].name => i = j
    /\ \A n \in DOMAIN s.services :
         /\ s.services[n] \in Seq(ProtoRpcs)
         /\ \A i, j \in DOMAIN s.services[n] : s.services[n][i].name = s.services[n][j].name => i = j

\* The map by field number the code collects: the last of a number stays.
ByNumber(seq) ==
    [n \in {seq[i].number : i \in DOMAIN seq} |->
        seq[CHOOSE i \in DOMAIN seq :
               seq[i].number = n /\ \A j \in i + 1 .. Len(seq) : seq[j].number # n]]

\* The number is the identity of a field on the wire.
FieldKey(seq) == ByNumber(seq)

DiffField(path, b, h) ==
    (IF b.type # h.type THEN {Change(path, "TypeChanged", "breaking")} ELSE {})
    \cup IF b.name # h.name THEN {Change(path, "FieldRemoved", "risky")} ELSE {}

DiffMessage(name, base, head) ==
    LET b == FieldKey(base) h == FieldKey(head) IN
    {Change(<<name, b[n].name>>, "FieldRemoved", "breaking") : n \in DOMAIN b \ DOMAIN h}
    \cup {Change(<<name, h[n].name>>, "FieldAdded", "safe") : n \in DOMAIN h \ DOMAIN b}
    \cup (UNION {DiffField(<<name, b[n].name>>, b[n], h[n]) : n \in DOMAIN b \cap DOMAIN h})

DiffEnum(name, base, head) ==
    LET b == ByName(base) h == ByName(head) IN
    {Change(<<name, v>>, "EnumValueRemoved", "breaking") : v \in DOMAIN b \ DOMAIN h}
    \cup {Change(<<name, v>>, "EnumValueAdded", "risky") : v \in DOMAIN h \ DOMAIN b}
    \cup {Change(<<name, v>>, "TypeChanged", "breaking") :
             v \in {w \in DOMAIN b \cap DOMAIN h : b[w].number # h[w].number}}

\* The type of a side is [stream, message].
SameSignature(b, h) == b.input = h.input /\ b.output = h.output

DiffService(name, base, head) ==
    LET b == ByName(base) h == ByName(head) IN
    {Change(<<name, r>>, "OperationRemoved", "breaking") : r \in DOMAIN b \ DOMAIN h}
    \cup {Change(<<name, r>>, "OperationAdded", "safe") : r \in DOMAIN h \ DOMAIN b}
    \cup {Change(<<name, r>>, "TypeChanged", "breaking") :
             r \in {q \in DOMAIN b \cap DOMAIN h : ~SameSignature(b[q], h[q])}}

\* What only one side has, of one of the three maps.
OneSided(what, b, h) ==
    {Change(<<what, n>>, "OperationRemoved", "breaking") : n \in DOMAIN b \ DOMAIN h}
    \cup {Change(<<what, n>>, "OperationAdded", "safe") : n \in DOMAIN h \ DOMAIN b}

DiffProto(base, head) ==
    OneSided("message", base.messages, head.messages)
    \cup OneSided("enum", base.enums, head.enums)
    \cup OneSided("service", base.services, head.services)
    \cup (UNION {DiffMessage(n, base.messages[n], head.messages[n]) : n \in DOMAIN base.messages \cap DOMAIN head.messages})
    \cup (UNION {DiffEnum(n, base.enums[n], head.enums[n]) : n \in DOMAIN base.enums \cap DOMAIN head.enums})
    \cup (UNION {DiffService(n, base.services[n], head.services[n]) : n \in DOMAIN base.services \cap DOMAIN head.services})
=============================================================================
