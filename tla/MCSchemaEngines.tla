--------------------------- MODULE MCSchemaEngines ---------------------------
(* Versions, documents and texts for TLC.                                  *)
EXTENDS SchemaEngines

-----------------------------------------------------------------------------
(* GraphQL: one type T, and a field, value or member that an extension     *)
(* adds, before or after it or without it.                                 *)

GTypes == {[named |-> n, nonNull |-> b] : n \in {"S", "I"}, b \in BOOLEAN}
STypes == {t \in GTypes : t.named = "S"}

Arg(t, d)      == [name |-> "x", type |-> t, default |-> d]
GField(n, t, args, d) == [name |-> n, type |-> t, args |-> args, default |-> d]
GType(k, fields) == [kind |-> k, fields |-> fields, members |-> <<>>]
GMembers(k, ms) == [kind |-> k, fields |-> <<>>, members |-> ms]
Item(e, t)     == [extends |-> e, name |-> "T", type |-> t]

Args == {<<>>} \cup {<<Arg(t, d)>> : t \in STypes, d \in BOOLEAN}

OutFields == {GField("f", t, a, FALSE) : t \in STypes, a \in Args}
             \cup {GField("f", [named |-> "I", nonNull |-> FALSE], <<>>, FALSE)}
InFields  == {GField("f", t, <<>>, d) : t \in STypes, d \in BOOLEAN}
Plain     == GField("g", [named |-> "S", nonNull |-> FALSE], <<>>, FALSE)

GraphQlTypes ==
    {GType("object", <<f>>) : f \in OutFields} \cup {GType("object", <<>>), GType("scalar", <<>>)}
    \cup {GType("input", <<f>>) : f \in InFields} \cup {GType("input", <<>>)}
    \cup {GType("interface", <<Plain>>)}
    \cup {GMembers(k, m) : k \in {"enum", "union"}, m \in {<<"a">>, <<"a", "b">>}}

Extensions == {GType("object", <<Plain>>), GType("input", <<Plain>>), GMembers("enum", <<"c">>)}

MCGraphQlDocuments ==
    {<<>>} \cup {<<Item(FALSE, t)>> : t \in GraphQlTypes} \cup {<<Item(TRUE, e)>> : e \in Extensions}
    \cup UNION {{<<Item(FALSE, t), Item(TRUE, e)>>, <<Item(TRUE, e), Item(FALSE, t)>>} :
                   t \in {GType("object", <<GField("f", [named |-> "S", nonNull |-> TRUE], <<>>, FALSE)>>)},
                   e \in {GType("object", <<Plain>>)}}
    \cup {<<Item(FALSE, GMembers("enum", <<"a">>)), Item(TRUE, GMembers("enum", <<"c">>))>>}
    \cup {<<[extends |-> FALSE, name |-> "String", type |-> GType("scalar", <<>>)]>>}

-----------------------------------------------------------------------------
(* Protobuf schemas: a message with two numbers, an enum, or a service.    *)

Empty == [n \in {} |-> n]
ProtoSchema(m, e, s) == [messages |-> m, enums |-> e, services |-> s]

PField(n) == {<<>>} \cup {<<[name |-> x, type |-> t, number |-> n]>> : x \in {"a", "b"}, t \in {"t", "u"}}
Value(x) == {<<>>} \cup {<<[name |-> x, number |-> n]>> : n \in {0, 1}}
Side == {[stream |-> b, message |-> "M"] : b \in BOOLEAN}
Rpcs == {<<>>} \cup {<<[name |-> "r", input |-> i, output |-> o]>> : i, o \in Side}

Named(n, v) == n :> v

MCProtoSchemas ==
    {ProtoSchema(Empty, Empty, Empty)}
    \cup {ProtoSchema(Named("M", f \o g), Empty, Empty) : f \in PField(1), g \in PField(2)}
    \cup {ProtoSchema(Empty, Named("E", a \o b), Empty) : a \in Value("a"), b \in Value("b")}
    \cup {ProtoSchema(Empty, Empty, Named("V", r)) : r \in Rpcs}

-----------------------------------------------------------------------------
(* Documents: messages, enums and services written from their parts, with  *)
(* what they mean, and any text that starts like one.                      *)

Id(v) == [t |-> "id", v |-> v]
Sign  == [t |-> "sign", v |-> "sign"]
Quote == [t |-> "sign", v |-> "proto"]
Num(n) == [t |-> "num", v |-> n]
NumOpt(n) == [t |-> "num[", v |-> n]
Label(l) == [t |-> "label", v |-> l]
Glued(v) == [t |-> "glued", v |-> v]

Semi == <<Tok(";")>>
Block == <<Tok("{"), Glued("a"), Num("1"), Tok("}")>> \* a value that is a block
Custom == <<Tok("option"), Tok("("), Id("x"), Tok(")"), Tok("=")>>
Is(name, number) == <<Id("string"), Id(name), Tok("="), Num(number)>>
Field1(name, number) == <<"", "string", name, number>>
Assign(name, number) == <<Id(name), Tok("="), number>>

\* What protoc finds in a part of message A, and what is read of it.
Found1(fields, messages, enums) == [fields |-> fields, messages |-> messages, enums |-> enums]
Nothing == Found1(<<>>, Empty, Empty)

Part(text, all, read, cut) == [text |-> text, all |-> all, read |-> read, cut |-> cut]
Known(text, found) == Part(text, found, found, FALSE)
Lost(text, found)  == Part(text, found, Nothing, FALSE)

\* The parts of a message of that name.
Parts(A) ==
    LET B == Append(A, "B")
        E == Append(A, "E")
        C == Append(A, "C")
        R == Append(A, "R")
    IN
    [field   |-> Known(Is("f", "1") \o Semi, Found1(<<Field1("f", "1")>>, Empty, Empty)),
     oneof   |-> Known(<<Tok("nl"), Tok("oneof"), Id("o"), Tok("{")>> \o Is("g", "2") \o Semi \o <<Tok("nl")>>
                         \o Is("h", "3") \o Semi \o <<Tok("}")>>,
                       Found1(<<Field1("g", "2"), Field1("h", "3")>>, Empty, Empty)),
     nested  |-> Known(<<Tok("message"), Id("B"), Tok("nl"), Tok("{")>> \o Is("k", "1") \o Semi \o <<Tok("}"), Tok("nl")>>,
                       Found1(<<>>, B :> <<Field1("k", "1")>>, Empty)),
     enum    |-> Known(<<Tok("enum"), Id("E"), Tok("{"), Tok("option"), Id("x"), Tok("="), Id("y")>> \o Semi
                         \o Assign("v", Num("0")) \o Semi \o <<Tok("reserved"), Num("2")>> \o Semi
                         \o Assign("w", [t |-> "neg", v |-> "-1"]) \o Semi
                         \o Assign("u", NumOpt("1")) \o Semi \o <<Tok("}")>>,
                       Found1(<<>>, Empty, E :> <<<<"v", "0">>, <<"w", "-1">>, <<"u", "1">>>>)),
     group   |-> Lost(<<Label("repeated"), Id("group"), Id("R"), Tok("="), Num("4"), Tok("{")>> \o Is("z", "5") \o Semi
                        \o <<Tok("message"), Id("W"), Tok("{"), Tok("}")>> \o Is("y", "6") \o Semi \o <<Tok("}")>>,
                      Found1(<<<<"repeated", "group", "R", "4">>>>,
                             R :> <<Field1("z", "5"), Field1("y", "6")>> @@ Append(R, "W") :> <<>>, Empty)),
     labels  |-> Known(<<Label("repeated")>> \o Is("l", "7") \o <<Sign, Tok("="), Sign>> \o Semi
                         \o <<Label("optional"), Id("M"), Tok("nl"), Id("m"), Tok("="), NumOpt("8")>> \o Semi,
                       Found1(<<<<"repeated", "string", "l", "7">>, <<"", "M", "m", "8">>>>, Empty, Empty)),
     map     |-> Known(<<[t |-> "map", v |-> "map<K,V>"], Id("n"), Tok("="), Num("9")>> \o Semi,
                       Found1(<<<<"", "map<K,V>", "n", "9">>>>, Empty, Empty)),
     reserve |-> Known(<<Tok("reserved"), Glued("20"), Tok("nl"), Num("21")>> \o Semi
                         \o <<Tok("option"), Id("deprecated"), Tok("="), Tok("nl"), Id("true")>> \o Semi, Nothing),
     \* A hexadecimal number, a '=' that is not spaced, a space in a map.
     odd     |-> Lost(<<Id("string"), Id("a"), Tok("="), Id("0xA")>> \o Semi \o <<Id("string"), Glued("b"), Num("11")>> \o Semi
                        \o <<Id("map"), Sign, Id("c"), Tok("="), Num("12")>> \o Semi,
                      Found1(<<Field1("a", "10"), Field1("b", "11"), <<"", "map<K,V>", "c", "12">>>>, Empty, Empty)),
     block   |-> Lost(Is("d", "13") \o <<Sign, Tok("=")>> \o Block \o <<Sign>> \o Semi,
                      Found1(<<Field1("d", "13")>>, Empty, Empty)),
     cut     |-> Part(Custom \o Block \o Semi, Nothing, Nothing, TRUE),
     cutEnum |-> Part(<<Tok("enum"), Id("C"), Tok("{")>> \o Assign("s", Num("0")) \o Semi \o Custom \o Block \o Semi
                        \o Assign("t", Num("1")) \o Semi \o <<Tok("}")>>,
                      Found1(<<>>, Empty, C :> <<<<"s", "0">>, <<"t", "1">>>>),
                      Found1(<<>>, Empty, C :> <<<<"s", "0">>>>), TRUE),
     cutOne  |-> Part(<<Tok("oneof"), Id("q"), Tok("{")>> \o Is("i", "14") \o <<Sign, Tok("=")>> \o Block \o <<Sign>> \o Semi
                        \o Is("j", "15") \o Semi \o <<Tok("}")>>,
                      Found1(<<Field1("i", "14"), Field1("j", "15")>>, Empty, Empty),
                      Found1(<<Field1("i", "14"), Field1("j", "15")>>, Empty, Empty), TRUE)]

\* The parts of a service.
Call(name, input, output) == <<Tok("rpc"), Id(name), Tok("(")>> \o input \o <<Tok(")"), Id("returns"), Tok("(")>> \o output \o <<Tok(")")>>
One == <<Id("M")>>
Many == <<Id("stream"), Id("M")>>

ServiceParts ==
    [unary  |-> Known(Call("r", One, One) \o Semi, <<<<"r", "M", "", "M", "">>>>),
     stream |-> Known(Call("q", Many, One) \o <<Tok("{")>> \o Custom \o Block \o Semi \o <<Tok("nl")>> \o Custom
                        \o <<Sign>> \o Semi \o <<Tok("}")>>, <<<<"q", "stream", "M", "M", "">>>>),
     option |-> Known(<<Tok("option"), Id("deprecated"), Tok("="), Id("true")>> \o Semi \o <<Tok("nl")>>, <<>>),
     cut    |-> Part(Custom \o Block \o Semi, <<>>, <<>>, TRUE)]

Concat(ps, F(_)) == FoldLeft(LAMBDA a, q : a \o F(q), <<>>, ps)
Union(ps, F(_)) == FoldLeft(LAMBDA a, q : a @@ F(q), Empty, ps)
BeforeCut(ps) ==
    LET cuts == {i \in DOMAIN ps : ps[i].cut}
    IN IF cuts = {} THEN ps ELSE SubSeq(ps, 1, CHOOSE i \in cuts : \A j \in cuts : i <= j)
Cut(ps) == \E i \in DOMAIN ps : ps[i].cut

Schema1(p, founds, rpcs) ==
    [message |-> (Append(p, "A") :> Concat(founds, LAMBDA q : q.fields)) @@ Union(founds, LAMBDA q : q.messages),
     enum    |-> Union(founds, LAMBDA q : q.enums),
     service |-> Append(p, "S") :> Concat(rpcs, LAMBDA q : q)]

All(ps)  == [i \in DOMAIN ps |-> ps[i].all]
ReadOf(ps) == LET b == BeforeCut(ps) IN [i \in DOMAIN b |-> b[i].read]
PartsOf(parts, names) == [i \in DOMAIN names |-> parts[names[i]]]
TextOf(ps) == Concat(ps, LAMBDA q : q.text)

\* A file: its package first, or last, or not at all.
File(where, names, calls) ==
    LET p == IF where = "none" THEN <<>> ELSE <<"p">>
        known == IF where = "first" THEN <<"p">> ELSE <<>>
        ss == PartsOf(ServiceParts, calls)
        package == <<Tok("package"), Id("p")>> \o Semi
    IN [text |-> <<Tok("syntax"), Tok("="), Quote>> \o Semi \o <<Tok("option"), Id("y"), Tok("="), Sign>> \o Semi
                 \o <<Tok("nl")>> \o (IF where = "first" THEN package ELSE <<>>)
                 \o <<Tok("service"), Id("S"), Tok("{")>> \o TextOf(ss) \o <<Tok("}"), Tok("nl")>>
                 \o <<Tok("message"), Id("A"), Tok("{")>> \o TextOf(PartsOf(Parts(<<"A">>), names)) \o <<Tok("}")>>
                 \o (IF where = "last" THEN package ELSE <<>>),
        means |-> {[all |-> Schema1(p, All(PartsOf(Parts(Append(p, "A")), names)), All(ss)),
                    read |-> Schema1(known, ReadOf(PartsOf(Parts(Append(known, "A")), names)), ReadOf(ss)),
                    cut |-> Cut(PartsOf(Parts(p), names)) \/ Cut(ss)]}]

\* Sequences of at most n parts, each once: protoc refuses a name twice.
OnceEach(parts, n) == {s \in UNION {[1 .. k -> parts] : k \in 0 .. n} : IsInjective(s)}

Places == {"none", "first", "last"}

Written ==
    {File(w, s, <<"unary", "stream">>) : w \in Places,
        s \in OnceEach(DOMAIN Parts(<<>>), 2) \cup OnceEach({"field", "oneof", "nested", "enum", "group", "odd", "cut"}, 3)}
    \cup {File(w, <<"field">>, s) : w \in Places, s \in OnceEach(DOMAIN ServiceParts, 3)}

Anything(head, alphabet, n) ==
    {[text |-> head \o tail, means |-> {}] : tail \in UNION {[1 .. k -> alphabet] : k \in 0 .. n}}

Punctuation == {Tok("{"), Tok("}"), Tok(";"), Tok("nl")}

MCDocuments ==
    Written
    \cup Anything(<<>>, Punctuation \cup {Tok("message"), Tok("syntax"), Tok("package"), Id("A"), Tok("service")}, 4)
    \cup Anything(<<Tok("message"), Id("A"), Tok("{")>>,
                  Punctuation \cup {Label("optional"), Glued("f"), Tok("oneof"), Tok("option"), Tok("message"), Tok("enum")}, 4)
    \cup Anything(<<Tok("service"), Id("V"), Tok("{")>>, Punctuation \cup {Tok("rpc"), Glued("r"), Tok("(")}, 4)
    \cup Anything(<<Tok("enum"), Id("E"), Tok("{")>>, Punctuation \cup {Id("v"), Tok("reserved")}, 4)

MCTexts == UNION {[1 .. n -> {"/", "*", "nl", "x"}] : n \in 0 .. 6}
=============================================================================
