----------------------------- MODULE ProtoParser -----------------------------
(***************************************************************************)
(* The scanner of parse_proto (radar-core/src/proto.rs): strip_comments    *)
(* over characters, and the recursive descent over what is left, here one  *)
(* action per turn of one of its loops with the call stack in scopes.      *)
(*                                                                         *)
(* A token is a word of the text with its class, [t, v].  Words stand      *)
(* between white space, braces, parentheses and ";"; "nl" is a line break, *)
(* which ends some statements.  The class is the word itself where the     *)
(* parser compares it, and otherwise                                       *)
(*   "id"     letters, digits, '_' and '.': also a hexadecimal number      *)
(*   "num"    a decimal number; "num[" one with options glued to it; "neg" *)
(*            a negative one                                               *)
(*   "label"  repeated, optional, required                                 *)
(*   "map"    map<K,V>, spaces between the brackets or not                 *)
(*   "glued"  a word that starts like an "id" and goes on: v is its start  *)
(*   "sign"   a word that starts with any other character.                 *)
(***************************************************************************)
EXTENDS Naturals, FiniteSets, SequencesExt

CONSTANT Documents \* inputs [text, means]: what the text means, if anything

VARIABLES
    document,
    rest,    \* the tokens from *pos on
    scopes,  \* the calls that are open: [kind, name, items]
    parsed,  \* kind of scope -> qualified name -> items
    verdict  \* "running", "ok" or "error"

parserVars == <<document, rest, scopes, parsed, verdict>>

Tok(t) == [t |-> t, v |-> t]

Keywords == {"message", "enum", "service", "oneof", "rpc", "option", "reserved", "syntax", "package", "import"}

-----------------------------------------------------------------------------
(* strip_comments.                                                         *)

\* Mutant: a block comment takes its line breaks with it.
KeptInBlock_Nothing(c) == <<>>

\* In a block comment the line breaks stay.
KeptInBlock(c) == IF c = "nl" THEN <<"nl">> ELSE <<>>

\* After a star in a block comment: the end, another star, or text.
AfterStar(c) == IF c = "/" THEN "text" ELSE IF c = "*" THEN "star" ELSE "block"

AfterSlash(c) == IF c = "/" THEN "line" ELSE IF c = "*" THEN "block" ELSE "text"

\* One character.  A slash waits for what follows it.
StripChar(s, c) ==
    CASE s.mode = "text" ->
           IF c = "/" THEN [s EXCEPT !.mode = "slash"] ELSE [s EXCEPT !.out = Append(@, c)]
      [] s.mode = "slash" ->
           [mode |-> AfterSlash(c),
            out |-> IF AfterSlash(c) = "text" THEN s.out \o <<"/", c>> ELSE s.out]
      [] s.mode = "line" ->
           IF c = "nl" THEN [mode |-> "text", out |-> Append(s.out, c)] ELSE s
      [] s.mode = "block" ->
           [mode |-> IF c = "*" THEN "star" ELSE "block", out |-> s.out \o KeptInBlock(c)]
      [] s.mode = "star" -> [mode |-> AfterStar(c), out |-> s.out \o KeptInBlock(c)]

StripComments(chars) ==
    LET s == FoldLeft(StripChar, [mode |-> "text", out |-> <<>>], chars) IN
    IF s.mode = "slash" THEN Append(s.out, "/") ELSE s.out

-----------------------------------------------------------------------------
(* Moving through the tokens.                                              *)

Until(s, stops) ==
    LET ends == {i \in DOMAIN s : s[i].t \in stops}
    IN IF ends = {} THEN Len(s) ELSE (CHOOSE i \in ends : \A j \in ends : i <= j) - 1

From(s, n) == SubSeq(s, n + 1, Len(s))

SkipWs(s) == From(s, Until(s, {s[i].t : i \in DOMAIN s} \ {"nl"}))

Starts(s, t) == s # <<>> /\ Head(s).t = t

\* Up to and with ';' or the line break; a '}' stays.
SkipStatement(s) ==
    LET d == From(s, Until(s, {";", "nl", "}"}))
    IN IF d = <<>> \/ Starts(d, "}") THEN d ELSE Tail(d)

Depth(s, n) == Cardinality({i \in 1 .. n : s[i].t = "{"}) - Cardinality({i \in 1 .. n : s[i].t = "}"})

\* Mutant: the block ends at its first closing brace.
SkipBalanced_First(s) == From(s, Until(s, {"}"}) + 1)

\* From the opening brace to the one that closes it, or to the end.
SkipBalanced(s) ==
    LET ends == {n \in DOMAIN s : Depth(s, n) = 0}
    IN IF ends = {} THEN <<>> ELSE From(s, CHOOSE n \in ends : \A m \in ends : n <= m)

\* read_ident: a keyword is a name too, and of some words the end is left.
IsWord(s) == s # <<>> /\ Head(s).t \in Keywords \cup {"id", "label", "num", "num[", "map", "glued"}

AfterIdent(s) ==
    IF ~IsWord(s) THEN s
    ELSE IF Head(s).t \in {"num[", "map", "glued"} THEN <<[t |-> "sign", v |-> "tail"]>> \o Tail(s) ELSE Tail(s)

Ident(s) == IF IsWord(s) THEN IF Head(s).t = "map" THEN "map" ELSE Head(s).v ELSE ""

-----------------------------------------------------------------------------
(* What a statement declares, as the sequence of its names and numbers.    *)

\* The k-th word of a statement; one that has fewer ends in empty ones.
Word(s, k) ==
    LET at == {i \in DOMAIN s : s[i].t # "nl" /\ Cardinality({j \in 1 .. i : s[j].t # "nl"}) = k}
    IN IF at = {} THEN Tok("") ELSE s[CHOOSE i \in at : TRUE]

\* parse_field_stmt: label? type name = number; a map is a type.  Of the
\* labels only repeated is part of the type.
FieldStmt(s) ==
    LET l == IF Word(s, 1).t = "label" THEN 1 ELSE 0 IN
    IF /\ Word(s, 1).t \notin {"option", "reserved", "oneof", "syntax", "package", "import", "message", "enum"}
       /\ Word(s, l + 3).t = "=" /\ Word(s, l + 4).t \in {"num", "num["}
    THEN {<<IF Word(s, 1).v = "repeated" THEN "repeated" ELSE "",
            Word(s, l + 1).v, Word(s, l + 2).v, Word(s, l + 4).v>>}
    ELSE {}

\* parse_enum_value_stmt: name = number.
EnumValueStmt(s) ==
    IF /\ Word(s, 1).t \notin {"option", "reserved"}
       /\ Word(s, 2).t = "=" /\ Word(s, 3).t \in {"num", "num[", "neg"}
    THEN {<<Word(s, 1).v, Word(s, 3).v>>}
    ELSE {}

\* parse_rpc_sig: what stands in the first parentheses, and after them.
Inside(s) ==
    LET from == From(s, Until(s, {"("}) + 1)
        n == Until(from, {")"})
    IN IF n = Len(from) THEN <<>> ELSE SubSeq(from, 1, n)

Behind(s) ==
    LET from == From(s, Until(s, {"("}) + 1)
    IN From(from, Until(from, {")"}) + 1)

\* A side is a message, or stream and a message.
Signature(s) ==
    LET input == Inside(s)
        output == Inside(Behind(s))
    IN <<Word(input, 1).v, Word(input, 2).v, Word(output, 1).v, Word(output, 2).v>>

\* find_package: the first statement that is a package with a name, where a
\* statement is what stands between two ";".
PackageAt(s) ==
    {i \in DOMAIN s :
        /\ s[i].t = "package"
        /\ \A j \in 1 .. i - 1 : s[j].t # "nl" => \E k \in j .. i - 1 : s[k].t = ";"
        /\ Word(SubSeq(s, i + 1, i + Until(From(s, i), {";"})), 1).t # ""}

Package(s) ==
    IF PackageAt(s) = {} THEN <<>>
    ELSE LET i == CHOOSE i \in PackageAt(s) : \A j \in PackageAt(s) : i <= j
         IN <<Word(From(s, i), 1).v>>

\* A line that starts with syntax = "proto.
HasProtoSyntax(s) ==
    \E i \in DOMAIN s :
        /\ s[i].t = "syntax" /\ (i = 1 \/ s[i - 1].t = "nl")
        /\ i + 2 \in DOMAIN s /\ s[i + 1].t = "=" /\ s[i + 2].v = "proto"

-----------------------------------------------------------------------------
(* The parser.                                                             *)

ParserInit ==
    /\ document \in Documents
    /\ rest = document.text /\ scopes = <<>> /\ verdict = "running"
    /\ parsed = [kind \in {"message", "enum", "service"} |-> [n \in {} |-> n]]

Text == SkipWs(rest)
Top == IF scopes = <<>> THEN "top" ELSE Last(scopes).kind
Running == verdict = "running" /\ Text # <<>>

Outer == IF scopes = <<>> THEN Package(document.text) ELSE Last(scopes).name

Qualify(prefix, name) == Append(prefix, name)

Push(kind, name) ==
    scopes' = Append(scopes, [kind |-> kind, name |-> IF name = "" THEN <<>> ELSE Qualify(Outer, name),
                              named |-> name # "", items |-> <<>>])

\* What may open a block here.
Opens == CASE Top = "top" -> {"message", "enum", "service"}
           [] Top = "message" -> {"message", "enum", "oneof"}
           [] OTHER -> {}

\* parse_message, parse_enum, parse_service and oneof from the keyword to the
\* brace; without a brace the call returns where it is.
Open ==
    /\ Running /\ Head(Text).t \in Opens
    /\ LET afterWord == SkipWs(Tail(Text))
           body == SkipWs(AfterIdent(afterWord)) IN
       IF Starts(body, "{")
       THEN rest' = Tail(body) /\ Push(Head(Text).t, Ident(afterWord))
       ELSE rest' = body /\ UNCHANGED scopes
    /\ UNCHANGED <<document, parsed, verdict>>

\* The call returns and its declaration, if it has a name, enters the schema;
\* a later one of the same name replaces it.
Close ==
    /\ verdict = "running" /\ scopes # <<>> /\ (Text = <<>> \/ Starts(Text, "}"))
    /\ rest' = IF Text = <<>> THEN Text ELSE Tail(Text)
    /\ LET s == Last(scopes) IN
       /\ scopes' = Front(scopes)
       /\ parsed' = IF s.named /\ s.kind # "oneof"
                    THEN [parsed EXCEPT ![s.kind] = (s.name :> s.items) @@ @] ELSE parsed
    /\ UNCHANGED <<document, verdict>>

\* A stray brace at the top is ignored.
StrayBrace ==
    /\ Running /\ scopes = <<>> /\ Starts(Text, "}")
    /\ rest' = Tail(Text)
    /\ UNCHANGED <<document, scopes, parsed, verdict>>

Declare(i, items) == scopes' = [scopes EXCEPT ![i].items = @ \o items]

\* What a statement of a message, a oneof or an enum declares, if anything.
Found(s) ==
    LET items == IF Top = "enum" THEN EnumValueStmt(s) ELSE FieldStmt(s)
    IN IF items = {} THEN <<>> ELSE <<CHOOSE item \in items : TRUE>>

\* The members of a oneof are fields of its message.
Owner == IF Top = "oneof" THEN Len(scopes) - 1 ELSE Len(scopes)

\* A statement of a message, a oneof or an enum, read up to its end; only a
\* message looks out for a block.
Statement ==
    /\ Running /\ Top \in {"message", "oneof", "enum"} /\ ~Starts(Text, "}")
    /\ Head(Text).t \notin Opens
    /\ Top # "oneof" => ~Starts(Text, "option") /\ ~Starts(Text, "reserved")
    /\ LET n == Until(Text, IF Top = "message" THEN {";", "{", "}"} ELSE {";", "}"})
           after == From(Text, n) IN
       IF Top = "message" /\ Starts(after, "{")
       THEN rest' = SkipBalanced(after) /\ UNCHANGED scopes
       ELSE /\ rest' = IF Starts(after, ";") THEN Tail(after) ELSE after
            /\ Declare(Owner, Found(SubSeq(Text, 1, n)))
    /\ UNCHANGED <<document, parsed, verdict>>

\* option and reserved of a message or an enum, and what is no rpc in a service.
Skip ==
    /\ Running /\ ~Starts(Text, "}")
    /\ (Top \in {"message", "enum"} /\ (Starts(Text, "option") \/ Starts(Text, "reserved")))
       \/ (Top = "service" /\ ~Starts(Text, "rpc"))
    /\ rest' = SkipStatement(Text)
    /\ UNCHANGED <<document, scopes, parsed, verdict>>

\* An rpc: its name, then its signature up to its block or ';'.
Rpc ==
    /\ Running /\ Top = "service" /\ Starts(Text, "rpc")
    /\ LET afterWord == SkipWs(Tail(Text))
           name == Ident(afterWord)
           sig == AfterIdent(afterWord)
           n == Until(sig, {"{", ";"})
           after == From(sig, n) IN
       /\ rest' = IF Starts(after, "{") THEN SkipBalanced(after)
                  ELSE IF after = <<>> THEN after ELSE Tail(after)
       /\ Declare(Len(scopes), IF name = "" THEN <<>> ELSE <<<<name>> \o Signature(SubSeq(sig, 1, n))>>)
    /\ UNCHANGED <<document, parsed, verdict>>

\* Anything else at the top: up to the end of the line, statement or block.
TopStatement ==
    /\ Running /\ scopes = <<>> /\ ~Starts(Text, "}") /\ Head(Text).t \notin Opens
    /\ LET after == From(Text, Until(Text, {";", "nl", "{", "}"})) IN
       rest' = IF Starts(after, "{") THEN SkipBalanced(after)
               ELSE IF after = <<>> \/ Starts(after, "}") THEN after ELSE Tail(after)
    /\ UNCHANGED <<document, scopes, parsed, verdict>>

\* Nothing found and no syntax statement: not a protobuf schema.
Finish ==
    /\ verdict = "running" /\ scopes = <<>> /\ Text = <<>>
    /\ verdict' = IF \A kind \in DOMAIN parsed : DOMAIN parsed[kind] = {}
                     /\ ~HasProtoSyntax(document.text)
                  THEN "error" ELSE "ok"
    /\ UNCHANGED <<document, rest, scopes, parsed>>

Parse == Open \/ Close \/ StrayBrace \/ Statement \/ Skip \/ Rpc \/ TopStatement \/ Finish
=============================================================================
