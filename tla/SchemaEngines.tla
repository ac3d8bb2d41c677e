---------------------------- MODULE SchemaEngines ----------------------------
(***************************************************************************)
(* The GraphQL and Protobuf engines over the releases of an API.           *)
(*                                                                         *)
(* In the areas "graphql" and "proto" versions are released one after the  *)
(* other and each is compared with the one before; "parser" runs the       *)
(* Protobuf parser over one document, "comments" strips one text.  The     *)
(* areas share no state and are explored in one run.                       *)
(*                                                                         *)
(* What a release breaks is defined here by what its users do, and not by  *)
(* how the engines compare: a GraphQL client that sends arguments and      *)
(* inputs and reads results, a Protobuf peer that sends and reads numbered *)
(* fields, enum values by number or name, and calls.                       *)
(***************************************************************************)
EXTENDS GraphQlDiff, ProtoDiff, ProtoParser

CONSTANTS
    GraphQlDocuments, \* sequences of definitions and extensions, at most one of a name
    ProtoSchemas,     \* schemas parse_proto may return
    Texts,            \* sequences of characters
    MaxReleases       \* bound on the versions of one API

\* A document the parser returned; a schema that protoc accepts, which allows a
\* number or a name once; tokens; characters.
ASSUME DocumentsAssumption ==
    /\ GraphQlDocuments \subseteq Seq(GqlItems)
    /\ \A s \in ProtoSchemas : IsProtoSchema(s)
ASSUME TokensAssumption ==
    \A d \in Documents : d.text \in Seq([t : STRING, v : STRING])
ASSUME TextsAssumption == Texts \subseteq Seq(STRING)
ASSUME ReleasesAssumption == MaxReleases \in Nat

VARIABLES
    area,
    releases, \* the versions so far
    reports,  \* reports[i]: the changes of releases[i + 1]
    stripped, \* of a text: [from, to, done]
    turns     \* for a property: turns of the parser's loops so far

vars == <<parserVars, area, releases, reports, stripped, turns>>

NoDocument == [text |-> <<>>, means |-> {}]

Idle ==
    /\ document = NoDocument /\ rest = <<>> /\ scopes = <<>> /\ verdict = "ok"
    /\ parsed = [kind \in {"message", "enum", "service"} |-> [n \in {} |-> n]]

Init ==
    /\ area \in {"graphql", "proto", "parser", "comments"}
    /\ releases = <<>> /\ reports = <<>> /\ turns = 0
    /\ IF area = "parser" THEN ParserInit ELSE Idle
    /\ IF area = "comments" THEN \E t \in Texts : stripped = [from |-> t, to |-> t, done |-> FALSE]
       ELSE stripped = [from |-> <<>>, to |-> <<>>, done |-> TRUE]

-----------------------------------------------------------------------------
Schema(release) == IF area = "graphql" THEN ParseGraphQl(release) ELSE release

Diff(a, b) ==
    IF area = "graphql" THEN DiffGraphQl(Schema(a), Schema(b)) ELSE DiffProto(Schema(a), Schema(b))

Release(v) ==
    /\ Len(releases) < MaxReleases
    /\ releases' = Append(releases, v)
    /\ reports' = IF releases = <<>> THEN reports ELSE Append(reports, Diff(Last(releases), v))
    /\ UNCHANGED <<parserVars, area, stripped, turns>>

Strip ==
    /\ area = "comments" /\ ~stripped.done
    /\ stripped' = [stripped EXCEPT !.to = StripComments(stripped.from), !.done = TRUE]
    /\ UNCHANGED <<parserVars, area, releases, reports, turns>>

ParseStep ==
    /\ area = "parser" /\ Parse
    /\ turns' = turns + 1
    /\ UNCHANGED <<area, releases, reports, stripped>>

\* The run may stop anywhere but in the middle of a document: that deadlocks.
Done == (area = "parser" => verdict # "running") /\ UNCHANGED vars

Next ==
    \/ area = "graphql" /\ \E v \in GraphQlDocuments : Release(v)
    \/ area = "proto" /\ \E v \in ProtoSchemas : Release(v)
    \/ Strip
    \/ ParseStep
    \/ Done

Spec == Init /\ [][Next]_vars

-----------------------------------------------------------------------------
(* What a release means to its users.                                      *)

\* What a client may send for an input: nothing, null, or a value.
Sendable(i) == {"value"} \cup (IF i.type.nonNull THEN {} ELSE {"null"})
                         \cup (IF Required(i) THEN {} ELSE {"nothing"})

\* What was right to send to inputs b is wrong for inputs h.
InputBroken(b, h) ==
    \/ \E n \in DOMAIN b \ DOMAIN h : Sendable(b[n]) # {"nothing"}
    \/ \E n \in DOMAIN h \ DOMAIN b : Required(h[n])
    \/ \E n \in DOMAIN b \cap DOMAIN h :
          b[n].type.named # h[n].type.named \/ ~(Sendable(b[n]) \subseteq Sendable(h[n]))

\* A field that was read has gone, may be null now, or cannot be asked for.
OutputBroken(b, h) ==
    \/ DOMAIN b \ DOMAIN h # {}
    \/ \E n \in DOMAIN b \cap DOMAIN h :
          \/ b[n].type.named # h[n].type.named
          \/ b[n].type.nonNull /\ ~h[n].type.nonNull
          \/ InputBroken(ByName(b[n].args), ByName(h[n].args))

TypeBroken(b, h) ==
    \/ b.kind # h.kind
    \/ b.kind = "input" /\ InputBroken(ByName(b.fields), ByName(h.fields))
    \/ b.kind \in {"object", "interface"} /\ OutputBroken(ByName(b.fields), ByName(h.fields))
    \/ ~(ToSet(b.members) \subseteq ToSet(h.members))

GraphQlBroken(b, h) ==
    \E n \in DOMAIN b : n \notin DOMAIN h \/ TypeBroken(b[n], h[n])

\* A peer of the old version sends a field that is read as something else or
\* not at all, an enum number or name that is not known, or a call.
MessageBroken(b, h) ==
    \E i \in DOMAIN b : ~\E j \in DOMAIN h : h[j].number = b[i].number /\ h[j].type = b[i].type

EnumBroken(b, h) ==
    \E i \in DOMAIN b : ~\E j \in DOMAIN h : h[j].number = b[i].number /\ h[j].name = b[i].name

ServiceBroken(b, h) ==
    \E i \in DOMAIN b : ~\E j \in DOMAIN h :
        h[j].name = b[i].name /\ h[j].input = b[i].input /\ h[j].output = b[i].output

MapBroken(b, h, Broken(_, _)) == \E n \in DOMAIN b : n \notin DOMAIN h \/ Broken(b[n], h[n])

ProtoBroken(b, h) ==
    \/ MapBroken(b.messages, h.messages, MessageBroken)
    \/ MapBroken(b.enums, h.enums, EnumBroken)
    \/ MapBroken(b.services, h.services, ServiceBroken)

Broken(a, b) ==
    IF area = "graphql" THEN GraphQlBroken(Schema(a), Schema(b)) ELSE ProtoBroken(Schema(a), Schema(b))

\* Of one name, what only became more, or less, willing to be null.
Nullable(b, h) ==
    \E n \in DOMAIN b \cap DOMAIN h :
        b[n].type.named = h[n].type.named /\ b[n].type.nonNull # h[n].type.nonNull

TypeNullability(b, h) ==
    LET bs == ByName(b.fields)
        hs == ByName(h.fields) IN
    /\ b.kind = h.kind
    /\ \/ Nullable(bs, hs)
       \/ \E n \in DOMAIN bs \cap DOMAIN hs : Nullable(ByName(bs[n].args), ByName(hs[n].args))

\* A field or an argument of which only the nullability changed.
NullabilityOnly(b, h) == \E n \in DOMAIN b \cap DOMAIN h : TypeNullability(b[n], h[n])

-----------------------------------------------------------------------------
(* Properties.                                                             *)

\* Types of the variables; every report belongs to a release.
TypeOK ==
    /\ area \in {"graphql", "proto", "parser", "comments"}
    /\ Len(releases) <= MaxReleases /\ verdict \in {"running", "ok", "error"}
    /\ Len(reports) = (IF releases = <<>> THEN 0 ELSE Len(releases) - 1)
    /\ \A i \in DOMAIN scopes : scopes[i].kind \in {"message", "enum", "service", "oneof"}
    /\ \A i \in DOMAIN reports : \A c \in reports[i] : c.severity \in {"breaking", "risky", "safe"}

Last2 == Len(releases) >= 2
Before == releases[Len(releases) - 1]

\* A release that breaks one of its users is reported as breaking.
NoMissedBreak == Last2 /\ Broken(Before, Last(releases)) => Breaking(Last(reports)) # {}

\* A release reported as breaking breaks a user, but for GraphQL fields and
\* arguments of which the nullability changed: those are breaking either way.
AlarmsAreReal ==
    Last2 /\ Breaking(Last(reports)) # {} =>
        \/ Broken(Before, Last(releases))
        \/ area = "graphql" /\ NullabilityOnly(Schema(Before), Schema(Last(releases)))

\* Two equal versions have no changes: O-3, a custom scalar once had one.
SelfDiffIsEmpty == releases # <<>> => Diff(Last(releases), Last(releases)) = {}

\* A report is what the release did to its users, in both engines.
ReportsAreTrue == TypeOK /\ NoMissedBreak /\ AlarmsAreReal /\ SelfDiffIsEmpty

\* Releases that are each compatible with the one before are compatible with
\* one another: whoever skips a version is not broken by the sum.
SafeStepsCompose ==
    \A i, j \in DOMAIN releases :
        i < j /\ (\A k \in i .. j - 1 : Breaking(reports[k]) = {})
            => Breaking(Diff(releases[i], releases[j])) = {}

\* Of a name there is at most one definition and one extension, of one kind.
EachOnce(doc) ==
    \A i, j \in DOMAIN doc :
        i # j /\ doc[i].name = doc[j].name =>
            doc[i].extends # doc[j].extends /\ doc[i].type.kind = doc[j].type.kind

\* An extension may come before or after its type, and its parts are added
\* to those of the type.
ExtensionsAnywhere ==
    area = "graphql" /\ releases # <<>> /\ EachOnce(Last(releases)) =>
        LET doc == Last(releases)
            map == ParseGraphQl(doc) IN
        /\ map = ParseGraphQl(Reverse(doc))
        /\ \A i \in DOMAIN doc :
              LET t == ConvertTypeDef(doc[i].type) IN
              doc[i].name \notin Builtins =>
                /\ ToSet(t.fields) \subseteq ToSet(map[doc[i].name].fields)
                /\ ToSet(t.members) \subseteq ToSet(map[doc[i].name].members)

\* A meaning of a document is [all, read, cut], where all and read are as
\* parsed: all is what protoc finds; read leaves out what is written in a way
\* this parser does not know (a number in hexadecimal, '=' or 'map' and its
\* bracket not spaced as usual, a group, a block among the options of a field,
\* a package behind a declaration).  With cut, an option of a declaration has a
\* block for its value, and read is what stands before it.
Read == IF area = "parser" /\ verdict # "running" THEN document.means ELSE {}

\* Every field, value and rpc of a document ends up in the declaration it is
\* written in, with its type and number and under that declaration's qualified
\* name; what the parser does not know takes nothing else with it, but for an
\* option with a block, which leaves what stands before it.
EveryDeclarationIsRead ==
    \A m \in Read :
        /\ ~m.cut => parsed = m.read
        /\ \A kind \in DOMAIN m.read : \A n \in DOMAIN m.read[kind] :
              n \in DOMAIN parsed[kind] /\ parsed[kind][n] = m.read[kind][n]

\* An option is skipped as one statement, as skip_statement says of itself:
\* the declarations behind it are read.
OptionsAreSkipped == \A m \in Read : m.cut => parsed = m.all

\* No comment is left, so nothing in a comment is parsed.
NoCommentIsLeft ==
    stripped.done =>
        \A i \in 1 .. Len(stripped.to) - 1 :
            ~(stripped.to[i] = "/" /\ stripped.to[i + 1] \in {"/", "*"})

LineBreaks(s) == {i \in DOMAIN s : s[i] = "nl"}

\* Statements that end at a line break still do after comments are stripped.
LinesAreKept ==
    stripped.done => Cardinality(LineBreaks(stripped.to)) = Cardinality(LineBreaks(stripped.from))

\* Every turn of the parser's loops consumes text, on any text, and a block
\* that opens has consumed enough for the return from it: so there are no
\* more turns than tokens and, with no deadlock, the parser comes to an end.
EveryTurnAdvances == turns <= Len(document.text) + 1

\* The parsers read a document to its end, wherever its parts and comments
\* are, and keep what is no comment.
DocumentsAreRead == ExtensionsAnywhere /\ NoCommentIsLeft /\ LinesAreKept /\ EveryTurnAdvances
=============================================================================
