----------------------------- MODULE OpenApiDiff -----------------------------
(***************************************************************************)
(* The OpenAPI diff engine (radar-core/src/diff.rs).  diff_openapi         *)
(* compares the operations of two specifications and walks down their      *)
(* schemas.  A schema object is a node: a $ref leads to the node of its    *)
(* component, so the graph of a specification may have cycles.  A pointer  *)
(* to a schema is its node and its copy: 0 is the specification's own, and *)
(* every flattened allOf makes copies of the schemas written inside it.    *)
(*                                                                         *)
(* The frames of the recursion share nothing but the list of changes, so   *)
(* the frames to run and the changes are sets and any frame may be next.   *)
(*                                                                         *)
(* A label is the path of a change below its operation: the root, then the *)
(* properties and the positions of variants that lead to it.               *)
(***************************************************************************)
EXTENDS Integers, Sequences, FiniteSets

CONSTANTS
    Comparisons,  \* pairs of specifications that parse_openapi may return
    Nodes,        \* schema objects
    StackLimit,   \* calls of diff_schema_properties that the stack has room for
    Absent          \* absent, or a $ref that does not resolve

ASSUME NodesAssumption == IsFiniteSet(Nodes)

ASSUME StackAssumption == StackLimit \in Nat

\* The responses of an operation are a map by status.
ASSUME ComparisonsAssumption ==
    \A c \in Comparisons : \A k \in DOMAIN c[1].ops :
      \A i, j \in DOMAIN c[1].ops[k].responses :
        /\ c[1].ops[k].responses[i] # Absent
        /\ c[1].ops[k].responses[i].status = c[1].ops[k].responses[j].status => i = j

VARIABLES
    base, head,   \* the specifications compared
    phase,        \* "start", then "walk"; "overflow" when the process has died of it
    todo,         \* frames of diff_schema_properties that have not run
    reported,     \* the changes so far
    skipped       \* (history) why the walker left something uncompared

walkVars == <<base, head, phase, todo, reported, skipped>>

\* A specification is [ops, schema].  ops maps an operation key, its template variables
\* collapsed, to [shared, own, body, responses]; schema maps a node to
\* [kind, nullable, enum, format, min, max, props, required, closed, items, members].
\* Schemas refer to each other by edges [to |-> node, ref |-> is it a $ref].
Scalars == {"string", "integer"}

WalkInit ==
    /\ \E c \in Comparisons : base = c[1] /\ head = c[2]
    /\ phase = "start"
    /\ todo = {}
    /\ reported = {}
    /\ skipped = {}

Change(op, label, kind, severity, what) ==
    [op |-> op, label |-> label, kind |-> kind, severity |-> severity, what |-> what, value |-> 0]

Property(p) == <<"property", p>>
Position(i) == <<"variant", i>>

-----------------------------------------------------------------------------
(* Operations *)

\* Parameters of the path item, overridden by those of the operation.
Params(op) ==
    [k \in DOMAIN op.shared \cup DOMAIN op.own |->
        IF k \in DOMAIN op.own THEN op.own[k] ELSE op.shared[k]]

IsNew(bp, k) == k \notin DOMAIN bp

\* A parameter is [name |-> n, in |-> i] mapped to [required, type].
ParamChanges(op, b, h) ==
    LET bp == Params(b)
        hp == Params(h)
        Both == DOMAIN bp \cap DOMAIN hp
        At(k, kind, severity) == Change(op, <<"param", k.name>>, kind, severity, k.in)
    IN  {At(k, "RequiredChanged", "breaking") : k \in {k \in DOMAIN hp : IsNew(bp, k) /\ hp[k].required}}
        \cup {At(k, "ParameterRemoved", IF bp[k].required THEN "breaking" ELSE "risky")
                : k \in DOMAIN bp \ DOMAIN hp}
        \cup {At(k, "TypeChanged", "breaking")
                : k \in {k \in Both : /\ bp[k].type # Absent
                                      /\ hp[k].type # Absent
                                      /\ bp[k].type # hp[k].type}}
        \cup {At(k, "RequiredChanged", IF hp[k].required THEN "breaking" ELSE "safe")
                : k \in {k \in Both : bp[k].required # hp[k].required}}

\* A body is [required, json, schema]; json says whether it has application/json.
BodyChanges(op, b, h) ==
    LET At(kind, severity, what) == {Change(op, <<"request_body">>, kind, severity, what)}
    IN  CASE b = Absent /\ h = Absent -> {}
          [] b # Absent /\ h = Absent -> At("RequestBodyRemoved", "breaking", "body")
          [] b = Absent /\ h # Absent ->
               At("RequestBodyAdded", IF h.required THEN "breaking" ELSE "safe", "body")
          [] OTHER ->
               (IF b.required = h.required THEN {}
                ELSE At("RequiredChanged", IF h.required THEN "breaking" ELSE "safe", "body"))
               \cup (IF b.json /\ ~h.json THEN At("TypeChanged", "breaking", "media") ELSE {})

\* A response is [status, found, json, schema]; the status 2XX is 0, and a response behind
\* a $ref that does not resolve is not found.
Is2xx(status) == status = 0 \/ (200 <= status /\ status < 300)

Covers(s, t) == (s = 0 /\ Is2xx(t)) \/ (t = 0 /\ Is2xx(s))

\* find_matching_response: the same status, or the first whose range covers it.
MatchingResponse(responses, status) ==
    LET same == {i \in DOMAIN responses : responses[i].status = status}
        near == {i \in DOMAIN responses : Covers(responses[i].status, status)}
    IN  IF same # {} THEN responses[CHOOSE i \in same : TRUE]
        ELSE IF near # {} THEN responses[CHOOSE i \in near : \A j \in near : i <= j]
        ELSE Absent

\* A range on one side stands for several codes on the other: only one is compared.
Ambiguous(responses, status) ==
    /\ \A i \in DOMAIN responses : responses[i].status # status
    /\ \E i, j \in DOMAIN responses :
         i # j /\ Covers(responses[i].status, status) /\ Covers(responses[j].status, status)

Answers(op) == {i \in DOMAIN op.responses : Is2xx(op.responses[i].status) /\ op.responses[i].found}

ResponseChanges(op, b, h) ==
    LET New(i) == MatchingResponse(h.responses, b.responses[i].status)
        At(i, kind, what) == Change(op, <<"status", b.responses[i].status>>, kind, "breaking", what)
    IN  {At(i, "ResponseRemoved", "response") : i \in {i \in Answers(b) : New(i) = Absent}}
        \cup {At(i, "TypeChanged", "media")
                : i \in {i \in Answers(b) : /\ New(i) # Absent
                                            /\ New(i).found
                                            /\ b.responses[i].json
                                            /\ ~New(i).json}}

OperationChanges ==
    {Change(k, <<>>, "OperationRemoved", "breaking", "operation") : k \in DOMAIN base.ops \ DOMAIN head.ops}
    \cup {Change(k, <<>>, "OperationAdded", "safe", "operation") : k \in DOMAIN head.ops \ DOMAIN base.ops}
    \cup UNION {ParamChanges(k, base.ops[k], head.ops[k])
                \cup BodyChanges(k, base.ops[k].body, head.ops[k].body)
                \cup ResponseChanges(k, base.ops[k], head.ops[k])
                  : k \in DOMAIN base.ops \cap DOMAIN head.ops}

\* A call: the base schema is copy `copy` of b; the ancestors are the calls it is nested in.
Frame(op, label, request, b, copy, h, ancestors) ==
    [op |-> op, label |-> label, request |-> request, b |-> b, copy |-> copy, h |-> h,
     ancestors |-> ancestors]

\* The JSON schemas of a matched body or response, where both sides have one.
RootFrame(k, label, request, b, h) ==
    IF b.json /\ h.json /\ b.schema \in Nodes /\ h.schema \in Nodes
    THEN {Frame(k, label, request, b.schema, 0, h.schema, <<>>)} ELSE {}

BodyFrames(k, b, h) ==
    IF b = Absent \/ h = Absent THEN {} ELSE RootFrame(k, <<"request_body">>, TRUE, b, h)

ResponseFrames(k, b, h) ==
    IF h = Absent \/ ~h.found THEN {} ELSE RootFrame(k, <<"response">>, FALSE, b, h)

Match(k, i) == MatchingResponse(head.ops[k].responses, base.ops[k].responses[i].status)

RootFrames ==
    UNION {BodyFrames(k, base.ops[k].body, head.ops[k].body)
           \cup UNION {ResponseFrames(k, base.ops[k].responses[i], Match(k, i)) : i \in Answers(base.ops[k])}
             : k \in DOMAIN base.ops \cap DOMAIN head.ops}

\* Why the schemas of an operation, or the responses themselves, are not all compared.
OperationSkips(k) ==
    LET b == base.ops[k]
        h == head.ops[k]
        OneSchema(x, y) == x.json /\ y.json /\ (x.schema = Absent) # (y.schema = Absent)
        If(reason, condition) == IF condition THEN {reason} ELSE {}
    IN  If("range", \E i \in Answers(b) : Ambiguous(h.responses, b.responses[i].status))
        \cup If("unresolved",
                \/ \E i \in DOMAIN b.responses : ~b.responses[i].found
                \/ \E i \in Answers(b) : /\ Match(k, i) # Absent
                                         /\ ~Match(k, i).found \/ OneSchema(b.responses[i], Match(k, i))
                \/ b.body # Absent /\ h.body # Absent /\ OneSchema(b.body, h.body))

-----------------------------------------------------------------------------
(* One schema *)

\* Mutant: the direction is lost, as inside composed variants once.
NullSeverity_Response(request, b, h) == IF h.nullable THEN "breaking" ELSE "safe"

\* A consumer of a response must not meet a new null, a server not reject an old one.
NullSeverity(request, b, h) ==
    IF (request /\ b.nullable) \/ (~request /\ h.nullable) THEN "breaking" ELSE "safe"

EnumValues(s) == IF s.kind \in Scalars THEN s.enum ELSE {}

\* An upper bound that falls, a lower bound that rises, or a bound that is new.
Tightened(b, h, upper) ==
    /\ h # Absent
    /\ b # Absent => IF upper THEN h < b ELSE h > b

BoundChange(f, name, b, h, upper) ==
    IF b = h THEN {}
    ELSE {Change(f.op, f.label, "ConstraintChanged",
                 IF Tightened(b, h, upper) THEN "breaking" ELSE "risky", name)}

FormatOf(s) == IF s.kind \in Scalars THEN s.format ELSE Absent

\* Nullability, enum values and constraints, whatever the kinds are.
ScalarChanges(f, b, h) ==
    LET At(kind, severity, what) == Change(f.op, f.label, kind, severity, what)
    IN  (IF b.nullable = h.nullable THEN {}
         ELSE {At("NullabilityChanged", NullSeverity(f.request, b, h), "null")})
        \cup {[At("EnumValueRemoved", "breaking", "enum") EXCEPT !.value = v]
                : v \in EnumValues(b) \ EnumValues(h)}
        \cup {[At("EnumValueAdded", "risky", "enum") EXCEPT !.value = v]
                : v \in EnumValues(h) \ EnumValues(b)}
        \cup (IF FormatOf(b) = FormatOf(h) THEN {} ELSE {At("ConstraintChanged", "breaking", "format")})
        \cup (IF b.kind = h.kind /\ b.kind \in Scalars
              THEN BoundChange(f, "max", b.max, h.max, TRUE) \cup BoundChange(f, "min", b.min, h.min, FALSE)
              ELSE {})

\* type_label_from_kind: <<>> for kinds it does not label; the item type of an array
\* is "any" when it is behind a $ref.
TypeLabel(spec) ==
    LET label[n \in Nodes] ==
          LET s == spec.schema[n]
              item == IF s.items.to = Absent \/ s.items.ref THEN <<>> ELSE label[s.items.to]
          IN  CASE s.kind \in Scalars \cup {"object"} -> <<s.kind>>
                [] s.kind = "array" -> <<"array">> \o (IF item = <<>> THEN <<"any">> ELSE item)
                [] OTHER -> <<>>
    IN  label

-----------------------------------------------------------------------------
(* Objects *)

\* The object schemas that merge_all_of meets, in its order.
Objects(spec, node) ==
    LET Targets(s) == SelectSeq([i \in DOMAIN s.members |-> s.members[i].to], LAMBDA m : m # Absent)
        walk[queue \in Seq(Nodes), seen \in SUBSET Nodes] ==
          IF queue = <<>> THEN <<>>
          ELSE LET n == Head(queue)
                   s == spec.schema[n]
               IN  CASE n \in seen       -> walk[Tail(queue), seen]
                     [] s.kind = "object" /\ n \notin seen ->
                          <<s>> \o walk[Tail(queue), seen \cup {n}]
                     [] s.kind = "allOf" /\ n \notin seen ->
                          walk[Targets(s) \o Tail(queue), seen \cup {n}]
                     [] OTHER -> walk[Tail(queue), seen \cup {n}]
    IN  walk[<<node>>, {}]

\* All of them as one object: later properties win, the first additionalProperties stays.
Merged(spec, node) ==
    LET os == Objects(spec, node)
        Having(p) == {i \in DOMAIN os : p \in DOMAIN os[i].props}
        Decided == {i \in DOMAIN os : os[i].closed # "unset"}
    IN  [props |-> [p \in UNION {DOMAIN os[i].props : i \in DOMAIN os} |->
                      os[CHOOSE i \in Having(p) : \A j \in Having(p) : j <= i].props[p]],
         required |-> UNION {os[i].required : i \in DOMAIN os},
         closed |-> IF Decided = {} THEN "unset"
                    ELSE os[CHOOSE i \in Decided : \A j \in Decided : i <= j].closed]

\* Properties on both sides that resolve.
Common(b, h) ==
    {p \in DOMAIN b.props \cap DOMAIN h.props : b.props[p].to \in Nodes /\ h.props[p].to \in Nodes}

Retyped(b, h, p) ==
    LET bt == TypeLabel(base)[b.props[p].to]
        ht == TypeLabel(head)[h.props[p].to]
    IN  bt # <<>> /\ ht # <<>> /\ bt # ht

RequiredSeverity(request, required) ==
    IF request THEN (IF required THEN "breaking" ELSE "safe")
    ELSE (IF required THEN "safe" ELSE "risky")

ObjectChanges(f, b, h) ==
    LET At(p, kind, severity, what) == Change(f.op, Append(f.label, Property(p)), kind, severity, what)
    IN  {At(p, "FieldRemoved", "breaking", "field") : p \in DOMAIN b.props \ DOMAIN h.props}
        \cup {At(p, "FieldAdded", IF f.request /\ p \in h.required THEN "breaking" ELSE "safe", "field")
                : p \in DOMAIN h.props \ DOMAIN b.props}
        \cup (IF b.closed = h.closed THEN {}
              ELSE {Change(f.op, f.label, "ConstraintChanged",
                           IF h.closed = "false" THEN "breaking" ELSE "risky", "additional")})
        \cup {At(p, "TypeChanged", "breaking", "property") : p \in {p \in Common(b, h) : Retyped(b, h, p)}}
        \cup {At(p, "RequiredChanged", RequiredSeverity(f.request, p \in h.required), "required")
                : p \in {p \in Common(b, h) : (p \in b.required) # (p \in h.required)}}

\* Mutant: the walker descends also where the new type is already reported.
Descends_Always(b, h, p) == TRUE

Descends(b, h, p) == ~Retyped(b, h, p)

\* Which arm of the walker takes a pair of schemas.
Arm(b, h) ==
    CASE "allOf" \in {b.kind, h.kind} -> "merge"
      [] b.kind = h.kind /\ b.kind \in {"oneOf", "anyOf"} -> "variants"
      [] b.kind = h.kind /\ b.kind \in {"object", "array"} -> b.kind
      [] b.kind # h.kind /\ "any" \notin {b.kind, h.kind} -> "kind"
      [] OTHER -> "leaf"

Merges(f) == Arm(base.schema[f.b], head.schema[f.h]) = "merge"

\* A $ref leads to the original.  merge_all_of clones the properties it collects, and what
\* is written inside a clone is part of that clone.
CopyBelow(f, edge) ==
    IF edge.ref THEN 0 ELSE IF Merges(f) THEN Len(f.ancestors) + 1 ELSE f.copy

\* The frame of the schemas behind two edges, one level down.
Below(f, label, b, h) ==
    Frame(f.op, label, f.request, b.to, CopyBelow(f, b), h.to,
          Append(f.ancestors, [b |-> f.b, copy |-> f.copy, h |-> f.h]))

ObjectChildren(f, b, h) ==
    {Below(f, Append(f.label, Property(p)), b.props[p], h.props[p])
       : p \in {p \in Common(b, h) : Descends(b, h, p)}}

-----------------------------------------------------------------------------
(* Variants and the walk *)

VariantChanges(f, b, h) ==
    LET At(i, severity) == Change(f.op, Append(f.label, Position(i)), "TypeChanged", severity, "variant")
    IN  {At(i, "breaking") : i \in DOMAIN b.members \ DOMAIN h.members}
        \cup {At(i, "risky") : i \in DOMAIN h.members \ DOMAIN b.members}

VariantChildren(f, b, h) ==
    {Below(f, Append(f.label, Position(i)), b.members[i], h.members[i])
       : i \in {i \in DOMAIN b.members \cap DOMAIN h.members :
                  b.members[i].to \in Nodes /\ h.members[i].to \in Nodes}}

\* The two sides of the object walker.
Side(spec, node, merged) == IF merged THEN Merged(spec, node) ELSE spec.schema[node]

\* What a frame reports, apart from its recursive calls.
Found(f) ==
    LET b == base.schema[f.b]
        h == head.schema[f.h]
        arm == Arm(b, h)
    IN  ScalarChanges(f, b, h) \cup
        CASE arm \in {"object", "merge"} ->
               ObjectChanges(f, Side(base, f.b, arm = "merge"), Side(head, f.h, arm = "merge"))
          [] arm = "variants" -> VariantChanges(f, b, h)
          [] arm = "kind" -> {Change(f.op, f.label, "TypeChanged", "breaking", "kind")}
          [] OTHER -> {}

Children(f) ==
    LET b == base.schema[f.b]
        h == head.schema[f.h]
        arm == Arm(b, h)
    IN  CASE arm \in {"object", "merge"} ->
               ObjectChildren(f, Side(base, f.b, arm = "merge"), Side(head, f.h, arm = "merge"))
          [] arm = "variants" -> VariantChildren(f, b, h)
          [] arm = "array" ->
               IF b.items.to \in Nodes /\ h.items.to \in Nodes
               THEN {Below(f, f.label, b.items, h.items)} ELSE {}
          [] OTHER -> {}

\* Mutant: there is no cycle guard.
OnPath_Never(f) == FALSE

\* The guard: the pointer of the base schema is the one of an ancestor.
OnPath(f) ==
    \E i \in DOMAIN f.ancestors : f.ancestors[i].b = f.b /\ f.ancestors[i].copy = f.copy

\* An allOf that is the conjunction of its members, as the walker takes it to be.
Flattens(spec, node) ==
    LET s == spec.schema[node]
        Member(i) == spec.schema[s.members[i].to]
    IN  \/ s.kind = "object"
        \/ /\ s.kind = "allOf"
           /\ \A i \in DOMAIN s.members : s.members[i].to \in Nodes
           /\ \A i \in DOMAIN s.members :
                /\ Member(i).kind = "object"
                /\ ~Member(i).nullable
                /\ Member(i).closed = "unset"
                /\ \A j \in DOMAIN s.members :
                     i # j => DOMAIN Member(i).props \cap DOMAIN Member(j).props = {}

\* Why a frame does not compare all there is.
Skips(f) ==
    LET b == base.schema[f.b]
        h == head.schema[f.h]
        arm == Arm(b, h)
        bo == Side(base, f.b, arm = "merge")
        ho == Side(head, f.h, arm = "merge")
        Undeclared(o) == o.required \ DOMAIN o.props
        Resolves(e) == e.to \in Nodes
        If(reason, condition) == IF condition THEN {reason} ELSE {}
        Again(a) == a.b = f.b /\ a.h = f.h
    IN  IF OnPath(f)
        THEN If("cycle", \A i \in DOMAIN f.ancestors : ~Again(f.ancestors[i]))
        ELSE If("untyped", arm = "leaf" /\ b.kind # h.kind)
             \cup If("composed", arm = "merge" /\ ~(Flattens(base, f.b) /\ Flattens(head, f.h)))
             \cup If("undeclared", arm \in {"object", "merge"} /\ Undeclared(bo) # Undeclared(ho))
             \cup If("unresolved",
                     \/ arm \in {"object", "merge"} /\ Common(bo, ho) # DOMAIN bo.props \cap DOMAIN ho.props
                     \/ arm = "array" /\ ~(Resolves(b.items) /\ Resolves(h.items))
                     \/ /\ arm = "variants"
                        /\ \E i \in DOMAIN b.members \cap DOMAIN h.members :
                             ~(Resolves(b.members[i]) /\ Resolves(h.members[i])))

-----------------------------------------------------------------------------
\* diff_openapi down to the schemas.
Start ==
    /\ phase = "start"
    /\ phase' = "walk"
    /\ reported' = OperationChanges
    /\ todo' = RootFrames
    /\ skipped' = UNION {OperationSkips(k) : k \in DOMAIN base.ops \cap DOMAIN head.ops}
    /\ UNCHANGED <<base, head>>

\* One call of diff_schema_properties.
Visit ==
    /\ phase = "walk"
    /\ todo # {}
    /\ LET f == CHOOSE g \in todo : TRUE
       IN  /\ Len(f.ancestors) < StackLimit
           /\ reported' = IF OnPath(f) THEN reported ELSE reported \cup Found(f)
           /\ todo' = (todo \ {f}) \cup (IF OnPath(f) THEN {} ELSE Children(f))
           /\ skipped' = skipped \cup Skips(f)
    /\ UNCHANGED <<base, head, phase>>

\* A call for which there is no stack left: the process aborts, and nothing is returned.
Overflow ==
    /\ phase = "walk"
    /\ todo # {}
    /\ LET f == CHOOSE g \in todo : TRUE IN Len(f.ancestors) >= StackLimit
    /\ phase' = "overflow"
    /\ todo' = {}
    /\ reported' = {}
    /\ UNCHANGED <<base, head, skipped>>

WalkNext == Start \/ Visit \/ Overflow

WalkSpec == WalkInit /\ [][WalkNext]_walkVars

Done == phase = "walk" /\ todo = {}

-----------------------------------------------------------------------------
(* Properties *)

\* Every frame compares two schema objects, every change has a severity, and what is left
\* uncompared has one of six reasons.
WalkTypeOK ==
    /\ phase \in {"start", "walk", "overflow"}
    /\ \A f \in todo : f.b \in Nodes /\ f.h \in Nodes /\ f.request \in BOOLEAN
    /\ \A c \in reported : c.severity \in {"safe", "risky", "breaking"}
    /\ skipped \subseteq {"cycle", "untyped", "composed", "unresolved", "undeclared", "range"}

\* The schemas written inside schema n as the walker sees it, flattened or not, with no
\* $ref between.
Nested(spec, n) ==
    LET s == spec.schema[n]
        Properties(o) == {o.props[p] : p \in DOMAIN o.props}
        Edges == {s.items} \cup {s.members[i] : i \in DOMAIN s.members}
                 \cup Properties(s) \cup Properties(Merged(spec, n))
    IN  {m \in Nodes : \E e \in Edges : e.to = m /\ ~e.ref}

\* The schemas nested in n, in those, and so on: what every set has that has the nested
\* schemas of n and of its own elements.
NestedBelow(spec, n) ==
    {m \in Nodes : \A S \in SUBSET Nodes :
        Nested(spec, n) \subseteq S /\ (\A k \in S : Nested(spec, k) \subseteq S) => m \in S}

\* No schema is nested in itself: written out with its allOfs flattened, but not its other
\* $refs followed, every schema of the specification is finite.
Unfolds(spec) == \A n \in Nodes : n \notin NestedBelow(spec, n)

\* The guard bounds the recursion of every specification that does not refer to itself
\* from inside an allOf, whatever the head refers to: a call is nested in at most one call
\* for each schema and each component it can be reached from, and a stack of that depth
\* does not overflow.
DepthIsBounded ==
    LET bound == Cardinality(Nodes) * Cardinality(Nodes)
    IN  \/ \E f \in todo : Len(f.ancestors) > bound
        \/ phase = "overflow" /\ bound < StackLimit
        => ~Unfolds(base)

\* The comment at diff.rs:772-776 says of a recursive $ref that the walker stops "recursing
\* to avoid a stack overflow".
RecursionStops == phase # "overflow"

\* Unchanged specifications never report a change.
SelfDiffIsEmpty == base = head => reported = {}

\* The walk through two graphs of schemas is as deep as they are, and finds nothing in
\* equal ones.
WalkIsSound == WalkTypeOK /\ DepthIsBounded /\ SelfDiffIsEmpty

\* The schemas of all answers of an operation have the label "response", and parameters of
\* one name in two places have one label: only with one answer is a label one place.
OnePlace(op, label) ==
    /\ label[1] # "param"
    /\ label[1] = "response" => \A i, j \in Answers(base.ops[op]) : i = j

\* A change of kind is reported once at its path, although the property that has the
\* schema and the schema itself both look for it.
KindChangeReportedOnce ==
    \A c, d \in reported :
      /\ c.kind = "TypeChanged" /\ d.kind = "TypeChanged"
      /\ c.op = d.op /\ c.label = d.label /\ OnePlace(c.op, c.label)
      => c = d
=============================================================================
