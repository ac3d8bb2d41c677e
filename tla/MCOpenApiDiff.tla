---------------------------- MODULE MCOpenApiDiff ----------------------------
(***************************************************************************)
(* Specifications to compare, and what a change of specification means to  *)
(* the other side of the wire: the values a schema accepts are generated   *)
(* and tried, independently of how the walker compares the schemas.        *)
(***************************************************************************)
EXTENDS OpenApiDiff, TLC

CONSTANTS n1, n2, n3, n4, Depth

\* Edges: an inline schema, a $ref to a component, a $ref that does not resolve.
Inline(n)  == [to |-> n, ref |-> FALSE]
Ref(n)     == [to |-> n, ref |-> TRUE]
Dangling   == [to |-> Absent, ref |-> TRUE]

Untyped ==
    [kind |-> "any", nullable |-> FALSE, enum |-> {}, format |-> Absent, min |-> Absent, max |-> Absent,
     props |-> <<>>, required |-> {}, closed |-> "unset", items |-> [to |-> Absent, ref |-> FALSE],
     members |-> <<>>]

Plain(kind)           == [Untyped EXCEPT !.kind = kind]
Array(e)              == [Plain("array") EXCEPT !.items = e]
Object(props, req)    == [Plain("object") EXCEPT !.props = props, !.required = req]
Composed(kind, edges) == [Plain(kind) EXCEPT !.members = edges]

\* One operation whose body and whose answer both have the schema n1.
Operation ==
    [shared |-> <<>>, own |-> <<>>,
     body |-> [required |-> TRUE, json |-> TRUE, schema |-> n1],
     responses |-> <<[status |-> 200, found |-> TRUE, json |-> TRUE, schema |-> n1]>>]

WithSchemas(f) ==
    [ops |-> ("op" :> Operation), schema |-> f @@ [n \in Nodes |-> Plain("string")]]

WithOperation(op) == [ops |-> ("op" :> op), schema |-> [n \in Nodes |-> Plain("string")]]

ScalarSpecs ==
    {WithSchemas(n1 :> [Plain(k) EXCEPT !.nullable = nul, !.enum = e, !.format = fmt, !.min = lo, !.max = hi])
       : k \in Scalars, nul \in BOOLEAN, e \in {{}, {1}, {1, 2}}, fmt \in {Absent, "even"},
         lo \in {Absent, 2}, hi \in {Absent, 2}}

\* Property a of several types, property b, requiredness, additionalProperties.
ObjectSpecs ==
    LET A == {<<>>} \cup {"a" :> e : e \in {Inline(n2), Inline(n3), Ref(n4), Dangling}}
        B == {<<>>, "b" :> Ref(n2)}
    IN  UNION {{WithSchemas(n1 :> [Object(a @@ b, r) EXCEPT !.closed = c]
                            @@ n2 :> Plain(k) @@ n3 :> Array(Inline(n2)) @@ n4 :> Array(Ref(n2)))
                  : r \in SUBSET (DOMAIN a \cup DOMAIN b)}
                 : a \in A, b \in B, c \in {"unset", "false"}, k \in Scalars}

\* Employees and their managers: components that refer to themselves and to each other.
RecursiveSpecs ==
    LET Person(m, id) == Object("m" :> Ref(m) @@ id, DOMAIN id)
        Ids == {<<>>, "id" :> Inline(n3)}
    IN  {WithSchemas(n1 :> Person(x, i) @@ n2 :> Person(y, j) @@ n3 :> Plain(k))
           : x \in {n1, n2}, y \in {n1, n2}, i \in Ids, j \in Ids, k \in Scalars}

\* Persons whose manager is composed of a $ref to a person: a person is nested in itself
\* if the composition is an allOf and no $ref leads to it.
ComposedRecursiveSpecs ==
    {WithSchemas(n1 :> Object("m" :> e @@ "id" :> Inline(n3), {}) @@ n2 :> Composed(c, <<Ref(n1)>>)
                 @@ n3 :> Plain(k))
       : e \in {Inline(n2), Ref(n2)}, c \in {"allOf", "oneOf"}, k \in Scalars}

\* Compositions and arrays of n2, n3.
ComposedSpecs ==
    LET Shapes == {Array(Inline(n2)), Array(Ref(n4)), Plain("string"), Untyped}
                  \cup {Composed(c, es) : c \in {"oneOf", "anyOf", "allOf"},
                                          es \in {<<Ref(n2)>>, <<Ref(n2), Ref(n3)>>, <<Ref(n3), Dangling>>}}
        Items == {Object("a" :> Inline(n4), {}), Object("a" :> Inline(n4), {"a"}), Plain("integer")}
    IN  {WithSchemas(n1 :> s @@ n2 :> i @@ n3 :> Object("b" :> Inline(n4), r) @@ n4 :> Plain("string"))
           : s \in Shapes, i \in Items, r \in {{}, {"b"}, {"a", "b"}}}

\* Parameters, bodies and statuses.
ParameterSpecs ==
    LET Q == [name |-> "q", in |-> "query"]
        Ps == {<<>>} \cup {Q :> [required |-> r, type |-> t] : r \in BOOLEAN, t \in {"string", "integer", Absent}}
    IN  {WithOperation([Operation EXCEPT !.shared = s, !.own = o]) : s \in Ps, o \in Ps}

MessageSpecs ==
    LET Bodies == {Absent, [required |-> TRUE, json |-> TRUE, schema |-> Absent]}
                  \cup {[required |-> r, json |-> j, schema |-> n1] : r, j \in BOOLEAN}
        Answer(s, n) == [status |-> s, found |-> TRUE, json |-> TRUE, schema |-> n]
        NoJson == [Answer(200, Absent) EXCEPT !.json = FALSE]
        Lost == [NoJson EXCEPT !.found = FALSE]
        Responses == {<<>>, <<Answer(404, n1)>>, <<Answer(0, n1)>>, <<Answer(0, n2)>>, <<NoJson>>, <<Lost>>,
                      <<Answer(200, n1)>>, <<Answer(200, Absent)>>, <<Answer(201, n2), Answer(200, n1)>>}
    IN  {[WithOperation([Operation EXCEPT !.body = b, !.responses = r])
            EXCEPT !.schema[n2] = Plain("integer")] : b \in Bodies, r \in Responses}
        \cup {[ops |-> <<>>, schema |-> [n \in Nodes |-> Untyped]]}

Families == {ScalarSpecs, ObjectSpecs, RecursiveSpecs, ComposedSpecs, ParameterSpecs, MessageSpecs}

AllSpecs == UNION Families

RecursiveComparisons == ComposedRecursiveSpecs \X ComposedRecursiveSpecs

MCComparisons == (AllSpecs \X AllSpecs) \cup RecursiveComparisons

CompositionComparisons == ComposedSpecs \X ComposedSpecs

-----------------------------------------------------------------------------
(* What a schema accepts *)

Value(type, n, fields, items) == [type |-> type, n |-> n, fields |-> fields, items |-> items]
Scalar(type, n) == Value(type, n, <<>>, <<>>)
Null == Scalar("null", 0)

Meets(s, n) ==
    /\ s.enum # {} => n \in s.enum
    /\ s.min # Absent => n >= s.min
    /\ s.max # Absent => n <= s.max
    /\ s.format # Absent => n % 2 = 0

\* Does the schema accept the value?  A server rejects properties it excludes, a consumer
\* does not look at those it does not know.
RECURSIVE Accepts(_, _, _, _)
Accepts(spec, node, v, server) ==
    LET s == spec.schema[node]
        Via(e, x) == e.to = Absent \/ Accepts(spec, e.to, x, server)
    IN  \/ v = Null /\ s.nullable
        \/ CASE s.kind = "any" -> TRUE
             [] s.kind \in Scalars -> v.type = s.kind /\ Meets(s, v.n)
             [] s.kind = "array" -> v.type = "array" /\ \A i \in DOMAIN v.items : Via(s.items, v.items[i])
             [] s.kind = "object" ->
                  /\ v.type = "object"
                  /\ s.required \subseteq DOMAIN v.fields
                  /\ \A p \in DOMAIN v.fields \cap DOMAIN s.props : Via(s.props[p], v.fields[p])
                  /\ server /\ s.closed = "false" => DOMAIN v.fields \subseteq DOMAIN s.props
             [] s.kind \in {"oneOf", "anyOf"} -> \E i \in DOMAIN s.members : Via(s.members[i], v)
             [] s.kind = "allOf" -> \A i \in DOMAIN s.members : Via(s.members[i], v)

\* Objects whose properties have the values G[p].
Records(G, required) ==
    UNION {{Value("object", 0, f, <<>>) : f \in {f \in [D -> UNION {G[p] : p \in D}] : \A p \in D : f[p] \in G[p]}}
             : D \in {D \in SUBSET DOMAIN G : required \subseteq D}}

\* The values of a schema that are at most depth schemas deep and have the properties
\* that the schema declares.
RECURSIVE Values(_, _, _)
Values(spec, node, depth) ==
    LET s == spec.schema[node]
        Of(e) == IF depth = 0 \/ e.to = Absent THEN {} ELSE Values(spec, e.to, depth - 1)
        Declared(o) == [p \in {p \in DOMAIN o.props : o.props[p].to # Absent} |-> Of(o.props[p])]
        Member(i) == spec.schema[s.members[i].to]
        Parts == {i \in DOMAIN s.members : s.members[i].to # Absent}
        AllProps == UNION {DOMAIN Member(i).props : i \in Parts}
    IN  (IF s.nullable THEN {Null} ELSE {}) \cup
        CASE s.kind \in Scalars -> {Scalar(s.kind, n) : n \in {n \in 1 .. 3 : Meets(s, n)}}
          [] s.kind = "object" -> Records(Declared(s), s.required)
          [] s.kind = "array" -> {Value("array", 0, <<>>, q) : q \in {<<>>} \cup {<<v>> : v \in Of(s.items)}}
          [] s.kind \in {"oneOf", "anyOf"} -> UNION {Of(s.members[i]) : i \in DOMAIN s.members}
          [] s.kind = "allOf" ->
               {v \in Records([p \in AllProps |->
                                  UNION {Declared(Member(i))[p] : i \in {i \in Parts : p \in DOMAIN Declared(Member(i))}}],
                              {}) : Accepts(spec, node, v, TRUE)}
          [] s.kind = "any" -> {Scalar("string", 1), Scalar("integer", 1), Value("object", 0, <<>>, <<>>)}

-----------------------------------------------------------------------------
(* What breaks *)

\* A request that a client of the old specification may send and the new one rejects.
RequestBreaks(b, h) ==
    LET bp == Params(b)
        hp == Params(h)
        Sent == {P \in SUBSET DOMAIN bp : \A k \in DOMAIN bp : bp[k].required => k \in P}
    IN  \/ \E P \in Sent :
             \/ \E k \in DOMAIN hp \ P : hp[k].required
             \/ \E k \in P : \/ k \notin DOMAIN hp
                             \/ Absent \notin {bp[k].type, hp[k].type} /\ bp[k].type # hp[k].type
        \/ /\ b.body = Absent \/ ~b.body.required
           /\ h.body # Absent /\ h.body.required
        \/ /\ b.body # Absent
           /\ \/ h.body = Absent
              \/ b.body.json /\ ~h.body.json
              \/ /\ b.body.json /\ Absent \notin {b.body.schema, h.body.schema}
                 /\ \E v \in Values(base, b.body.schema, Depth) : ~Accepts(head, h.body.schema, v, TRUE)

\* An answer that a client of the old specification waits for and no longer gets, or that
\* it gets from the new one and cannot read.
ResponseBreaks(b, h) ==
    LET Same(s, t) == s = t \/ Covers(s, t)
    IN  \E i \in Answers(b) :
          LET old == b.responses[i]
          IN  \/ \A j \in DOMAIN h.responses : ~Same(old.status, h.responses[j].status)
              \/ \E j \in DOMAIN h.responses :
                   LET new == h.responses[j]
                   IN  /\ Same(old.status, new.status)
                       /\ new.status # old.status =>
                            /\ \A x \in DOMAIN b.responses : b.responses[x].status # new.status
                            /\ \A x \in DOMAIN h.responses : h.responses[x].status # old.status
                       /\ old.json /\ new.found
                       /\ \/ ~new.json
                          \/ /\ Absent \notin {old.schema, new.schema}
                             /\ \E v \in Values(head, new.schema, Depth) : ~Accepts(base, old.schema, v, FALSE)

Reported(k, places) ==
    \E c \in reported : c.op = k /\ c.severity # "safe" /\ c.label[1] \in places

BreaksAreNotSafe ==
    \A k \in DOMAIN base.ops :
      IF k \notin DOMAIN head.ops
      THEN \E c \in reported : c.op = k /\ c.severity = "breaking"
      ELSE /\ RequestBreaks(base.ops[k], head.ops[k]) => Reported(k, {"param", "request_body"})
           /\ ResponseBreaks(base.ops[k], head.ops[k]) => Reported(k, {"status", "response"})

\* Changes that break the other side of the wire are never reported as safe, or not at
\* all, unless the walker has left something uncompared.
BreaksAreNotSafeUnlessSkipped == Done /\ skipped = {} => BreaksAreNotSafe

\* What a schema is once its allOf is flattened.
Denotes(spec, node) ==
    LET s == spec.schema[node]
    IN  IF s.kind = "allOf" /\ s.members # <<>> /\ \A i \in DOMAIN s.members :
             s.members[i].to \in Nodes /\ spec.schema[s.members[i].to].kind = "object"
        THEN "object" ELSE s.kind

\* EPIC-O-MITIGATION-PLAN.md: when a response changes from an array to an object, "a
\* Breaking TypeChanged is reported at the response root", also for the usual envelope
\* that is an allOf of a page and its items.
RootKindChangeIsBreaking ==
    Done =>
      \A k \in DOMAIN base.ops \cap DOMAIN head.ops : \A i \in Answers(base.ops[k]) :
        LET b == base.ops[k].responses[i]
            h == MatchingResponse(head.ops[k].responses, b.status)
        IN  /\ h # Absent
            /\ h.found
            /\ b.schema \in Nodes /\ Denotes(base, b.schema) = "array"
            /\ h.schema \in Nodes /\ Denotes(head, h.schema) = "object"
            => \E c \in reported : /\ c.op = k
                                  /\ c.label = <<"response">>
                                  /\ c.kind = "TypeChanged"
                                  /\ c.severity = "breaking"
=============================================================================
