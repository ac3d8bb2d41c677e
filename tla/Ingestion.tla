------------------------------ MODULE Ingestion ------------------------------
(***************************************************************************)
(* The handlers that take evidence in: usage events, call sites, OTLP      *)
(* spans and gateway logs of radar-api/src/ingestion.rs, the evidence of   *)
(* collection files in consumers.rs, and the sampling of a service in      *)
(* sampling.rs.                                                            *)
(*                                                                         *)
(* A handler first looks at every item, one SELECT after the other, and    *)
(* then writes what it keeps in one transaction.  Between two statements   *)
(* services are registered and the sampling is set anew, and the handler   *)
(* may be dropped.                                                         *)
(***************************************************************************)
EXTENDS Naturals, FiniteSets, Sequences

CONSTANTS
    MaxRequests, \* bound on the requests of a behaviour
    Tenants,  \* organisations; NoOrg is the scope of an installation without them
    NoOrg,
    Free      \* no service yet, a consumer nobody has

ASSUME IngestionAssumption ==
    MaxRequests \in Nat /\ NoOrg \notin Tenants /\ Free \notin Tenants \cup {NoOrg}

Orgs == Tenants \cup {NoOrg}
Requests == 1 .. MaxRequests \* numbered as they arrive

\* A consumer is known by the organisation that registered it; Free is an id
\* nobody has.
Kinds == {"usage", "sites", "otlp", "gateway", "collection"}

VARIABLES
    owner,    \* the organisation of the service, or Free
    denied,   \* per organisation: whether the field is on its deny list
    req,      \* per request: its items, how far its handler is, what it keeps
    rows,     \* rows of usage_event
    siteRows, \* rows of call_site, one per id
    evidence  \* rows of impact_evidence, one per id

ingestVars == <<owner, denied, req, rows, siteRows, evidence>>

\* touched and unseen are kept for the properties: the sampling changed or could
\* not be read, and the items whose service was not registered when it was checked.
Request(kind, org, items) ==
    [kind |-> kind, org |-> org, items |-> items, checked |-> 0, sampled |-> 0,
     kept |-> DOMAIN items, touched |-> FALSE, unseen |-> {}, answer |-> "none"]

NoRequest == [Request("usage", NoOrg, <<>>) EXCEPT !.answer = "absent"]

IngestInit ==
    /\ owner \in Orgs \cup {Free}
    /\ denied \in [Orgs -> BOOLEAN]
    /\ req = [r \in Requests |-> NoRequest]
    /\ rows = {} /\ siteRows = {} /\ evidence = {}

-----------------------------------------------------------------------------
(* A request and the steps of its handler.                                 *)

Arrived(r) == req[r].answer # "absent"

Running(r) == req[r].answer = "none"

Arrive(r, kind, org, items) ==
    /\ ~ Arrived(r) /\ \A x \in 1 .. r - 1 : Arrived(x)
    /\ req' = [req EXCEPT ![r] = Request(kind, org, items)]

\* Events and spans are checked and sampled one by one, log lines in two loops, call
\* sites and collections are only checked: how many items may be sampled by now.
Sampleable(q) ==
    CASE q.kind \in {"usage", "otlp"} -> q.checked
      [] q.kind = "gateway" -> IF q.checked = Len(q.items) THEN q.checked ELSE 0
      [] q.kind \in {"sites", "collection"} -> 0

SampleDue(r) == Running(r) /\ req[r].sampled < Sampleable(req[r])

CheckDue(r) == Running(r) /\ ~ SampleDue(r) /\ req[r].checked < Len(req[r].items)

WriteDue(r) == Running(r) /\ ~ SampleDue(r) /\ ~ CheckDue(r)

Answered(r, answer) ==
    req' = [req EXCEPT ![r].answer = answer, ![r].checked = 0, ![r].sampled = 0]

\* assert_org_access on what require_org_owned has found.
MayUse(resource, org) == org = NoOrg \/ resource \in {Free, NoOrg, org}

\* require_evidence_owned.
EvidenceOwned(item, org) == MayUse(item.consumer, org) /\ MayUse(owner, org)

\* OTLP passes over a span that is no call, that names no service, method or
\* route, or whose consumer is not found by its name.
PassedOver(r) ==
    /\ CheckDue(r) /\ req[r].kind = "otlp"
    /\ LET n == req[r].checked + 1 IN
       req' = [req EXCEPT ![r].checked = n, ![r].sampled = n, ![r].kept = @ \ {n}]
    /\ UNCHANGED <<owner, denied, rows, siteRows, evidence>>

CheckItem(r) ==
    /\ CheckDue(r)
    /\ LET q == req[r]  n == q.checked + 1 IN
       IF EvidenceOwned(q.items[n], q.org)
       THEN req' = [req EXCEPT ![r].checked = n,
                               ![r].unseen = IF owner = Free THEN @ \cup {n} ELSE @]
       ELSE Answered(r, "forbidden")
    /\ UNCHANGED <<owner, denied, rows, siteRows, evidence>>

\* What load_sampling answers of the deny list: none when the SELECT fails.
DenySeen(ok, o) == ok /\ denied[o]

\* Mutant: the deny list is not looked at.
Keeps_Denied(item, kind, deny) == {TRUE}

\* Events of the SDKs may name a field and are not sampled; spans and log lines
\* name none and are, so that a rate below 1.0 may drop them.
Keeps(item, kind, deny) ==
    IF kind = "usage" THEN {~ (item.field /\ deny)} ELSE BOOLEAN

SampleItem(r) ==
    /\ SampleDue(r)
    /\ LET q == req[r]  n == q.sampled + 1 IN
       \E ok \in BOOLEAN : \E keep \in Keeps(q.items[n], q.kind, DenySeen(ok, q.org)) :
          req' = [req EXCEPT ![r].sampled = n,
                             ![r].kept = IF keep THEN @ ELSE @ \ {n},
                             ![r].touched = @ \/ (~ ok /\ q.items[n].field)]
    /\ UNCHANGED <<owner, denied, rows, siteRows, evidence>>

\* The foreign keys of usage_event and call_site; impact_evidence has none.
KeysExist(item) == item.consumer # Free /\ owner # Free

Written(r) ==
    IF req[r].kind = "collection" \/ \A n \in req[r].kept : KeysExist(req[r].items[n])
    THEN req[r].kept ELSE {}

Row(r, n) == [request |-> r, n |-> n, item |-> req[r].items[n]]

\* UPDATE or INSERT by an id, and INSERT ... ON CONFLICT DO NOTHING: of the rows
\* with one id there is one.
Inserted(table, new) ==
    table \cup {x \in new : /\ \A y \in table : y.item # x.item
                            /\ \A y \in new : y.item = x.item => x.n <= y.n}

StoreEvents(new) == rows' = rows \cup new /\ UNCHANGED <<siteRows, evidence>>
StoreSites(new) == siteRows' = Inserted(siteRows, new) /\ UNCHANGED <<rows, evidence>>
StoreEvidence(new) == evidence' = Inserted(evidence, new) /\ UNCHANGED <<rows, siteRows>>

\* The transaction; one that fails leaves nothing behind.
Commit(r) ==
    /\ WriteDue(r)
    /\ LET done == Written(r)
           new  == {Row(r, n) : n \in done}
       IN  /\ CASE req[r].kind = "sites"      -> StoreSites(new)
                [] req[r].kind = "collection" -> StoreEvidence(new)
                [] OTHER                      -> StoreEvents(new)
           /\ Answered(r, IF done = req[r].kept THEN "accepted" ELSE "unprocessable")
    /\ UNCHANGED <<owner, denied>>

\* A statement fails, the request times out, or its client hangs up.
Fails(r) ==
    /\ Running(r)
    /\ Answered(r, "error")
    /\ UNCHANGED <<owner, denied, rows, siteRows, evidence>>

-----------------------------------------------------------------------------
(* What happens around it.                                                 *)

RegisterService ==
    /\ owner = Free
    /\ owner' \in Orgs
    /\ UNCHANGED <<denied, req, rows, siteRows, evidence>>

PutSampling(o) ==
    /\ denied' = [denied EXCEPT ![o] = ~ @]
    /\ req' = [r \in Requests |->
                 IF Running(r) /\ req[r].org = o THEN [req[r] EXCEPT !.touched = TRUE] ELSE req[r]]
    /\ UNCHANGED <<owner, rows, siteRows, evidence>>

Handler(r) == CheckItem(r) \/ PassedOver(r) \/ SampleItem(r) \/ Commit(r)

-----------------------------------------------------------------------------
IngestTypeOK ==
    /\ owner \in Orgs \cup {Free}
    /\ denied \in [Orgs -> BOOLEAN]
    /\ \A r \in Requests :
          /\ req[r].kind \in Kinds /\ req[r].org \in Orgs
          /\ req[r].checked \in 0 .. Len(req[r].items)
          /\ req[r].sampled \in 0 .. Len(req[r].items)
          /\ req[r].kept \subseteq DOMAIN req[r].items
          /\ req[r].unseen \subseteq DOMAIN req[r].items
          /\ req[r].answer \in {"absent", "none", "accepted", "unprocessable", "forbidden", "error"}

Stored == rows \cup siteRows \cup evidence

(* What an organisation reports about a service or a consumer of another   *)
(* one is not stored, except when the service was registered between the   *)
(* check of the item and the transaction: an id nobody has passes the      *)
(* check, and the foreign key is there by the time it is looked at.        *)
EvidenceStaysInOrg ==
    [][\A x \in Stored' \ Stored :
         LET q == req[x.request] IN
         /\ q.org = NoOrg \/ x.item.consumer \in {Free, NoOrg, q.org}
         /\ q.org = NoOrg \/ owner \in {Free, NoOrg, q.org} \/ x.n \in q.unseen]_ingestVars

(* A field on the deny list is not stored while the list says so: only a   *)
(* list that changed during the request, or a SELECT that failed, lets it  *)
(* through.                                                                *)
DeniedFieldsStayOut ==
    [][\A x \in rows' \ rows :
         LET q == req[x.request] IN
         (q.kind = "usage" /\ ~ q.touched) => ~ (x.item.field /\ denied[q.org])]_ingestVars

(* A batch is stored as a whole or not at all, and only an accepted one is *)
(* stored; each id of a call site or of a collection file has one row,     *)
(* however often and by however many requests it is reported.              *)
BatchesAreWhole ==
    /\ \A x \in rows : LET q == req[x.request] IN
          /\ q.answer = "accepted"
          /\ \A n \in q.kept : Row(x.request, n) \in rows
    /\ \A x \in siteRows \cup evidence : req[x.request].answer = "accepted"
    /\ \A x, y \in siteRows : x.item = y.item => x = y
    /\ \A x, y \in evidence : x.item = y.item => x = y
=============================================================================
