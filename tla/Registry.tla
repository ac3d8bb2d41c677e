------------------------------- MODULE Registry -------------------------------
(***************************************************************************)
(* Registration: the handlers of radar-api that create and change the rows *)
(* of an organisation.  Each handler is a request in a slot, each of its   *)
(* SQL statements a step, so requests interleave between statements as     *)
(* they do between awaits.  A handler may be dropped at any await, by the  *)
(* request timeout of the router or by a client that hangs up.             *)
(*                                                                         *)
(* Most handlers look for a row and insert one when there is none, in two  *)
(* statements; only the names of consumers have a unique index.  The set   *)
(* since, kept for the properties, holds what other requests committed     *)
(* while a request was under way.                                          *)
(***************************************************************************)
EXTENDS Session

CONSTANTS
    Services,    \* service ids, chosen by clients
    Names,       \* consumer names; also the owners of a catalog
    Urls,        \* urls of webhooks and of scanned specifications
    Envs,        \* ids of sandbox environments
    Tokens,      \* their bearer tokens
    Gone,        \* an environment that was deleted: ids are not used again
    Slots,       \* requests in flight at one time
    MaxRequests, \* bound on the requests of one behaviour
    Workloads    \* sets of operations that clients mix in one behaviour

ASSUME RegistryAssumption ==
    /\ None \notin Orgs \cup {Blank, Gone}
    /\ {None, Gone} \cap [org : Orgs \cup {Blank}, token : Tokens \cup {None}] = {}
    /\ MaxRequests \in Nat

VARIABLES
    workload,  \* the operations of this behaviour
    service,   \* per id: None or the owning organisation
    consumer,  \* rows: org, name, catalog_source
    row,       \* rows of subscription, webhook, scheduled_scan, evolution_rule
    env,       \* per id: None or the row of a sandbox environment
    source,    \* per organisation, the last_sync_status of its catalog source
    req,       \* per slot: a request or Idle
    arrived    \* requests so far

tables == <<service, consumer, row, env, source>>
vars == <<sessionVars, workload, tables, req, arrived>>

Scopes == Orgs \cup {Blank}
Idle == [op |-> "idle"]
Busy == {q \in Slots : req[q] # Idle}

ConsumerIds == [org : Scopes, name : Names]
IdOf(c) == [org |-> c.org, name |-> c.name]

Operations ==
    {"service", "subscribe", "webhook", "delete webhook", "scan", "delete scan",
     "consumer", "upsert consumer", "catalog", "sync",
     "env", "update env", "delete env", "rule", "toggle rule", "delete rule"}

\* Operations that end in a row of their own table.
TableOf(op) ==
    CASE op = "subscribe"                      -> "subscription"
      [] op \in {"webhook", "delete webhook"} -> "webhook"
      [] op \in {"scan", "delete scan"}       -> "scan"
      [] op \in {"rule", "toggle rule", "delete rule"} -> "rule"

\* What a client can ask for, and the first statement of each handler.  A
\* request without a scope is refused by the extractor and is not modelled.
Request(op, scope, arg, pc) ==
    [op |-> op, scope |-> scope, arg |-> arg, pc |-> pc, seen |-> None, since |-> {}]

Requests(scope) ==
    {Request("service", scope, s, IF scope = Blank THEN "upsert" ELSE "check") : s \in Services}
    \cup {Request("subscribe", scope, a, "guard") : a \in Services \X ConsumerIds}
    \cup {Request("webhook", scope, a, "select") : a \in {scope} \X Urls}
    \cup {Request("delete webhook", scope, a, "select") : a \in {scope} \X Urls}
    \cup {Request("scan", scope, a, "guard") : a \in {scope} \X Services \X Urls}
    \cup {Request("delete scan", scope, a, "select") : a \in {scope} \X Services \X Urls}
    \cup {Request("consumer", scope, n, "insert") : n \in Names}
    \cup {Request("upsert consumer", scope, n, "insert") : n \in Names}
    \cup {Request("catalog", scope, None, "insert")}
    \cup {Request("sync", scope, owners, "fetch") : owners \in SUBSET Names}
    \cup {Request("rule", scope, a, "insert") : a \in {scope} \X Names}
    \cup {Request("toggle rule", scope, a, "select") : a \in {scope} \X Names}
    \cup {Request("delete rule", scope, a, "select") : a \in {scope} \X Names}
    \cup {Request("env", scope, a, "insert") : a \in Envs \X Tokens}
    \cup {Request("update env", scope, a, "select") : a \in Envs \X (Tokens \cup {None})}
    \cup {Request("delete env", scope, a, "delete") : a \in Envs \X {None}}

\* Without logins a behaviour sees only the scopes of its callers: two
\* configurations, with sessions and with the static token, give all of them.
Init ==
    /\ SessionInit
    /\ workload \in Workloads
    /\ ("login" \notin workload => config.jwt # config.token /\ ~ config.require)
    /\ service \in [Services -> {None, Blank}]
    /\ consumer \in SUBSET [org : Scopes, name : Names, source : {"manual"}]
    /\ Cardinality(consumer) = Cardinality({IdOf(c) : c \in consumer})
    /\ row = {}
    /\ env = [e \in Envs |-> None]
    /\ source = [o \in Scopes |-> None]
    /\ req = [q \in Slots |-> Idle]
    /\ arrived = 0

-----------------------------------------------------------------------------
(* Requests and their steps.                                               *)

Arrive(q) ==
    \E c \in Callers, presents \in BOOLEAN :
        /\ req[q] = Idle
        /\ arrived < MaxRequests
        /\ ScopeOf(c, presents) # Rejected
        /\ \E r \in Requests(ScopeOf(c, presents)) :
              /\ r.op \in workload
              /\ req' = [req EXCEPT ![q] = r]
        /\ arrived' = arrived + 1
        /\ UNCHANGED <<sessionVars, workload, tables>>

\* The step of a handler that goes on at pc, and the one that replies.
Goto(q, pc) == req' = [req EXCEPT ![q].pc = pc]
Reply(q) == req' = [req EXCEPT ![q] = Idle]

\* The same, when the step commits something other requests may race with.
CommitAnd(q, thing, next) ==
    req' = [p \in Slots |->
              IF p = q THEN next
              ELSE IF req[p] = Idle THEN Idle
              ELSE [req[p] EXCEPT !.since = @ \cup {thing}]]

At(q, ops, pc) == req[q].op \in ops /\ req[q].pc = pc
Frame == UNCHANGED <<sessionVars, workload, arrived>>

\* A handler dropped between two of its statements.
Drop(q) == req[q] # Idle /\ Reply(q) /\ Frame /\ UNCHANGED tables

-----------------------------------------------------------------------------
(* Services.                                                               *)

\* require_org_owned: a service that is not there is let through.
OwnedOrAbsent(s, scope) == service[s] = None \/ MayAccess(service[s], scope)

\* create_service: an existing row of another organisation is refused.
CheckService(q) ==
    /\ At(q, {"service"}, "check")
    /\ IF OwnedOrAbsent(req[q].arg, req[q].scope) THEN Goto(q, "upsert") ELSE Reply(q)
    /\ Frame /\ UNCHANGED tables

\* ON CONFLICT(id) DO UPDATE names every column but org_id.
Upserted(owner, scope) == IF owner = None THEN scope ELSE owner

UpsertService(q) ==
    /\ At(q, {"service"}, "upsert")
    /\ service' = [service EXCEPT ![req[q].arg] = Upserted(@, req[q].scope)]
    /\ CommitAnd(q, <<"service", req[q].arg>>, Idle)
    /\ Frame /\ UNCHANGED <<consumer, row, env, source>>

-----------------------------------------------------------------------------
(* Subscriptions, webhooks, scheduled scans: guard, select, insert.  Rules *)
(* are inserted at once.                                                   *)

ServiceOf(r) == IF r.op = "subscribe" THEN r.arg[1] ELSE r.arg[2]

GuardService(q) ==
    /\ At(q, {"subscribe", "scan"}, "guard")
    /\ IF OwnedOrAbsent(ServiceOf(req[q]), req[q].scope)
       THEN Goto(q, IF req[q].op = "scan" THEN "select" ELSE "consumer")
       ELSE Reply(q)
    /\ Frame /\ UNCHANGED tables

\* Mutant: the consumer exists, whoever owns it.
ConsumerUsable_Any(r) == \E c \in consumer : IdOf(c) = r.arg[2]

\* create_subscription goes on with the consumer, which never changes once it
\* is there, and with the existence of the service.
ConsumerUsable(r) ==
    /\ \E c \in consumer : IdOf(c) = r.arg[2]
    /\ MayAccess(r.arg[2].org, r.scope)

CheckConsumer(q) ==
    /\ At(q, {"subscribe"}, "consumer")
    /\ IF ConsumerUsable(req[q]) THEN Goto(q, "exists") ELSE Reply(q)
    /\ Frame /\ UNCHANGED tables

ServiceExists(q) ==
    /\ At(q, {"subscribe"}, "exists")
    /\ IF service[req[q].arg[1]] # None THEN Goto(q, "select") ELSE Reply(q)
    /\ Frame /\ UNCHANGED tables

Rows(r) == {x \in row : x.table = TableOf(r.op) /\ x.key = r.arg}

\* The SELECT for a row of the same key.  A subscription that is found ends
\* the request; a webhook is read again and a scan is updated by its id, which
\* a DELETE in between makes an error of the request, and no change.
Select(q, op) ==
    /\ At(q, {op}, "select")
    /\ IF Rows(req[q]) = {} THEN Goto(q, "insert") ELSE Reply(q)
    /\ Frame /\ UNCHANGED tables

\* Mutant: no SELECT before the INSERT.
SelectWebhook_Skipped(q) ==
    At(q, {"webhook"}, "select") /\ Goto(q, "insert") /\ Frame /\ UNCHANGED tables

SelectSubscription(q) == Select(q, "subscribe")
SelectWebhook(q) == Select(q, "webhook")
SelectScan(q) == Select(q, "scan")

\* A new id: a random one in the code, here the first free number.
NewId(r) == CHOOSE n \in 1 .. MaxRequests : \A x \in Rows(r) : x.copy # n

\* The INSERT, under a new id and with nothing in the schema against a second
\* row of the same key.  blind, kept for the properties: the service was not
\* there, or was registered while the request was under way.
NewRow(r) ==
    [table |-> TableOf(r.op), key |-> r.arg, enabled |-> TRUE,
     copy  |-> NewId(r),
     blind |-> /\ r.op \in {"subscribe", "scan"}
               /\ \/ service[ServiceOf(r)] = None
                  \/ <<"service", ServiceOf(r)>> \in r.since]

Insert(q, op) ==
    /\ At(q, {op}, "insert")
    /\ row' = row \cup {NewRow(req[q])}
    /\ CommitAnd(q, <<TableOf(op), req[q].arg>>, Idle)
    /\ Frame /\ UNCHANGED <<service, consumer, env, source>>

InsertSubscription(q) == Insert(q, "subscribe")
InsertWebhook(q) == Insert(q, "webhook")
InsertScan(q) == Insert(q, "scan")
InsertRule(q) == Insert(q, "rule")

\* list_webhooks, list_scans, list_evolution_rules: WHERE org_id = scope.  The
\* handlers that name a row by its id have the same condition.
ListRows(table, scope) == {x \in row : x.table = table /\ x.key[1] = scope}

Named(r) == {x \in ListRows(TableOf(r.op), r.scope) : x.key = r.arg}

\* delete_webhook, delete_scan and delete_evolution_rule.
DeleteRow(q) ==
    /\ At(q, {"delete webhook", "delete scan", "delete rule"}, "select")
    /\ \E x \in Named(req[q]) : row' = row \ {x}
    /\ Reply(q)
    /\ Frame /\ UNCHANGED <<service, consumer, env, source>>

ToggleRule(q) ==
    /\ At(q, {"toggle rule"}, "select")
    /\ \E x \in Named(req[q]), on \in BOOLEAN :
          row' = (row \ {x}) \cup {[x EXCEPT !.enabled = on]}
    /\ Reply(q)
    /\ Frame /\ UNCHANGED <<service, consumer, env, source>>

-----------------------------------------------------------------------------
(* Consumers and catalog sources.                                          *)

NameTaken(org, name) == \E c \in consumer : IdOf(c) = [org |-> org, name |-> name]

\* create_consumer and the first statement of upsert_consumer_by_name.  The
\* unique index on (org_id, name) makes the one an error and the other no
\* change when the name is taken.
InsertConsumer(q) ==
    LET r == req[q] IN
    /\ At(q, {"consumer", "upsert consumer"}, "insert")
    /\ consumer' = IF NameTaken(r.scope, r.arg) THEN consumer
                   ELSE consumer \cup
                          {[org |-> r.scope, name |-> r.arg,
                            source |-> IF r.op = "consumer" THEN "manual" ELSE "collection_file"]}
    /\ IF r.op = "consumer" THEN Reply(q) ELSE Goto(q, "fetch")
    /\ Frame /\ UNCHANGED <<service, row, env, source>>

\* upsert_consumer_by_name reads the row back, whoever inserted it.
FetchConsumer(q) ==
    /\ At(q, {"upsert consumer"}, "fetch")
    /\ NameTaken(req[q].scope, req[q].arg)
    /\ Reply(q)
    /\ Frame /\ UNCHANGED tables

\* create_catalog_source; one source per organisation is enough here.
CreateSource(q) ==
    /\ At(q, {"catalog"}, "insert")
    /\ source[req[q].scope] = None
    /\ source' = [source EXCEPT ![req[q].scope] = "never"]
    /\ Reply(q)
    /\ Frame /\ UNCHANGED <<service, consumer, row, env>>

\* list_catalog_sources, and the SELECT of sync_catalog_source.
ListSources(scope) == {o \in Scopes : o = scope /\ source[o] # None}

\* sync_catalog_source reads its row and the owners the catalog names; an
\* answer that cannot be had or read is recorded as an error.
FetchOwners(q) ==
    /\ At(q, {"sync"}, "fetch")
    /\ IF ListSources(req[q].scope) = {} THEN Reply(q)
       ELSE \E answered \in BOOLEAN :
              req' = [req EXCEPT ![q].pc   = IF answered THEN "owner" ELSE "status",
                                 ![q].seen = IF answered THEN req[q].arg ELSE "error"]
    /\ Frame /\ UNCHANGED tables

\* One owner.  A consumer of that name is marked as coming from the catalog;
\* for a new name the INSERT lists the column created_at, which the consumer
\* table has in no migration.  That error is dropped, and so is any other.
Synced(org, name) ==
    {IF IdOf(c) = [org |-> org, name |-> name] THEN [c EXCEPT !.source = "catalog"] ELSE c
       : c \in consumer}

SyncOwner(q) ==
    /\ At(q, {"sync"}, "owner")
    /\ \E name \in req[q].seen :
          /\ consumer' \in {consumer, Synced(req[q].scope, name)}
          /\ req' = [req EXCEPT ![q].seen = @ \ {name}]
    /\ Frame /\ UNCHANGED <<service, row, env, source>>

SyncDone(q) ==
    /\ At(q, {"sync"}, "owner") /\ req[q].seen = {}
    /\ req' = [req EXCEPT ![q].pc = "status", ![q].seen = "ok"]
    /\ Frame /\ UNCHANGED tables

SyncStatus(q) ==
    /\ At(q, {"sync"}, "status")
    /\ source' = [source EXCEPT ![req[q].scope] = req[q].seen]
    /\ Reply(q)
    /\ Frame /\ UNCHANGED <<service, consumer, row, env>>

-----------------------------------------------------------------------------
(* Sandbox environments.                                                   *)

\* Mutant: environments are found by id alone.
ListEnvs_AnyOrg(scope) == {e \in Envs : env[e] \notin {None, Gone}}

\* list_sandbox_envs, and the condition of the handlers that name one.
ListEnvs(scope) == {e \in Envs : env[e] \notin {None, Gone} /\ env[e].org = scope}
EnvVisible(r) == r.arg[1] \in ListEnvs(r.scope)

CreateEnv(q) ==
    LET r == req[q] IN
    /\ At(q, {"env"}, "insert")
    /\ env[r.arg[1]] = None
    /\ env' = [env EXCEPT ![r.arg[1]] = [org |-> r.scope, token |-> r.arg[2]]]
    /\ Reply(q)
    /\ Frame /\ UNCHANGED <<service, consumer, row, source>>

\* update_sandbox_env reads the token, to keep it when the body has none ...
ReadToken(q) ==
    LET r == req[q] IN
    /\ At(q, {"update env"}, "select")
    /\ IF EnvVisible(r)
       THEN req' = [req EXCEPT ![q].pc = "update",
                       ![q].seen = IF r.arg[2] = None THEN env[r.arg[1]].token ELSE r.arg[2]]
       ELSE Reply(q)
    /\ Frame /\ UNCHANGED tables

\* ... and writes the whole row.
UpdateEnv(q) ==
    LET r == req[q] IN
    /\ At(q, {"update env"}, "update")
    /\ env' = IF EnvVisible(r) THEN [env EXCEPT ![r.arg[1]].token = r.seen] ELSE env
    /\ CommitAnd(q, <<"env", r.arg[1]>>, Idle)
    /\ Frame /\ UNCHANGED <<service, consumer, row, source>>

DeleteEnv(q) ==
    /\ At(q, {"delete env"}, "delete")
    /\ env' = IF EnvVisible(req[q]) THEN [env EXCEPT ![req[q].arg[1]] = Gone] ELSE env
    /\ Reply(q)
    /\ Frame /\ UNCHANGED <<service, consumer, row, source>>

-----------------------------------------------------------------------------
Handle(q) ==
    \/ CheckService(q) \/ UpsertService(q)
    \/ GuardService(q) \/ CheckConsumer(q) \/ ServiceExists(q)
    \/ SelectSubscription(q) \/ SelectWebhook(q) \/ SelectScan(q)
    \/ InsertSubscription(q) \/ InsertWebhook(q) \/ InsertScan(q) \/ InsertRule(q)
    \/ DeleteRow(q) \/ ToggleRule(q)
    \/ InsertConsumer(q) \/ FetchConsumer(q)
    \/ CreateSource(q) \/ FetchOwners(q) \/ SyncOwner(q) \/ SyncDone(q) \/ SyncStatus(q)
    \/ CreateEnv(q) \/ ReadToken(q) \/ UpdateEnv(q) \/ DeleteEnv(q)

Next ==
    \/ SessionNext /\ "login" \in workload
         /\ UNCHANGED <<workload, tables, req, arrived>>
    \/ \E q \in Slots : Arrive(q) \/ Handle(q) \/ Drop(q)

Spec == Init /\ [][Next]_vars

-----------------------------------------------------------------------------
(* What a scope is shown of services and consumers.                        *)

ListServices(scope) == {s \in Services : service[s] # None /\ scope \in {Blank, service[s]}}
ListAllConsumers(scope) == {c \in consumer : scope \in {Blank, c.org}}

\* list_consumers: every consumer that subscribes to the service, whoever's.
ListConsumers(scope, s) ==
    IF ~ OwnedOrAbsent(s, scope) THEN {}
    ELSE {c \in consumer : \E x \in row : x.table = "subscription" /\ x.key = <<s, IdOf(c)>>}

-----------------------------------------------------------------------------
TypeOK ==
    /\ SessionTypeOK
    /\ workload \in Workloads
    /\ ("login" \notin workload => config.jwt # config.token /\ ~ config.require)
    /\ service \in [Services -> {None} \cup Scopes]
    /\ consumer \subseteq [org : Scopes, name : Names,
                           source : {"manual", "collection_file", "catalog"}]
    /\ \A x \in row : x.table \in {"subscription", "webhook", "scan", "rule"}
    /\ env \in [Envs -> {None, Gone} \cup [org : Scopes, token : Tokens \cup {None}]]
    /\ source \in [Scopes -> {None, "never", "ok", "error"}]
    /\ \A q \in Busy : req[q].op \in Operations /\ req[q].scope \in Scopes
    /\ arrived \in 0 .. MaxRequests

(* Registering twice one after the other gives one row.  The handlers of   *)
(* subscriptions, webhooks and scans are meant to be idempotent and have   *)
(* no unique index behind them: a second row of one key is inserted only   *)
(* by a request during which another request inserted a row of that key.   *)
DuplicatesNeedOverlap ==
    [][\A q \in Slots :
         (/\ InsertSubscription(q) \/ InsertWebhook(q) \/ InsertScan(q)
          /\ Rows(req[q]) # {})
            => <<TableOf(req[q].op), req[q].arg>> \in req[q].since]_vars

(* A subscription or a scan that reaches from one organisation into        *)
(* another is one whose request found no service of that id, or met its    *)
(* registration under way: require_org_owned lets an absent row through,   *)
(* and whoever registers the id later owns what was tied to it.            *)
LinksStayInOrg ==
    \A x \in row :
        /\ (x.table = "subscription" /\ ~ x.blind) =>
              MayAccess(service[x.key[1]], x.key[2].org)
        /\ (x.table = "scan" /\ ~ x.blind) =>
              MayAccess(service[x.key[2]], x.key[1])

(* A request changes rows of its own scope only, whatever other requests   *)
(* did since it looked; the one exception is the upsert of a service that  *)
(* another organisation registered between the check of its owner and the  *)
(* upsert, which does not look again.                                      *)
StepsStayInScope ==
    [][\A q \in Slots : Handle(q) =>
         LET r == req[q]
             mine(x) == IF x.table = "subscription" THEN MayAccess(x.key[2].org, r.scope)
                        ELSE x.key[1] = r.scope
         IN  /\ \A x \in (row \ row') \cup (row' \ row) : mine(x)
             /\ \A c \in (consumer \ consumer') \cup (consumer' \ consumer) : c.org = r.scope
             /\ \A e \in Envs : env[e] # env'[e] => env'[e] = Gone \/ env'[e].org = r.scope
             /\ \A e \in Envs : env[e] # env'[e] => env[e] = None \/ env[e].org = r.scope
             /\ \A o \in Scopes : source[o] # source'[o] => o = r.scope
             /\ UpsertService(q) => OwnedOrAbsent(r.arg, r.scope)
                                     \/ <<"service", r.arg>> \in r.since]_vars

(* The consumers a tenant is shown under a service it owns are its own or  *)
(* nobody's, as long as no subscription was made around the registration   *)
(* of the service: list_consumers joins on the service alone and relies on *)
(* the checks made when the rows were inserted.                            *)
OwnServiceListsOwnConsumers ==
    (\A x \in row : x.table = "subscription" => ~ x.blind) =>
        \A o \in Orgs : \A s \in ListServices(o) : \A c \in ListConsumers(o, s) :
            c \in ListAllConsumers(o) \/ c.org = Blank

(* Tenants are apart: in who they are, in what they see and in what their  *)
(* rows are tied to.                                                       *)
TenantsAreApart ==
    /\ TypeOK
    /\ SessionNamesAnOrg /\ WildcardOnlyWithoutTenants
    /\ LinksStayInOrg /\ OwnServiceListsOwnConsumers

(* Nobody acts for another tenant: not by finishing another's login, not   *)
(* by a request that looked before somebody else wrote.                    *)
NobodyActsForAnother == SessionIsOfOwnLogin /\ StepsStayInScope

(* A token that was stored comes back after it was replaced only when two  *)
(* updates of the environment overlapped: an update that leaves the token  *)
(* out writes back the one it read.                                        *)
TokenRevertNeedsOverlap ==
    [][\A q \in Slots :
         (UpdateEnv(q) /\ req[q].arg[2] = None /\ env' # env)
            => <<"env", req[q].arg[1]>> \in req[q].since]_vars

(* What the upserts by SELECT and INSERT can do wrong takes two requests   *)
(* at once: one client, one after the other, never sees it.                *)
HarmNeedsOverlap == DuplicatesNeedOverlap /\ TokenRevertNeedsOverlap

(* A sync that reports ok has a consumer for every owner of the catalog:   *)
(* "upsert one Consumer per unique owner" (catalog.rs:227).                *)
SyncRegistersOwners ==
    \A q \in Busy :
        (At(q, {"sync"}, "status") /\ req[q].seen = "ok")
           => \A name \in req[q].arg : NameTaken(req[q].scope, name)

-----------------------------------------------------------------------------
(* The inductive invariant behind the three groups of properties.          *)

\* A request names rows under its own scope.
Shape(r) ==
    /\ r = [op |-> r.op, scope |-> r.scope, arg |-> r.arg, pc |-> r.pc,
            seen |-> r.seen, since |-> r.since]
    /\ r.op \in Operations /\ r.scope \in Scopes
    /\ r.op = "service" => r.arg \in Services
    /\ r.op = "subscribe" => r.arg \in Services \X ConsumerIds
    /\ r.op \in {"webhook", "delete webhook"} => r.arg \in {r.scope} \X Urls
    /\ r.op \in {"scan", "delete scan"} => r.arg \in {r.scope} \X Services \X Urls
    /\ r.op \in {"rule", "toggle rule", "delete rule"} => r.arg \in {r.scope} \X Names
    /\ r.op \in {"consumer", "upsert consumer"} => r.arg \in Names
    /\ r.op \in {"env", "update env", "delete env"} => r.arg \in Envs \X (Tokens \cup {None})

\* What a request knows from the statements behind it, or else other requests
\* have written since: the owner of its service, the absence of its row, the
\* token of its environment.  The owner of its consumer never changes.
Knows(r) ==
    /\ (/\ r.op \in {"subscribe", "scan"} /\ r.pc # "guard"
        /\ <<"service", ServiceOf(r)>> \notin r.since)
          => OwnedOrAbsent(ServiceOf(r), r.scope)
    /\ (r.op = "service" /\ r.pc = "upsert" /\ <<"service", r.arg>> \notin r.since)
          => OwnedOrAbsent(r.arg, r.scope)
    /\ (r.op = "subscribe" /\ r.pc \notin {"guard", "consumer"})
          => MayAccess(r.arg[2].org, r.scope)
    /\ (/\ r.op \in {"subscribe", "webhook", "scan"} /\ r.pc = "insert"
        /\ <<TableOf(r.op), r.arg>> \notin r.since)
          => Rows(r) = {}
    /\ (r.op = "update env" /\ r.pc = "update")
          => /\ r.seen \in Tokens \cup {None}
             /\ env[r.arg[1]] # None
             /\ (r.arg[2] = None /\ <<"env", r.arg[1]>> \notin r.since)
                   => env[r.arg[1]] = Gone \/ env[r.arg[1]].token = r.seen
    /\ (r.op = "sync" /\ r.pc = "status") => r.seen \in {"ok", "error"}

\* With sessions there are tenants only; without, there are none, and all that
\* is registered belongs to nobody.
Tenancy ==
    IF config.jwt
    THEN \A q \in Busy : req[q].scope # Blank
    ELSE /\ logins = {} /\ callbacks = {} /\ \A c \in Callers : session[c] = None
         /\ \A q \in Busy : req[q].scope = Blank
         /\ \A s \in Services : service[s] \in {None, Blank}

\* A row that saw its service refers to one that exists.
RowsAreSound ==
    \A x \in row :
        /\ x.table = "subscription" => x.key \in Services \X ConsumerIds
        /\ x.table = "scan" => x.key \in Scopes \X Services \X Urls
        /\ (x.table = "subscription" /\ ~ x.blind) => service[x.key[1]] # None
        /\ (x.table = "scan" /\ ~ x.blind) => service[x.key[2]] # None

IInv ==
    /\ TypeOK /\ SessionNamesAnOrg
    /\ Tenancy /\ RowsAreSound /\ LinksStayInOrg
    /\ req = [q \in Slots |-> req[q]]
    /\ \A q \in Busy : Shape(req[q]) /\ Knows(req[q])
=============================================================================
