---------------------------- MODULE UsagePipeline ----------------------------
(***************************************************************************)
(* Usage evidence from the SDK in a consumer's process to the rows of the  *)
(* server: Batcher, the network, RateLimiter at the door of the server,    *)
(* Ingestion behind it; and ScanCommand, whose requests Ingestion stores   *)
(* as a whole.                                                             *)
(*                                                                         *)
(* Init picks what a behaviour is about: the way of SDK events through all *)
(* of them; the limiter among its clients; requests of any kind and        *)
(* organisation that meet in Ingestion while services are registered and   *)
(* sampling changes; or runs of `radar scan`.                              *)
(***************************************************************************)
EXTENDS Batcher, RateLimiter, Ingestion, ScanCommand

CONSTANTS
    MaxPosts,  \* bound on the requests that meet in Ingestion
    Batches,   \* their items, which are no events of the SDK
    Sampled,   \* organisations that set the sampling of the service
    SdkClient, \* the client of the SDK's process, one of Clients
    SdkOrg     \* the organisation of its token, one of Tenants

ASSUME PipelineAssumption ==
    /\ MaxPosts \in 0 .. MaxRequests /\ Sampled \subseteq Orgs
    /\ Batches \subseteq Seq([consumer : Orgs \cup {Free}, field : BOOLEAN, event : {0}])
    /\ SdkClient \in Clients /\ SdkOrg \in Tenants

VARIABLE area

vars == <<batcherVars, limiterVars, ingestVars, scanVars, area>>

Areas == {"sdk", "limiter", "posts", "scan"}

Init ==
    /\ area \in Areas
    /\ BatcherInit /\ LimiterInit /\ IngestInit /\ ScanInit
    /\ \A o \in Orgs : denied[o] => area \in {"sdk", "posts"} /\ o \in Sampled
    /\ area # "sdk" => sdk = "node"
    /\ area # "posts" => owner = SdkOrg
    /\ area # "limiter" => trust

\* What an event of the SDK becomes; every other one names a field.
EventItem(e) == [consumer |-> SdkOrg, field |-> e % 2 = 1, event |-> e]

\* A batch at the door of the server.
Deliver(b) ==
    \/ /\ Admit(SdkClient)
       /\ \E r \in Requests : Arrive(r, "usage", SdkOrg, [n \in DOMAIN b |-> EventItem(b[n])])
       /\ Landed(b, {})
       /\ UNCHANGED <<owner, denied, rows, siteRows, evidence>>
    \/ /\ Refuse(SdkClient)
       /\ Landed(b, Lose(b, "limited"))
       /\ UNCHANGED ingestVars

NetworkLoses(b) == Landed(b, Lose(b, "network")) /\ UNCHANGED <<limiterVars, ingestVars>>

Busy == flying # {} \/ \E r \in Requests : Running(r)

\* To the SDK the time matters as long as it has spent its limit.
ClockTicks == /\ area = "sdk" /\ Spent(ClientKey(SdkClient))
              /\ Tick /\ UNCHANGED <<batcherVars, ingestVars>>

\* No SDK looks at an answer: what the network and a handler do with a batch has
\* no state in common with the SDK, so the steps of the two may be taken one after
\* the other, and if a handler fails it is all the same where.
SdkNext ==
    \/ ~ Busy /\ BatcherNext /\ UNCHANGED <<limiterVars, ingestVars>>
    \/ \E b \in flying : Deliver(b) \/ NetworkLoses(b)
    \/ ClockTicks
    \/ /\ \E r \in Requests : Handler(r) \/ (WriteDue(r) /\ Fails(r))
       /\ UNCHANGED <<batcherVars, limiterVars>>

\* A request of another client.  A second one matters to the first only in the
\* tables where both may name one row.
Post(r, kind, org, items) ==
    /\ Arrive(r, kind, org, items)
    /\ \A x \in Requests : Arrived(x) => req[x].kind = kind /\ kind \in {"sites", "collection"}
    /\ UNCHANGED <<owner, denied, rows, siteRows, evidence>>

\* A put matters only to SDK events that have yet to be sampled.
Samples(r, o) == /\ Running(r) /\ req[r].org = o /\ req[r].kind = "usage"
                 /\ req[r].sampled < Len(req[r].items)

PostsNext ==
    \/ \E r \in 1 .. MaxPosts, kind \in Kinds, org \in Orgs, items \in Batches :
          Post(r, kind, org, items)
    \/ \E r \in Requests : Handler(r) \/ Fails(r)
    \/ RegisterService
    \/ \E o \in Sampled :
          /\ \E r \in Requests : Samples(r, o)
          /\ PutSampling(o)

Next ==
    /\ UNCHANGED area
    /\ \/ area = "sdk" /\ SdkNext /\ UNCHANGED scanVars
       \/ area = "limiter" /\ LimiterNext /\ UNCHANGED <<batcherVars, ingestVars, scanVars>>
       \/ area = "posts" /\ PostsNext /\ UNCHANGED <<batcherVars, limiterVars, scanVars>>
       \/ area = "scan" /\ ScanNext /\ UNCHANGED <<batcherVars, limiterVars, ingestVars>>

\* A request arrives or is lost; the clock, the handlers, the timer and the worker
\* of the SDK go on; destroy() does not stop half way.
Fairness ==
    /\ \A r \in Requests :
          WF_vars(Handler(r) /\ UNCHANGED <<batcherVars, limiterVars, scanVars, area>>)
    /\ WF_vars(\E b \in flying : (Deliver(b) \/ NetworkLoses(b)) /\ UNCHANGED <<scanVars, area>>)
    /\ WF_vars(/\ ClockTicks \/ (area = "limiter" /\ Tick /\ UNCHANGED <<batcherVars, ingestVars>>)
               /\ UNCHANGED <<scanVars, area>>)
    /\ WF_vars(/\ area = "sdk" /\ ~ Busy
               /\ TimerFires \/ TimerRearms \/ FlushOnDestroy \/ PutSentinel
               /\ UNCHANGED <<limiterVars, ingestVars, scanVars, area>>)
    /\ WF_vars(/\ area = "sdk" /\ ~ Busy
               /\ WorkerTakes \/ WorkerReturns
               /\ UNCHANGED <<limiterVars, ingestVars, scanVars, area>>)

Spec == Init /\ [][Next]_vars /\ Fairness

-----------------------------------------------------------------------------
TypeOK ==
    /\ area \in Areas
    /\ BatcherTypeOK /\ LimiterTypeOK /\ IngestTypeOK /\ ScanTypeOK

RowsOf(e) == {x \in rows : x.item.event = e}

(* An event is stored at most once, whatever the timer, the queue, the     *)
(* worker, the network and the shutdown do: a batch leaves the queue when  *)
(* it is taken and is never sent twice.                                    *)
StoredAtMostOnce == \A e \in Events : Cardinality(RowsOf(e)) <= 1

Has(r, e) == Arrived(r) /\ \E n \in DOMAIN req[r].items : req[r].items[n].event = e

\* The places an event can be in, and the ways it can be gone.
Places(e) ==
    {<<"queue", n>> : n \in {n \in DOMAIN queue : queue[n] = e}}
    \cup {<<"handed", n>> : n \in {n \in DOMAIN handed : handed[n] # Stop /\ Contains(handed[n], e)}}
    \cup {<<"flying", b>> : b \in {b \in flying : Contains(b, e)}}
    \cup {<<"lost", l.reason>> : l \in {l \in lost : l.event = e}}
    \cup {<<"request", r>> : r \in {r \in Requests : Has(r, e)}}

(* No event vanishes and none is in two places: it waits in the SDK, is on *)
(* its way, is in one request, or is lost to a known reason; and of those  *)
(* whose request was accepted only a field on the deny list is not stored. *)
EveryEventIsAccountedFor ==
    /\ \A e \in 1 .. pushed : Cardinality(Places(e)) = 1
    /\ \A r \in Requests, e \in Events :
          (Has(r, e) /\ req[r].answer = "accepted") => RowsOf(e) # {} \/ EventItem(e).field

\* The requests of a key admitted within the last Window.
Admitted(k) == {n \in DOMAIN recent : ClientKey(recent[n].client) = k}

(* In no Window does a key get more than twice the limit: the limiter      *)
(* counts in windows that a request opens, so the end of one and all of    *)
(* the next may fall together, but no more.                                *)
TwiceTheLimitAtMost == \A k \in Addresses : Cardinality(Admitted(k)) <= 2 * MaxPerMinute

\* Who a client is, to a server that trusts its proxy.
AddressOf(c) == IF c.forwarded # None THEN c.forwarded ELSE c.peer

AdmittedTo(c) == {n \in DOMAIN recent : recent[n].client = c}

(* A client whose address is its own is refused only when it has spent the *)
(* limit itself within the window; clients share a fate only when the      *)
(* server sees them under one address.                                     *)
RefusedOnlyWhenSpent ==
    [][\A c \in Clients :
         (/\ trust /\ \A d \in Clients \ {c} : AddressOf(d) # AddressOf(c)
          /\ verdict'[ClientKey(c)] = "refused" /\ verdict[ClientKey(c)] # "refused")
            => Cardinality(AdmittedTo(c)) >= MaxPerMinute]_vars

(* A key that is refused is served again in the end, whatever comes in     *)
(* under it meanwhile: refused requests do not prolong a window.           *)
RefusalsEnd == \A k \in Addresses : Spent(k) ~> ~ Spent(k)

Waiting(e) == e \in ToSet(queue) \cup UNION {ToSet(b) : b \in ToSet(handed) \ {Stop}}

(* What is pushed leaves the SDK in the end, full batch or not, while the  *)
(* SDK is open and when it is closed; only what is pushed after destroy()  *)
(* began may wait for ever.                                                *)
EventsLeaveTheSdk == \A e \in Events : Waiting(e) ~> (~ Waiting(e) \/ e \in late)

-----------------------------------------------------------------------------
\* Evidence on its way: no bound is passed in the SDK, nothing is left behind or
\* doubled on the way, the server stores batches whole, and a scan has stored what
\* it says.
EventsAreKept ==
    /\ TypeOK
    /\ BackPressureIsIdle /\ DestroyLeavesNothing
    /\ StoredAtMostOnce /\ EveryEventIsAccountedFor /\ BatchesAreWhole
    /\ ScansAreHonest

\* What clients feel of the limiter: twice the limit at most gets in, and who has
\* not spent it is not refused.
LimitIsFair == []TwiceTheLimitAtMost /\ RefusedOnlyWhenSpent

\* What is stored is of the caller's organisation and not on its deny list.
IngestionIsScoped == EvidenceStaysInOrg /\ DeniedFieldsStayOut

\* Nothing waits for ever: not a refused client, not an event in the SDK.
NothingWaitsForEver == RefusalsEnd /\ EventsLeaveTheSdk
=============================================================================
