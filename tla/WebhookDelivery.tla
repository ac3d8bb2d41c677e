--------------------------- MODULE WebhookDelivery ---------------------------
(***************************************************************************)
(* Outbound webhooks of radar-api (radar-api/src/webhooks.rs).  A stored   *)
(* diff, or a test ping, spawns one delivery task per webhook.  The task   *)
(* records the delivery as pending, then sends with retries and updates    *)
(* its row after every attempt.  Five seconds after a start of the process *)
(* the outbox sweep spawns a second kind of task for every row it finds    *)
(* pending.  The tasks, the sweep, the deletion of webhooks and crashes    *)
(* interleave at every await; each SQL statement is atomic.                *)
(***************************************************************************)
EXTENDS Integers, FiniteSets

CONSTANTS
    Webhooks,      \* registered webhooks
    Events,        \* stored diffs and test pings
    MaxAttempts,   \* length of the delay table, 4 in the code
    MaxCrashes,    \* bound: crashes of the process
    MaxFaults      \* bound: SQL statements of the background tasks that fail

ASSUME AttemptsAssumption == MaxAttempts \in Nat \ {0}
ASSUME CrashesAssumption  == MaxCrashes \in Nat
ASSUME FaultsAssumption   == MaxFaults \in Nat

VARIABLES
    hook,      \* hook[w]: the row of w in the webhook table is "live" or "deleted"
    event,     \* "none", "queued" (its dispatch task is spawned), "dispatched"
    row,       \* row[d]: status column of webhook_delivery, "none" before the
               \* INSERT, "gone" once the row is cascaded away
    tries,     \* tries[d]: attempt column
    sweep,     \* the outbox task of this process: "waiting" or "done"
    pc,        \* pc[d][k]: next await of the task of kind k for d, "none" if dead
    tried,     \* tried[d][k]: attempts its loop has made
    (* history variables, read by properties only, and bounds *)
    sends,     \* requests sent for d
    accepted,  \* of these, the ones the receiver took
    lost,      \* of these, the ones whose answer never came
    refused,   \* a task of d gave up because the URL is refused
    crashes,
    faults

taskVars  == <<pc, tried>>
rowVars   == <<row, tries>>
ghostVars == <<sends, accepted, lost, refused>>
boundVars == <<crashes, faults>>
deliveryVars == <<hook, event, rowVars, sweep, taskVars, ghostVars, boundVars>>

\* One delivery per event and webhook.
Deliveries == Events \X Webhooks
Hook(d)    == d[2]

\* deliver_webhook_event, and retry_pending_delivery of the outbox.
Kinds == {"first", "outbox"}
PC    == {"none", "insert", "connect", "send", "accepted", "turned_down", "exhausted"}

DeliveryInit ==
    /\ hook     = [w \in Webhooks |-> "live"]
    /\ event    = [e \in Events |-> "none"]
    /\ row      = [d \in Deliveries |-> "none"]
    /\ tries    = [d \in Deliveries |-> 0]
    /\ sweep    = "waiting"
    /\ pc       = [d \in Deliveries |-> [k \in Kinds |-> "none"]]
    /\ tried    = [d \in Deliveries |-> [k \in Kinds |-> 0]]
    /\ sends    = [d \in Deliveries |-> 0]
    /\ accepted = [d \in Deliveries |-> 0]
    /\ lost     = [d \in Deliveries |-> 0]
    /\ refused  = [d \in Deliveries |-> FALSE]
    /\ crashes  = 0
    /\ faults   = 0

SqlFault ==
    /\ faults < MaxFaults
    /\ faults' = faults + 1

-----------------------------------------------------------------------------
(* Handlers *)

\* A handler or a scan has committed a diff and spawned dispatch_diff_event.
StoreDiff(e) ==
    /\ event[e] = "none"
    /\ event' = [event EXCEPT ![e] = "queued"]
    /\ UNCHANGED <<hook, rowVars, sweep, taskVars, ghostVars, boundVars>>

\* POST /v1/webhooks/:id/test spawns one delivery of a ping.
TestWebhook(e, w) ==
    /\ event[e] = "none"
    /\ hook[w] = "live"
    /\ event' = [event EXCEPT ![e] = "dispatched"]
    /\ pc' = [pc EXCEPT ![<<e, w>>]["first"] = "insert"]
    /\ UNCHANGED <<hook, rowVars, sweep, tried, ghostVars, boundVars>>

\* DELETE /v1/webhooks/:id; the foreign key takes its deliveries along.
DeleteWebhook(w) ==
    /\ hook[w] = "live"
    /\ hook' = [hook EXCEPT ![w] = "deleted"]
    /\ row' = [d \in Deliveries |-> IF Hook(d) = w /\ row[d] # "none"
                                    THEN "gone" ELSE row[d]]
    /\ UNCHANGED <<event, tries, sweep, taskVars, ghostVars, boundVars>>

-----------------------------------------------------------------------------
(* Background tasks *)

\* dispatch_diff_event: read the webhooks of the org, spawn a delivery for each.
\* If one of its SELECTs fails the event is dropped with a warning.
Dispatch(e) ==
    /\ event[e] = "queued"
    /\ event' = [event EXCEPT ![e] = "dispatched"]
    /\ \/ /\ pc' = [d \in Deliveries |->
                     IF d[1] = e /\ hook[Hook(d)] = "live"
                     THEN [pc[d] EXCEPT !["first"] = "insert"] ELSE pc[d]]
          /\ UNCHANGED faults
       \/ /\ SqlFault
          /\ UNCHANGED pc
    /\ UNCHANGED <<hook, rowVars, sweep, tried, ghostVars, crashes>>

\* delivery_client: no client when the URL is refused, and the task returns with the
\* row still pending; otherwise on to the first attempt, which has no delay.
Connect(d, k) ==
    \/ /\ pc' = [pc EXCEPT ![d][k] = "send"]
       /\ tried' = [tried EXCEPT ![d][k] = 0]
       /\ UNCHANGED refused
    \/ /\ pc' = [pc EXCEPT ![d][k] = "none"]
       /\ refused' = [refused EXCEPT ![d] = TRUE]
       /\ UNCHANGED tried

\* Mutant: a delivery that could not be recorded is sent all the same.
Recorded_Ignored(d) == TRUE

\* The INSERT of a pending row succeeds only under an existing webhook.
Recorded(d) == hook[Hook(d)] = "live"

\* deliver_webhook_event up to the first send.  If the INSERT fails nothing is sent.
RecordPending(d) ==
    /\ pc[d]["first"] = "insert"
    /\ \/ /\ Recorded(d)
          /\ row' = [row EXCEPT ![d] = IF hook[Hook(d)] = "live" THEN "pending" ELSE "none"]
          /\ tries' = [tries EXCEPT ![d] = 0]
          /\ Connect(d, "first")
          /\ UNCHANGED faults
       \/ /\ \/ ~Recorded(d) /\ UNCHANGED faults
             \/ SqlFault
          /\ pc' = [pc EXCEPT ![d]["first"] = "none"]
          /\ UNCHANGED <<rowVars, tried, refused>>
    /\ UNCHANGED <<hook, event, sweep, sends, accepted, lost, crashes>>

\* retry_pending_delivery up to the first send.
TakeUp(d) ==
    /\ pc[d]["outbox"] = "connect"
    /\ Connect(d, "outbox")
    /\ UNCHANGED <<hook, event, rowVars, sweep, sends, accepted, lost, boundVars>>

\* One POST.  The answer is a 2xx, or the receiver turns the request down or is not
\* reached, or it takes the request and its answer is lost or later than the timeout
\* of ten seconds.  The task cannot tell the third from the second.
SendAttempt(d, k) ==
    /\ pc[d][k] = "send"
    /\ tried' = [tried EXCEPT ![d][k] = @ + 1]
    /\ sends' = [sends EXCEPT ![d] = @ + 1]
    /\ \/ /\ pc' = [pc EXCEPT ![d][k] = "accepted"]
          /\ accepted' = [accepted EXCEPT ![d] = @ + 1]
          /\ UNCHANGED lost
       \/ /\ pc' = [pc EXCEPT ![d][k] = "turned_down"]
          /\ UNCHANGED <<accepted, lost>>
       \/ /\ pc' = [pc EXCEPT ![d][k] = "turned_down"]
          /\ accepted' = [accepted EXCEPT ![d] = @ + 1]
          /\ lost' = [lost EXCEPT ![d] = @ + 1]
    /\ UNCHANGED <<hook, event, rowVars, sweep, refused, boundVars>>

\* An UPDATE of the row of d by its id: it fails, or finds no row, or writes the
\* attempt and, unless s is "same", the status.
UpdateRow(d, s, n) ==
    \/ /\ row[d] # "gone"
       /\ row' = [row EXCEPT ![d] = IF s = "same" THEN @ ELSE s]
       /\ tries' = [tries EXCEPT ![d] = n]
       /\ UNCHANGED faults
    \/ /\ row[d] = "gone"
       /\ UNCHANGED <<rowVars, faults>>
    \/ /\ SqlFault
       /\ UNCHANGED rowVars

\* After a 2xx: status = 'delivered', whatever the status is; the task ends.
MarkDelivered(d, k) ==
    /\ pc[d][k] = "accepted"
    /\ UpdateRow(d, "delivered", tried[d][k])
    /\ pc' = [pc EXCEPT ![d][k] = "none"]
    /\ UNCHANGED <<hook, event, sweep, tried, ghostVars, crashes>>

\* The loop goes through the delay table.
AfterFailure(d, k) == IF tried[d][k] < MaxAttempts THEN "send" ELSE "exhausted"

\* After any other answer or none: the attempt is noted, then the next delay or the end.
NoteFailure(d, k) ==
    /\ pc[d][k] = "turned_down"
    /\ UpdateRow(d, "same", tried[d][k])
    /\ pc' = [pc EXCEPT ![d][k] = AfterFailure(d, k)]
    /\ UNCHANGED <<hook, event, sweep, tried, ghostVars, crashes>>

\* All attempts failed: status = 'failed', whatever the status is; the task ends.
MarkFailed(d, k) ==
    /\ pc[d][k] = "exhausted"
    /\ UpdateRow(d, "failed", tries[d])
    /\ pc' = [pc EXCEPT ![d][k] = "none"]
    /\ UNCHANGED <<hook, event, sweep, tried, ghostVars, crashes>>

Deliver(d) ==
    \/ RecordPending(d)
    \/ TakeUp(d)
    \/ \E k \in Kinds : \/ SendAttempt(d, k) \/ MarkDelivered(d, k)
                        \/ NoteFailure(d, k) \/ MarkFailed(d, k)

\* Mutant: the sweep takes up failed deliveries and leaves the pending ones.
Abandoned_Failed(d) == row[d] = "failed"

\* The rows the sweep selects.  Nothing tells an abandoned delivery from one in flight.
Abandoned(d) == row[d] = "pending"

\* Mutant: the sweep runs again and again.
AfterSweep_Loop == "waiting"

\* The task of the sweep ends after one pass.
AfterSweep == "done"

\* start_webhook_outbox, five seconds after the start.
OutboxSweep ==
    /\ sweep = "waiting"
    /\ sweep' = AfterSweep
    /\ \/ /\ pc' = [d \in Deliveries |->
                     IF Abandoned(d) THEN [pc[d] EXCEPT !["outbox"] = "connect"] ELSE pc[d]]
          /\ UNCHANGED faults
       \/ /\ SqlFault
          /\ UNCHANGED pc
    /\ UNCHANGED <<hook, event, rowVars, tried, ghostVars, crashes>>

\* The process dies and starts again: tasks and queued events are gone, rows stay.
Crash ==
    /\ crashes < MaxCrashes
    /\ crashes' = crashes + 1
    /\ event' = [e \in Events |-> IF event[e] = "queued" THEN "dispatched" ELSE event[e]]
    /\ pc' = [d \in Deliveries |-> [k \in Kinds |-> "none"]]
    /\ tried' = [d \in Deliveries |-> [k \in Kinds |-> 0]]
    /\ sweep' = "waiting"
    /\ UNCHANGED <<hook, rowVars, ghostVars, faults>>

DeliveryNext ==
    \/ \E e \in Events : StoreDiff(e) \/ Dispatch(e)
    \/ \E e \in Events, w \in Webhooks : TestWebhook(e, w)
    \/ \E w \in Webhooks : DeleteWebhook(w)
    \/ \E d \in Deliveries : Deliver(d)
    \/ OutboxSweep
    \/ Crash

DeliverySpec == DeliveryInit /\ [][DeliveryNext]_deliveryVars

\* The runtime polls every spawned task and the timer of the sweep; requests time
\* out after ten seconds.  Clients and crashes owe nothing.
FairDeliverySpec ==
    /\ DeliverySpec
    /\ WF_deliveryVars(OutboxSweep)
    /\ \A e \in Events : WF_deliveryVars(Dispatch(e))
    /\ \A d \in Deliveries : WF_deliveryVars(RecordPending(d)) /\ WF_deliveryVars(TakeUp(d))
    /\ \A d \in Deliveries, k \in Kinds :
         /\ WF_deliveryVars(SendAttempt(d, k))
         /\ WF_deliveryVars(MarkDelivered(d, k) \/ NoteFailure(d, k) \/ MarkFailed(d, k))

-----------------------------------------------------------------------------
(* Properties *)

\* Every variable has its type; no loop runs past the delay table.
DeliveryTypeOK ==
    /\ hook \in [Webhooks -> {"live", "deleted"}]
    /\ event \in [Events -> {"none", "queued", "dispatched"}]
    /\ row \in [Deliveries -> {"none", "pending", "delivered", "failed", "gone"}]
    /\ tries \in [Deliveries -> 0 .. MaxAttempts]
    /\ sweep \in {"waiting", "done"}
    /\ pc \in [Deliveries -> [Kinds -> PC]]
    /\ tried \in [Deliveries -> [Kinds -> 0 .. MaxAttempts]]
    /\ sends \in [Deliveries -> Nat]
    /\ accepted \in [Deliveries -> Nat]
    /\ lost \in [Deliveries -> Nat]
    /\ refused \in [Deliveries -> BOOLEAN]
    /\ crashes \in 0 .. MaxCrashes
    /\ faults \in 0 .. MaxFaults

\* "Sending anyway would be an untracked delivery": no request leaves before its
\* row is stored, whatever happens to the webhook or the database meanwhile.
NoUntrackedSend ==
    \A d \in Deliveries : sends[d] > 0 => row[d] # "none"

\* The requests that were answered with a 2xx.
Answered(d) == accepted[d] - lost[d]

\* The status an operator reads is earned: delivered, only if the receiver said it took
\* the delivery; failed, only if a full set of attempts was turned down or not answered.
StatusIsEarned ==
    \A d \in Deliveries :
      /\ row[d] = "delivered" => Answered(d) > 0
      /\ row[d] = "failed" => sends[d] - Answered(d) >= MaxAttempts

\* What the table of deliveries says is so: each request has its row, each verdict
\* its requests.
DeliveriesAreTracked == DeliveryTypeOK /\ NoUntrackedSend /\ StatusIsEarned

\* Duplicates have a limit: a receiver takes a delivery at most once for its own task,
\* once for each start of the process, whose sweep may find it pending, and once for
\* each answer that did not come; and it is called at most MaxAttempts times for the
\* task and for each start, lost answers or not.
DuplicatesAreBounded ==
    \A d \in Deliveries : /\ accepted[d] <= 2 + crashes + lost[d]
                          /\ sends[d] <= MaxAttempts * (2 + crashes)

\* What the outbox is for: a recorded delivery does not stay pending, also when the
\* process crashes under it, unless its URL is refused or the database fails.
NothingStaysPending ==
    \A d \in Deliveries :
      row[d] = "pending" ~> row[d] # "pending" \/ refused[d] \/ faults > 0

\* EPIC-K-L-PLAN.md: "Given the Slack URL returns 200 OK Then the webhook_delivery row
\* status is 'delivered'".
AcceptedIsDelivered ==
    \A d \in Deliveries :
      Answered(d) > 0 /\ (\A k \in Kinds : pc[d][k] = "none")
        => row[d] \in {"delivered", "gone"}
-----------------------------------------------------------------------------
(* Why the safety properties hold.                                         *)

\* What a task knows while it runs: its row is there, the attempts it has made in vain
\* are among the requests sent, an answered one is counted.
TaskKnows(d, k) ==
    /\ pc[d][k] \notin {"none", "insert"} => row[d] # "none"
    /\ pc[d]["outbox"] # "insert"
    /\ lost[d] <= accepted[d] /\ accepted[d] <= sends[d]
    /\ pc[d][k] = "send" => tried[d][k] < MaxAttempts
    /\ pc[d][k] = "exhausted" => tried[d][k] >= MaxAttempts
    /\ pc[d][k] \in {"send", "turned_down", "exhausted"} => sends[d] - Answered(d) >= tried[d][k]
    /\ pc[d][k] = "accepted" => Answered(d) > 0

\* The requests the task may still send, and the answers it may still get.
SendsLeft(d, k) ==
    IF pc[d][k] \in {"insert", "connect"} THEN MaxAttempts
    ELSE IF pc[d][k] \in {"send", "turned_down"} THEN MaxAttempts - tried[d][k] ELSE 0
AcceptsLeft(d, k) == IF pc[d][k] \in {"insert", "connect", "send", "turned_down"} THEN 1 ELSE 0

\* n for each task that this process may still start for d.
ToStart(d, n) == (IF sweep = "waiting" THEN n ELSE 0)
                 + (IF event[d[1]] # "dispatched" THEN n ELSE 0)

\* What was sent and what may still be sent fit into the tasks of all starts.
WithinBudget(d) ==
    /\ sends[d] + SendsLeft(d, "first") + SendsLeft(d, "outbox") + ToStart(d, MaxAttempts)
         <= MaxAttempts * (2 + crashes)
    /\ accepted[d] + AcceptsLeft(d, "first") + AcceptsLeft(d, "outbox") + ToStart(d, 1)
         <= 2 + crashes + lost[d]

IInv ==
    /\ DeliveryTypeOK /\ NoUntrackedSend /\ StatusIsEarned
    /\ \A d \in Deliveries : WithinBudget(d) /\ \A k \in Kinds : TaskKnows(d, k)
=============================================================================
