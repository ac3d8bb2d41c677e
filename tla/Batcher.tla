------------------------------- MODULE Batcher -------------------------------
(***************************************************************************)
(* RadarBatcher of the two SDKs: radar-sdk-node/src/index.js and           *)
(* radar-sdk-python/radar_monitor/middleware.py.                           *)
(*                                                                         *)
(* In node everything runs on one thread and a flush is a request at once. *)
(* In Python a flush hands the batch to a worker thread; the queue is      *)
(* under a lock, the timer is a thread of its own that flushes and only    *)
(* then arms the next timer, and destroy() cancels the timer, flushes, and *)
(* puts a sentinel behind the batches.                                     *)
(***************************************************************************)
EXTENDS Naturals, Sequences, FiniteSets, SequencesExt

CONSTANTS
    MaxEvents, \* bound on the events pushed
    MaxBatch,  \* _maxBatch
    Stop       \* the sentinel of destroy()

ASSUME BatcherAssumption == MaxEvents \in Nat /\ MaxBatch \in Nat \ {0}
ASSUME StopAssumption == Stop \notin Seq(1 .. MaxEvents)

Events == 1 .. MaxEvents \* numbered as they are pushed

VARIABLES
    sdk,     \* "node" or "python"
    pushed,  \* events so far
    queue,   \* _queue
    handed,  \* _send_queue
    worker,  \* idle, sending, or ended
    timer,   \* armed; fired: flushed and not armed again yet; off
    closing, \* how far destroy() is
    flying,  \* batches on their way to the server
    lost,    \* events that are lost, with the reason
    late     \* for the properties: events pushed after destroy() began

batcherVars == <<sdk, pushed, queue, handed, worker, timer, closing, flying, lost, late>>

BatcherInit ==
    /\ sdk \in {"node", "python"}
    /\ pushed = 0 /\ queue = <<>> /\ handed = <<>> /\ worker = "idle"
    /\ timer = "armed" /\ closing = "open"
    /\ flying = {} /\ lost = {} /\ late = {}

Lose(batch, reason) == {[event |-> e, reason |-> reason] : e \in ToSet(batch)}

-----------------------------------------------------------------------------
(* push and flush.                                                         *)

Drained(q) == SubSeq(q, MaxBatch + 1, Len(q))

Batch(q) == SubSeq(q, 1, IF Len(q) < MaxBatch THEN Len(q) ELSE MaxBatch)

\* flush() of queue q: nothing when it is empty.
Flush(q) ==
    IF q = <<>> THEN queue' = q /\ UNCHANGED <<handed, flying>>
    ELSE /\ queue' = Drained(q)
         /\ IF sdk = "node"
            THEN flying' = flying \cup {Batch(q)} /\ UNCHANGED handed
            ELSE handed' = Append(handed, Batch(q)) /\ UNCHANGED flying

FlushDue(q) == Len(q) >= MaxBatch

Push ==
    LET e == pushed + 1  q == Append(queue, e) IN
    /\ closing # "exited" /\ pushed < MaxEvents
    /\ pushed' = e
    /\ late' = IF closing = "open" THEN late ELSE late \cup {e}
    /\ IF Len(queue) >= 2 * MaxBatch
       THEN lost' = lost \cup Lose(<<e>>, "back-pressure") /\ UNCHANGED <<queue, handed, flying>>
       ELSE /\ UNCHANGED lost
            /\ IF FlushDue(q) THEN Flush(q) ELSE queue' = q /\ UNCHANGED <<handed, flying>>
    /\ UNCHANGED <<sdk, worker, timer, closing>>

\* The interval is over.  node arms its timer by itself.
TimerFires ==
    /\ timer = "armed"
    /\ Flush(queue)
    /\ timer' = IF sdk = "node" THEN "armed" ELSE "fired"
    /\ UNCHANGED <<sdk, pushed, worker, closing, lost, late>>

\* Mutant: the next timer is forgotten.
Rearmed_Off == "off"

\* _scheduled_flush arms a new timer even if destroy() has cancelled the old one.
Rearmed == "armed"

TimerRearms ==
    /\ timer = "fired"
    /\ timer' = Rearmed
    /\ UNCHANGED <<sdk, pushed, queue, handed, worker, closing, flying, lost, late>>

-----------------------------------------------------------------------------
(* The worker of Python.                                                   *)

WorkerTakes ==
    /\ worker = "idle" /\ handed # <<>>
    /\ handed' = Tail(handed)
    /\ IF Head(handed) = Stop
       THEN worker' = "ended" /\ UNCHANGED flying
       ELSE worker' = "sending" /\ flying' = flying \cup {Head(handed)}
    /\ UNCHANGED <<sdk, pushed, queue, timer, closing, lost, late>>

\* An answer, an error, or three seconds without either: it is all the same.
WorkerReturns ==
    /\ worker = "sending"
    /\ worker' = "idle"
    /\ UNCHANGED <<sdk, pushed, queue, handed, timer, closing, flying, lost, late>>

-----------------------------------------------------------------------------
(* destroy() and the end of the process.                                   *)

\* node: clearInterval and flush in one turn of the loop.
DestroyNode ==
    /\ sdk = "node" /\ closing = "open"
    /\ closing' = "closed" /\ timer' = "off"
    /\ Flush(queue)
    /\ UNCHANGED <<sdk, pushed, worker, lost, late>>

\* A timer that has fired is not there to be cancelled.
CancelTimer ==
    /\ sdk = "python" /\ closing = "open"
    /\ closing' = "cancelled"
    /\ timer' = IF timer = "armed" THEN "off" ELSE timer
    /\ UNCHANGED <<sdk, pushed, queue, handed, worker, flying, lost, late>>

\* Mutant: the sentinel is put before the last batch.
LastFlush_Behind == queue' = Drained(queue) /\ UNCHANGED flying
                    /\ handed' = handed \o <<Stop, Batch(queue)>>

LastFlush == Flush(queue)

FlushOnDestroy ==
    /\ closing = "cancelled"
    /\ closing' = "flushed"
    /\ LastFlush
    /\ UNCHANGED <<sdk, pushed, worker, timer, lost, late>>

PutSentinel ==
    /\ closing = "flushed"
    /\ closing' = "closed"
    /\ handed' = Append(handed, Stop)
    /\ UNCHANGED <<sdk, pushed, queue, worker, timer, flying, lost, late>>

\* The application ends, with or without destroy(): the worker is a daemon, the
\* timers keep no process alive.
Exit ==
    /\ closing # "exited"
    /\ closing' = "exited" /\ timer' = "off" /\ worker' = "ended"
    /\ lost' = lost \cup Lose(queue, "exit")
                    \cup UNION {Lose(b, "exit") : b \in ToSet(handed) \ {Stop}}
    /\ queue' = <<>> /\ handed' = <<>>
    /\ UNCHANGED <<sdk, pushed, flying, late>>

\* A batch reaches the server, or is lost on the way or at its door: no SDK looks
\* at the answer or sends a batch again.
Landed(b, losses) ==
    /\ b \in flying
    /\ flying' = flying \ {b}
    /\ lost' = lost \cup losses
    /\ UNCHANGED <<sdk, pushed, queue, handed, worker, timer, closing, late>>

BatcherNext ==
    \/ Push \/ TimerFires \/ TimerRearms \/ WorkerTakes \/ WorkerReturns
    \/ DestroyNode \/ CancelTimer \/ FlushOnDestroy \/ PutSentinel \/ Exit

-----------------------------------------------------------------------------
BatcherTypeOK ==
    /\ sdk \in {"node", "python"}
    /\ pushed \in 0 .. MaxEvents
    /\ queue \in Seq(Events)
    /\ \A n \in DOMAIN handed : handed[n] = Stop \/ handed[n] \in Seq(Events)
    /\ worker \in {"idle", "sending", "ended"}
    /\ timer \in {"armed", "fired", "off"}
    /\ closing \in {"open", "cancelled", "flushed", "closed", "exited"}
    /\ flying \subseteq Seq(Events)
    /\ lost \subseteq [event : Events, reason : {"back-pressure", "exit", "network", "limited"}]
    /\ late \subseteq Events

(* The back-pressure of push() is never needed: the queue is drained under *)
(* the same lock, or in the same turn of the loop, as it fills up.  What   *)
(* can grow without a bound is the queue of the worker.                    *)
BackPressureIsIdle ==
    /\ Len(queue) < MaxBatch
    /\ \A l \in lost : l.reason # "back-pressure"

(* destroy() leaves nothing behind: what was pushed before it began is     *)
(* ahead of the sentinel, whether the last flush, a flush that the queue   *)
(* filled up for, or the timer thread has handed it over; and nothing of   *)
(* it is still in the queue.                                               *)
DestroyLeavesNothing ==
    /\ \A m, n \in DOMAIN handed :
          (m < n /\ handed[m] = Stop /\ handed[n] # Stop) => ToSet(handed[n]) \subseteq late
    /\ closing = "closed" => ToSet(queue) \subseteq late
=============================================================================
