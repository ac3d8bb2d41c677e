---------------------------- MODULE JobLifecycle ----------------------------
(***************************************************************************)
(* What a reader of GET /v1/csv-runs/:id may rely on, with no executor, no *)
(* requests and no failures in sight: a job's status and the number of its *)
(* rows reported as done.  A CSV run moves pending -> running -> finished, *)
(* may be cancelled from either of the first two, and its progress only    *)
(* grows.  Two edges of the code are wider than that and are kept, so that *)
(* the implementation refines this module: Resume (a cancellation that     *)
(* arrives before the start is overwritten) and the progress written after *)
(* a cancellation.                                                         *)
(***************************************************************************)
EXTENDS Integers

CONSTANTS Jobs, MaxRows

VARIABLES state,   \* the job's status
          rows,    \* its number of rows
          done     \* rows reported as done

lifecycleVars == <<state, rows, done>>

Unfinished == {"pending", "running"}
Verdicts   == {"completed", "completed_with_failures", "failed"}

LInit ==
    /\ state = [j \in Jobs |-> "none"]
    /\ rows = [j \in Jobs |-> 1]
    /\ done = [j \in Jobs |-> 0]

Submit(j) ==
    /\ state[j] = "none"
    /\ state' = [state EXCEPT ![j] = "pending"]
    /\ \E n \in 1 .. MaxRows : rows' = [rows EXCEPT ![j] = n]
    /\ UNCHANGED done

Begin(j) ==
    /\ state[j] = "pending"
    /\ state' = [state EXCEPT ![j] = "running"]
    /\ UNCHANGED <<rows, done>>

Cancel(j) ==
    /\ state[j] \in Unfinished
    /\ state' = [state EXCEPT ![j] = "cancelled"]
    /\ UNCHANGED <<rows, done>>

\* Only a job none of whose rows is done can come back from a cancellation.
Resume(j) ==
    /\ state[j] = "cancelled"
    /\ done[j] = 0
    /\ state' = [state EXCEPT ![j] = "running"]
    /\ UNCHANGED <<rows, done>>

\* Progress never goes back.  It may be reported late, by several rows at once,
\* and after a cancellation, never after a verdict.
Advance(j) ==
    /\ state[j] \in Unfinished \cup {"cancelled"}
    /\ \E n \in done[j] + 1 .. rows[j] : done' = [done EXCEPT ![j] = n]
    /\ UNCHANGED <<state, rows>>

\* Only a failed job may end with rows that are not done.
Finish(j) ==
    /\ state[j] \in Unfinished
    /\ \E v \in Verdicts, n \in done[j] .. rows[j] :
         /\ v # "failed" => n = rows[j]
         /\ state' = [state EXCEPT ![j] = v]
         /\ done' = [done EXCEPT ![j] = n]
    /\ UNCHANGED rows

Purge(j) ==
    /\ state[j] \in Verdicts \cup {"cancelled"}
    /\ state' = [state EXCEPT ![j] = "purged"]
    /\ done' = [done EXCEPT ![j] = 0]
    /\ UNCHANGED rows

LNext ==
    \E j \in Jobs :
      Submit(j) \/ Begin(j) \/ Cancel(j) \/ Resume(j) \/ Advance(j) \/ Finish(j) \/ Purge(j)

LSpec == LInit /\ [][LNext]_lifecycleVars
=============================================================================
