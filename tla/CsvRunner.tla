------------------------------ MODULE CsvRunner ------------------------------
(***************************************************************************)
(* The CSV Runner of radar-api (radar-api/src/csv_runner.rs): a client     *)
(* creates a job, a detached tokio task sends one HTTP request per row,    *)
(* the job's row in csv_run_job carries its status and progress, and the   *)
(* hourly retention pass removes finished jobs.  The client, the executor, *)
(* the retention pass and process crashes interleave at every await of the *)
(* executor; each SQL statement is atomic.                                 *)
(***************************************************************************)
EXTENDS Integers, FiniteSets

CONSTANTS
    Jobs,          \* the job ids a client may create
    MaxRows,       \* the largest number of rows a job is created with
    MaxAttempts,   \* CSV_ROW_MAX_ATTEMPTS
    MaxFaults      \* bound: how many SQL statements of the executors fail

ASSUME RowsAssumption     == MaxRows \in Nat \ {0}
ASSUME AttemptsAssumption == MaxAttempts \in Nat \ {0}
ASSUME FaultsAssumption   == MaxFaults \in Nat

VARIABLES
    (* the database: csv_run_job and csv_run_result *)
    status,        \* status column; "none" before INSERT, "purged" after DELETE
    total,         \* total_rows
    completed,     \* completed_rows
    errors,        \* error_count
    results,       \* results[j][r]: verdict stored for row r, "none" when absent
    (* the executor task of each job *)
    pc,            \* its next await, "none" when no task is alive
    retryable,     \* GET / HEAD, or enable_retry
    attempt,       \* loop variable of dispatch_row
    httpStatus,    \* last_http_status, then the http_status of the RowOutcome
    rowError,      \* last_error (present or not), then the error of the RowOutcome
    nDone,         \* local `completed` of run_rows; the row at hand is nDone + 1
    nErr,          \* local `error_count` of run_rows
    aborted,       \* `executor_failed`
    (* history variables, read by properties only, and bounds *)
    acked,         \* a DELETE of the job was answered 204
    sends,         \* sends[j][r]: requests sent for row r
    sendsCancelled,\* requests sent while the stored status was "cancelled"
    dropped,       \* the POST was dropped between the INSERT and the spawn
    crashed,       \* the process has crashed at least once
    faults         \* SQL statements that have failed

dbVars      == <<status, total, completed, errors, results>>
rowVars     == <<attempt, httpStatus, rowError>>
countVars   == <<nDone, nErr, aborted>>
taskVars    == <<pc, retryable, rowVars, countVars>>
historyVars == <<acked, sends, sendsCancelled, dropped, crashed>>
ghostVars   == <<historyVars, faults>>
vars        == <<dbVars, taskVars, ghostVars>>

Active   == {"pending", "running"}
Finished == {"completed", "completed_with_failures", "failed"}
Terminal == Finished \cup {"cancelled"}
Status   == {"none", "purged"} \cup Active \cup Terminal

PC       == {"none", "start", "row", "dispatch", "retry", "record", "progress",
             "finalize"}
Http     == {"none", "ok", "client_error", "server_error"}
Verdict  == {"none", "ok", "failed"}
Rows     == 1 .. MaxRows

\* Mutant: the error count misses the answers of 400 to 499.
RowFailed_NetworkOnly(j) == rowError[j]

\* The test of run_rows: an error, or no status, or a status of 400 and more.
RowFailed(j) == rowError[j] \/ httpStatus[j] # "ok"

\* What a reader takes from the error and http_status columns of csv_run_result.
StoredVerdict(j) == IF ~rowError[j] /\ httpStatus[j] = "ok" THEN "ok" ELSE "failed"

Init ==
    /\ status         = [j \in Jobs |-> "none"]
    /\ total          = [j \in Jobs |-> 1]
    /\ completed      = [j \in Jobs |-> 0]
    /\ errors         = [j \in Jobs |-> 0]
    /\ results        = [j \in Jobs |-> [r \in Rows |-> "none"]]
    /\ pc             = [j \in Jobs |-> "none"]
    /\ retryable      = [j \in Jobs |-> FALSE]
    /\ attempt        = [j \in Jobs |-> 0]
    /\ httpStatus     = [j \in Jobs |-> "none"]
    /\ rowError       = [j \in Jobs |-> FALSE]
    /\ nDone          = [j \in Jobs |-> 0]
    /\ nErr           = [j \in Jobs |-> 0]
    /\ aborted        = [j \in Jobs |-> FALSE]
    /\ acked          = [j \in Jobs |-> FALSE]
    /\ sends          = [j \in Jobs |-> [r \in Rows |-> 0]]
    /\ sendsCancelled = [j \in Jobs |-> 0]
    /\ dropped        = [j \in Jobs |-> FALSE]
    /\ crashed        = FALSE
    /\ faults         = 0

-----------------------------------------------------------------------------
(* HTTP handlers *)

\* POST /v1/csv-runs: one INSERT, then the executor is spawned.  The handler's
\* future is dropped by the 30 s TimeoutLayer or by a client that hangs up; if
\* that happens while the INSERT is awaited the row exists and no task does.
CreateCsvRun(j) ==
    /\ status[j] = "none"
    /\ status' = [status EXCEPT ![j] = "pending"]
    /\ \E n \in Rows : total' = [total EXCEPT ![j] = n]
    /\ \E b \in BOOLEAN : retryable' = [retryable EXCEPT ![j] = b]
    /\ \/ /\ pc' = [pc EXCEPT ![j] = "start"]
          /\ UNCHANGED dropped
       \/ /\ dropped' = [dropped EXCEPT ![j] = TRUE]
          /\ UNCHANGED pc
    /\ UNCHANGED <<completed, errors, results, rowVars, countVars, acked, sends,
                   sendsCancelled, crashed, faults>>

\* Mutant: the UPDATE has no condition on the status.
Cancellable_Always(j) == status[j] \notin {"none", "purged"}

\* The WHERE of the UPDATE: status IN ('pending', 'running').
Cancellable(j) == status[j] \in Active

\* DELETE /v1/csv-runs/:id.  A job that is not cancellable answers 404.
CancelCsvRun(j) ==
    /\ Cancellable(j)
    /\ status' = [status EXCEPT ![j] = "cancelled"]
    /\ acked' = [acked EXCEPT ![j] = TRUE]
    /\ UNCHANGED <<total, completed, errors, results, taskVars, sends, sendsCancelled,
                   dropped, crashed, faults>>

-----------------------------------------------------------------------------
(* The executor *)

\* A SQL statement of an executor fails; the executor carries on.
SqlFault ==
    /\ faults < MaxFaults
    /\ faults' = faults + 1

\* set_job_running: UPDATE ... SET status = 'running' WHERE id = ?, whatever the
\* stored status is; an error is discarded.
SetJobRunning(j) ==
    /\ pc[j] = "start"
    /\ pc' = [pc EXCEPT ![j] = "row"]
    /\ \/ /\ status' = [status EXCEPT ![j] = "running"]
          /\ UNCHANGED faults
       \/ /\ SqlFault
          /\ UNCHANGED status
    /\ UNCHANGED <<total, completed, errors, results, retryable, rowVars, countVars,
                   historyVars>>

\* Mutant: nobody looks at the status between rows and attempts.
JobIsCancelled_Never(j, answer) == answer = FALSE /\ UNCHANGED faults

\* job_is_cancelled: the answer of the SELECT, and FALSE for a failed statement.
JobIsCancelled(j, answer) ==
    \/ /\ answer = (status[j] = "cancelled")
       /\ UNCHANGED faults
    \/ /\ SqlFault
       /\ answer = FALSE

\* The head of run_rows' loop: stop at a cancelled job, else dispatch_row.
NextRow(j) ==
    /\ pc[j] = "row"
    /\ \E cancelled \in BOOLEAN :
         /\ JobIsCancelled(j, cancelled)
         /\ pc' = [pc EXCEPT ![j] = IF cancelled THEN "finalize" ELSE "dispatch"]
    /\ attempt' = [attempt EXCEPT ![j] = 0]
    /\ httpStatus' = [httpStatus EXCEPT ![j] = "none"]
    /\ rowError' = [rowError EXCEPT ![j] = FALSE]
    /\ UNCHANGED <<dbVars, retryable, countVars, historyVars>>

\* dispatch_row returns before the first attempt: the row is not an object, its
\* URL is refused by the SSRF policy, or the method is not supported.
RejectRow(j) ==
    /\ pc[j] = "dispatch"
    /\ attempt[j] = 0
    /\ rowError' = [rowError EXCEPT ![j] = TRUE]
    /\ pc' = [pc EXCEPT ![j] = "record"]
    /\ UNCHANGED <<dbVars, retryable, attempt, httpStatus, countVars, ghostVars>>

\* max_attempts of dispatch_row.
AttemptLimit(j) == IF retryable[j] THEN MaxAttempts ELSE 1

\* Whether the loop turns again after a 5xx or a network error.
AfterFailure(j) == IF attempt[j] + 1 < AttemptLimit(j) THEN "retry" ELSE "record"

\* One turn of dispatch_row's loop from the end of the sleep to the answer.  A
\* status below 500 is final; a 5xx or a network error leaves the loop only when
\* the attempts are used up, and a network error keeps an earlier 5xx status.
SendAttempt(j) ==
    /\ pc[j] = "dispatch"
    /\ LET r == nDone[j] + 1
       IN  sends' = [sends EXCEPT ![j][r] = @ + 1]
    /\ sendsCancelled' = IF status[j] = "cancelled"
                         THEN [sendsCancelled EXCEPT ![j] = @ + 1]
                         ELSE sendsCancelled
    /\ attempt' = [attempt EXCEPT ![j] = @ + 1]
    /\ \/ /\ \E code \in {"ok", "client_error"} :
               httpStatus' = [httpStatus EXCEPT ![j] = code]
          /\ rowError' = [rowError EXCEPT ![j] = FALSE]
          /\ pc' = [pc EXCEPT ![j] = "record"]
       \/ /\ httpStatus' = [httpStatus EXCEPT ![j] = "server_error"]
          /\ rowError' = [rowError EXCEPT ![j] = TRUE]
          /\ pc' = [pc EXCEPT ![j] = AfterFailure(j)]
       \/ /\ rowError' = [rowError EXCEPT ![j] = TRUE]
          /\ pc' = [pc EXCEPT ![j] = AfterFailure(j)]
          /\ UNCHANGED httpStatus
    /\ UNCHANGED <<dbVars, retryable, countVars, acked, dropped, crashed, faults>>

\* The check before each retry sleep: a cancelled job ends the loop with the
\* outcome of the attempts made so far.
RetryCheck(j) ==
    /\ pc[j] = "retry"
    /\ \E cancelled \in BOOLEAN :
         /\ JobIsCancelled(j, cancelled)
         /\ pc' = [pc EXCEPT ![j] = IF cancelled THEN "record" ELSE "dispatch"]
    /\ UNCHANGED <<dbVars, retryable, rowVars, countVars, historyVars>>

\* Count the row and insert_result.  A failed INSERT is logged and forgotten.
RecordResult(j) ==
    /\ pc[j] = "record"
    /\ pc' = [pc EXCEPT ![j] = "progress"]
    /\ nDone' = [nDone EXCEPT ![j] = @ + 1]
    /\ nErr' = IF RowFailed(j) THEN [nErr EXCEPT ![j] = @ + 1] ELSE nErr
    /\ \/ /\ results' = [results EXCEPT ![j][nDone[j] + 1] = StoredVerdict(j)]
          /\ UNCHANGED faults
       \/ /\ SqlFault
          /\ UNCHANGED results
    /\ UNCHANGED <<status, total, completed, errors, retryable, rowVars, aborted,
                   historyVars>>

\* update_progress, whatever the stored status is.  A failed UPDATE ends run_rows
\* with executor_failed.
UpdateProgress(j) ==
    /\ pc[j] = "progress"
    /\ \/ /\ completed' = [completed EXCEPT ![j] = nDone[j]]
          /\ errors' = [errors EXCEPT ![j] = nErr[j]]
          /\ pc' = [pc EXCEPT ![j] = IF nDone[j] < total[j] THEN "row" ELSE "finalize"]
          /\ UNCHANGED <<aborted, faults>>
       \/ /\ SqlFault
          /\ aborted' = [aborted EXCEPT ![j] = TRUE]
          /\ pc' = [pc EXCEPT ![j] = "finalize"]
          /\ UNCHANGED <<completed, errors>>
    /\ UNCHANGED <<status, total, results, retryable, rowVars, nDone, nErr,
                   historyVars>>

\* The status finalize_job writes.
FinalStatus(j) ==
    IF aborted[j] THEN "failed"
    ELSE IF nErr[j] > 0 THEN "completed_with_failures"
    ELSE "completed"

\* Mutants: the UPDATE overwrites a cancellation; it expects the status of a job
\* that has not started.
Finalizable_Always(j) == TRUE
Finalizable_Pending(j) == status[j] = "pending"

\* The WHERE of the UPDATE: status NOT IN ('cancelled').
Finalizable(j) == status[j] # "cancelled"

\* finalize_job: one UPDATE, an error is discarded.  The task ends.
FinalizeJob(j) ==
    /\ pc[j] = "finalize"
    /\ pc' = [pc EXCEPT ![j] = "none"]
    /\ \/ /\ Finalizable(j)
          /\ status' = [status EXCEPT ![j] = FinalStatus(j)]
          /\ completed' = [completed EXCEPT ![j] = nDone[j]]
          /\ errors' = [errors EXCEPT ![j] = nErr[j]]
          /\ UNCHANGED faults
       \/ /\ ~Finalizable(j)
          /\ UNCHANGED <<status, completed, errors, faults>>
       \/ /\ SqlFault
          /\ UNCHANGED <<status, completed, errors>>
    /\ UNCHANGED <<total, results, retryable, rowVars, countVars, historyVars>>

Execute(j) ==
    \/ SetJobRunning(j)
    \/ NextRow(j)
    \/ RejectRow(j)
    \/ SendAttempt(j)
    \/ RetryCheck(j)
    \/ RecordResult(j)
    \/ UpdateProgress(j)
    \/ FinalizeJob(j)

-----------------------------------------------------------------------------
(* The environment *)

\* purge_old_csv_runs_scoped: DELETE of terminal jobs older than the window, the
\* results cascade.  The window is at least one day and the longest executor (500
\* rows, three attempts of 10 s and the sleeps) takes five hours, so a job old
\* enough to be purged has no task any more: the statements of the executor always
\* find their row.
PurgeCsvRun(j) ==
    /\ status[j] \in Terminal
    /\ pc[j] = "none"
    /\ status' = [status EXCEPT ![j] = "purged"]
    /\ completed' = [completed EXCEPT ![j] = 0]
    /\ errors' = [errors EXCEPT ![j] = 0]
    /\ results' = [results EXCEPT ![j] = [r \in Rows |-> "none"]]
    /\ UNCHANGED <<total, taskVars, ghostVars>>

\* The process dies and starts again: every task is gone, the database stays.
\* Nothing at startup looks at csv_run_job.
Crash ==
    /\ \E j \in Jobs : pc[j] # "none"
    /\ pc' = [j \in Jobs |-> "none"]
    /\ crashed' = TRUE
    /\ UNCHANGED <<dbVars, retryable, rowVars, countVars, acked, sends,
                   sendsCancelled, dropped, faults>>

Next ==
    \/ \E j \in Jobs : CreateCsvRun(j) \/ CancelCsvRun(j) \/ Execute(j) \/ PurgeCsvRun(j)
    \/ Crash

Spec == Init /\ [][Next]_vars

\* The runtime keeps polling a spawned task; clients, the retention pass and
\* crashes owe nothing.
FairSpec == Spec /\ \A j \in Jobs : WF_vars(Execute(j))

-----------------------------------------------------------------------------
(* Properties *)

\* Two parts only because the provers treat flags and other data apart.
FlagTypeOK ==
    /\ retryable \in [Jobs -> BOOLEAN]
    /\ rowError \in [Jobs -> BOOLEAN]
    /\ aborted \in [Jobs -> BOOLEAN]
    /\ acked \in [Jobs -> BOOLEAN]
    /\ dropped \in [Jobs -> BOOLEAN]
    /\ crashed \in BOOLEAN

DataTypeOK ==
    /\ status \in [Jobs -> Status]
    /\ total \in [Jobs -> Rows]
    /\ completed \in [Jobs -> 0 .. MaxRows]
    /\ errors \in [Jobs -> 0 .. MaxRows]
    /\ results \in [Jobs -> [Rows -> Verdict]]
    /\ pc \in [Jobs -> PC]
    /\ attempt \in [Jobs -> 0 .. MaxAttempts]
    /\ httpStatus \in [Jobs -> Http]
    /\ nDone \in [Jobs -> 0 .. MaxRows]
    /\ nErr \in [Jobs -> 0 .. MaxRows]
    /\ sends \in [Jobs -> [Rows -> 0 .. MaxAttempts]]
    /\ sendsCancelled \in [Jobs -> Nat]
    /\ faults \in 0 .. MaxFaults

\* Every variable has its type.
TypeOK == DataTypeOK /\ FlagTypeOK

\* What finalize_job promises a reader of the job: the executor never stops early
\* on a job it then calls completed (the break on a cancelled job and the abort on
\* a failed UPDATE both lead elsewhere), and "completed" means without errors.
CompletedMeansEveryRow ==
    \A j \in Jobs :
      /\ status[j] \in {"completed", "completed_with_failures"} => completed[j] = total[j]
      /\ status[j] = "completed" => errors[j] = 0
      /\ status[j] = "completed_with_failures" => errors[j] > 0

\* The rows among the first n whose stored verdict is a failure.
FailedRows(j, n) == {r \in 1 .. n : results[j][r] = "failed"}

\* error_count covers every failed result among the completed_rows it was written
\* with, also when INSERTs and UPDATEs fail: a run never looks cleaner than its
\* results table.
FailuresAreCounted ==
    \A j \in Jobs : /\ Cardinality(FailedRows(j, completed[j])) <= errors[j]
                    /\ errors[j] <= completed[j]

\* "Cancellation: checked at row granularity, before each retry sleep": once the
\* row says cancelled one request may still go out, the one already past its
\* check, and one more for each failed read of the status.
AtMostOneSendAfterCancel ==
    \A j \in Jobs : sendsCancelled[j] <= 1 + faults

\* A request that is neither safe nor opted in to retries reaches its target at
\* most once per row, whatever fails and whenever the process restarts; the others
\* at most MaxAttempts times.
SendsWithinBudget ==
    \A j \in Jobs, r \in Rows : sends[j][r] <= AttemptLimit(j)

\* What a reader of a job is told: of its end, that every row is done; of its
\* errors, no less than its results show.
VerdictsAreHonest == TypeOK /\ CompletedMeansEveryRow /\ FailuresAreCounted

\* The requests that reach the target: after a cancellation, and per row.
RequestsAreBounded == AtMostOneSendAfterCancel /\ SendsWithinBudget

\* No step changes the verdict of a finished job, and no step revives a cancelled
\* one whose executor is past set_job_running, except the purge.
SettledStep ==
    \A j \in Jobs :
      status[j] \in Finished \/ (status[j] = "cancelled" /\ pc[j] # "start")
        => status'[j] \in {status[j], "purged"}

SettledStays == [][SettledStep]_vars

\* A job nobody cancels reaches a terminal status unless the process crashed, a
\* statement failed, or the POST was dropped before it spawned the executor.
JobSettles ==
    \A j \in Jobs :
      status[j] \in Active ~> \/ status[j] \in Terminal \cup {"purged"}
                              \/ crashed \/ faults > 0 \/ dropped[j]

\* The stored job, seen without its executor, is a JobLifecycle: the refinement
\* mapping reads the three columns a client reads.
Lifecycle == INSTANCE JobLifecycle WITH state <- status, rows <- total, done <- completed

ImplementsLifecycle == Lifecycle!LSpec

-----------------------------------------------------------------------------
(* The inductive invariant behind the safety properties above *)

\* A job whose executor has not done anything yet.
Untouched(j) ==
    /\ nDone[j] = 0 /\ nErr[j] = 0 /\ completed[j] = 0 /\ errors[j] = 0
    /\ ~aborted[j]
    /\ sendsCancelled[j] = 0
    /\ \A r \in Rows : sends[j][r] = 0 /\ results[j][r] = "none"

\* Where the executor is in the job: a live task has a stored job without verdict,
\* rows left to do inside the loop, and a reason to be at the end of it.
TaskInv(j) ==
    /\ status[j] = "none" => pc[j] = "none"
    /\ status[j] = "none" \/ pc[j] = "start" => Untouched(j)
    /\ pc[j] # "none" => status[j] \in Active \cup {"cancelled"}
    /\ pc[j] \in {"row", "dispatch", "retry", "record"} => nDone[j] < total[j]
    /\ pc[j] \notin {"none", "finalize"} => ~aborted[j]
    /\ pc[j] = "finalize" =>
         nDone[j] = total[j] \/ aborted[j] \/ status[j] = "cancelled"
    /\ nDone[j] <= total[j]

\* `attempt` counts the requests of the row at hand, no later row has any.
SendInv(j) ==
    /\ pc[j] \in {"dispatch", "retry"} => /\ attempt[j] < AttemptLimit(j)
                                         /\ sends[j][nDone[j] + 1] = attempt[j]
    /\ pc[j] \in {"row", "progress"} => \A r \in Rows : r > nDone[j] => sends[j][r] = 0
    /\ pc[j] \in {"dispatch", "retry", "record"} =>
         \A r \in Rows : r > nDone[j] + 1 => sends[j][r] = 0
    /\ \A r \in Rows : sends[j][r] <= AttemptLimit(j)

\* The executor's counters bound the stored ones, and both count the failures.
CountInv(j) ==
    /\ completed[j] <= nDone[j]
    /\ errors[j] <= completed[j]
    /\ nErr[j] <= nDone[j]
    /\ Cardinality(FailedRows(j, completed[j])) <= errors[j]
    /\ Cardinality(FailedRows(j, nDone[j])) <= nErr[j]
    /\ \A r \in Rows : r > nDone[j] => results[j][r] = "none"

\* A request is sent under a cancelled status only by a task past its check or
\* misled by a failed read.
CancelInv(j) ==
    /\ status[j] \in Active => sendsCancelled[j] = 0
    /\ pc[j] = "dispatch" => sendsCancelled[j] <= faults
    /\ sendsCancelled[j] <= 1 + faults

IInv ==
    /\ TypeOK
    /\ CompletedMeansEveryRow
    /\ \A j \in Jobs : TaskInv(j) /\ SendInv(j) /\ CountInv(j) /\ CancelInv(j)

\* docs/openapi.yaml says of DELETE "Cancels a pending or running job", answer 204
\* "Cancelled": a job whose cancellation was acknowledged stays cancelled.  It does
\* not: set_job_running overwrites a cancellation that arrives before it.
CancelAckIsFinal ==
    \A j \in Jobs : acked[j] => status[j] \in {"cancelled", "purged"}
=============================================================================
