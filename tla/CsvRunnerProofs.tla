-------------------------- MODULE CsvRunnerProofs --------------------------
(***************************************************************************)
(* Proofs about CsvRunner for every set of jobs, number of rows, number of *)
(* attempts and number of failing statements.                              *)
(***************************************************************************)
EXTENDS CsvRunner, FiniteSetTheorems, TLAPS

\* The part of the invariant that speaks of one job.
JobInv(j) == TaskInv(j) /\ SendInv(j) /\ CountInv(j) /\ CancelInv(j)

\* Nothing of job k changes.
Frame(k) ==
    /\ status'[k] = status[k] /\ total'[k] = total[k] /\ completed'[k] = completed[k]
    /\ errors'[k] = errors[k] /\ results'[k] = results[k] /\ pc'[k] = pc[k]
    /\ retryable'[k] = retryable[k] /\ attempt'[k] = attempt[k]
    /\ nDone'[k] = nDone[k] /\ nErr'[k] = nErr[k] /\ aborted'[k] = aborted[k]
    /\ sends'[k] = sends[k] /\ sendsCancelled'[k] = sendsCancelled[k]
    /\ faults' \in Nat /\ faults' >= faults

-----------------------------------------------------------------------------
(* Failed rows *)

\* The failed rows among the first n are finitely many.
LEMMA FailedRowsFinite ==
    ASSUME NEW j \in Jobs, NEW n \in Nat
    PROVE  IsFiniteSet(FailedRows(j, n))
<1>1. IsFiniteSet(1 .. n)  BY FS_Interval
<1>2. FailedRows(j, n) \subseteq 1 .. n  BY DEF FailedRows
<1>. QED  BY <1>1, <1>2, FS_Subset

\* There are none among no rows.
LEMMA FailedRowsZero ==
    ASSUME NEW j \in Jobs
    PROVE  Cardinality(FailedRows(j, 0)) = 0
<1>1. FailedRows(j, 0) = {}  BY DEF FailedRows
<1>. QED  BY <1>1, FS_EmptySet

\* A job to which nothing happens keeps its part of the invariant, also when a
\* statement of another job fails.
LEMMA FrameInv ==
    ASSUME TypeOK, NEW k \in Jobs, JobInv(k), Frame(k)
    PROVE  JobInv(k)'
<1>1. faults \in Nat  BY FaultsAssumption DEF TypeOK, DataTypeOK
<1>2. TaskInv(k)'  BY DEF JobInv, Frame, TaskInv, Untouched
<1>3. SendInv(k)'  BY DEF JobInv, Frame, SendInv, AttemptLimit
<1>4. CountInv(k)'  BY DEF JobInv, Frame, CountInv, FailedRows
<1>5. CancelInv(k)'  BY <1>1 DEF JobInv, Frame, CancelInv, TypeOK, DataTypeOK
<1>. QED  BY <1>2, <1>3, <1>4, <1>5 DEF JobInv

\* Storing a verdict for row n + 1 adds at most one failed row, and none when the
\* verdict is not a failure.
LEMMA FailedRowsStep ==
    ASSUME NEW j \in Jobs, NEW n \in Nat,
           \A r \in 1 .. n : results'[j][r] = results[j][r]
    PROVE  /\ FailedRows(j, n)' = FailedRows(j, n)
           /\ Cardinality(FailedRows(j, n)) \in Nat
           /\ Cardinality(FailedRows(j, n + 1)') <= Cardinality(FailedRows(j, n)) + 1
           /\ results'[j][n + 1] # "failed"
                => Cardinality(FailedRows(j, n + 1)') = Cardinality(FailedRows(j, n))
<1>1. FailedRows(j, n)' = FailedRows(j, n)  BY DEF FailedRows
<1>2. IsFiniteSet(FailedRows(j, n))  BY FailedRowsFinite
<1>3. Cardinality(FailedRows(j, n)) \in Nat  BY <1>2, FS_CardinalityType
<1>4. CASE results'[j][n + 1] = "failed"
  <2>1. FailedRows(j, n + 1)' = FailedRows(j, n) \cup {n + 1}  BY <1>4 DEF FailedRows
  <2>. QED  BY <1>1, <1>2, <1>3, <1>4, <2>1, FS_AddElement
<1>5. CASE results'[j][n + 1] # "failed"
  <2>1. FailedRows(j, n + 1)' = FailedRows(j, n)  BY <1>5 DEF FailedRows
  <2>. QED  BY <1>1, <1>3, <1>5, <2>1
<1>. QED  BY <1>4, <1>5

-----------------------------------------------------------------------------
(* The initial state and the two handlers *)

LEMMA InitInv == Init => IInv
<1> SUFFICES ASSUME Init PROVE IInv  OBVIOUS
<1> USE RowsAssumption, AttemptsAssumption, FaultsAssumption
<1>1. TypeOK
  <2>1. DataTypeOK
    BY DEF Init, DataTypeOK, Status, Rows, Verdict, PC, Http
  <2>2. FlagTypeOK  BY DEF Init, FlagTypeOK
  <2>. QED  BY <2>1, <2>2 DEF TypeOK
<1>2. CompletedMeansEveryRow  BY DEF Init, CompletedMeansEveryRow
<1>3. ASSUME NEW j \in Jobs
      PROVE  TaskInv(j) /\ SendInv(j) /\ CountInv(j) /\ CancelInv(j)
  <2>1. TaskInv(j)  BY DEF Init, TaskInv, Untouched
  <2>2. SendInv(j)  BY DEF Init, SendInv, AttemptLimit
  <2>3. CountInv(j)  BY FailedRowsZero DEF Init, CountInv
  <2>4. CancelInv(j)  BY DEF Init, CancelInv, Active
  <2>. QED  BY <2>1, <2>2, <2>3, <2>4
<1>. QED  BY <1>1, <1>2, <1>3 DEF IInv

\* What is left to show of a step of job j once its frame is known: the types, the
\* verdict of j and the invariant of j.
LEMMA StepInv ==
    ASSUME IInv, NEW j \in Jobs, TypeOK', JobInv(j)',
           status'[j] \in Finished => CompletedMeansEveryRow' \/
              /\ status'[j] \in {"completed", "completed_with_failures"}
                   => completed'[j] = total'[j]
              /\ status'[j] = "completed" => errors'[j] = 0
              /\ status'[j] = "completed_with_failures" => errors'[j] > 0,
           \A k \in Jobs \ {j} : Frame(k)
    PROVE  IInv'
<1>1. ASSUME NEW k \in Jobs \ {j} PROVE JobInv(k)'
  BY <1>1, FrameInv DEF IInv, JobInv
<1>2. CompletedMeansEveryRow'
  BY DEF IInv, CompletedMeansEveryRow, Frame, Finished
<1>3. \A k \in Jobs : JobInv(k)'  BY <1>1
<1>. QED  BY <1>2, <1>3 DEF IInv, JobInv

LEMMA CreateInv ==
    ASSUME IInv, NEW j \in Jobs, CreateCsvRun(j)
    PROVE  IInv'
<1> USE RowsAssumption, AttemptsAssumption, FaultsAssumption
<1> DEFINE n == total'[j]
<1>0. TypeOK /\ JobInv(j)  BY DEF IInv, JobInv
<1>1. TypeOK'
  <2>0. status' \in [Jobs -> Status] /\ total' \in [Jobs -> Rows]
    BY <1>0 DEF CreateCsvRun, TypeOK, DataTypeOK, Status, Active
  <2>p. pc' \in [Jobs -> PC]
    BY <1>0 DEF CreateCsvRun, TypeOK, DataTypeOK, PC
  <2>1. DataTypeOK'
    BY <1>0, <2>0, <2>p DEF CreateCsvRun, rowVars, countVars, TypeOK, DataTypeOK
  <2>2. FlagTypeOK'  BY <1>0 DEF CreateCsvRun, rowVars, countVars, TypeOK, FlagTypeOK
  <2>. QED  BY <2>1, <2>2 DEF TypeOK
<1>2. \A k \in Jobs \ {j} : Frame(k)
  BY <1>0 DEF CreateCsvRun, rowVars, countVars, TypeOK, DataTypeOK, Frame
<1>3. status'[j] = "pending" /\ Untouched(j) /\ n \in Rows /\ pc'[j] \in {"none", "start"}
  BY <1>0 DEF CreateCsvRun, rowVars, countVars, TypeOK, DataTypeOK, JobInv, TaskInv
<1>4. Untouched(j)'  BY <1>3 DEF CreateCsvRun, countVars, Untouched
<1>5. TaskInv(j)'
  BY <1>3, <1>4 DEF TaskInv, Untouched, Active, Rows
<1>6. SendInv(j)'
  BY <1>0, <1>3, <1>4 DEF SendInv, Untouched, AttemptLimit, TypeOK, DataTypeOK
<1>7. CountInv(j)'
  BY <1>0, <1>4, FailedRowsZero DEF CreateCsvRun, countVars, JobInv, CountInv, Untouched, FailedRows
<1>8. CancelInv(j)'
  BY <1>0, <1>3, <1>4 DEF CreateCsvRun, countVars, CancelInv, Untouched, TypeOK, DataTypeOK
<1>. QED  BY <1>1, <1>2, <1>3, <1>5, <1>6, <1>7, <1>8, StepInv DEF JobInv, Finished

LEMMA CancelInvariant ==
    ASSUME IInv, NEW j \in Jobs, CancelCsvRun(j)
    PROVE  IInv'
<1> USE FaultsAssumption
<1>0. TypeOK /\ JobInv(j)  BY DEF IInv, JobInv
<1>1. TypeOK'
  <2>1. DataTypeOK'
    BY <1>0 DEF CancelCsvRun, Cancellable, taskVars, rowVars, countVars, TypeOK, DataTypeOK, Status, Terminal
  <2>2. FlagTypeOK'  BY <1>0 DEF CancelCsvRun, Cancellable, taskVars, rowVars, countVars, TypeOK, FlagTypeOK
  <2>. QED  BY <2>1, <2>2 DEF TypeOK
<1>2. \A k \in Jobs \ {j} : Frame(k)
  BY <1>0 DEF CancelCsvRun, Cancellable, taskVars, rowVars, countVars, TypeOK, DataTypeOK, Frame
<1>3. status'[j] = "cancelled"  BY <1>0 DEF CancelCsvRun, Cancellable, TypeOK, DataTypeOK
<1>4. TaskInv(j)'
  BY <1>0, <1>3 DEF CancelCsvRun, Cancellable, taskVars, rowVars, countVars, JobInv, TaskInv, Untouched, Active
<1>5. SendInv(j)'
  BY <1>0 DEF CancelCsvRun, Cancellable, taskVars, rowVars, countVars, JobInv, SendInv, AttemptLimit
<1>6. CountInv(j)'
  BY <1>0 DEF CancelCsvRun, Cancellable, taskVars, rowVars, countVars, JobInv, CountInv, FailedRows
<1>7. CancelInv(j)'
  BY <1>0, <1>3 DEF CancelCsvRun, Cancellable, JobInv, CancelInv, Active, taskVars, countVars
<1>. QED  BY <1>1, <1>2, <1>3, <1>4, <1>5, <1>6, <1>7, StepInv DEF JobInv, Finished
-----------------------------------------------------------------------------
(* The executor *)

LEMMA SetJobRunningInv ==
    ASSUME IInv, NEW j \in Jobs, SetJobRunning(j)
    PROVE  IInv'
<1> USE RowsAssumption, AttemptsAssumption, FaultsAssumption
    DEF SetJobRunning, SqlFault, rowVars, countVars, historyVars
<1>0. DataTypeOK /\ FlagTypeOK /\ JobInv(j)  BY DEF IInv, JobInv, TypeOK
<1>1. TypeOK'
  <2>1. status' \in [Jobs -> Status]
    BY <1>0 DEF DataTypeOK, Status, Active
  <2>2. pc' \in [Jobs -> PC] /\ faults' \in 0 .. MaxFaults
    BY <1>0 DEF DataTypeOK, PC
  <2>3. DataTypeOK'
    BY <1>0, <2>1, <2>2 DEF DataTypeOK
  <2>4. FlagTypeOK'  BY <1>0 DEF FlagTypeOK
  <2>. QED  BY <2>3, <2>4 DEF TypeOK
<1>2. \A k \in Jobs \ {j} : Frame(k)
  BY <1>0 DEF DataTypeOK, FlagTypeOK, Frame
<1>3. /\ status[j] \in Active \cup {"cancelled"} /\ Untouched(j)
      /\ nDone[j] = 0 /\ total[j] \in Nat \ {0}
  BY <1>0 DEF JobInv, TaskInv, Untouched, DataTypeOK, Rows
<1>4. status'[j] \in Active \cup {"cancelled"} /\ pc'[j] = "row"
  BY <1>0, <1>3 DEF DataTypeOK, Active
<1>5. TaskInv(j)'
  <2>1. ~aborted'[j]  BY <1>3 DEF Untouched
  <2>. QED  BY <1>3, <1>4, <2>1 DEF TaskInv, Active
<1>6. SendInv(j)'
  BY <1>0, <1>3, <1>4 DEF SendInv, Untouched, AttemptLimit, DataTypeOK
<1>7. CountInv(j)'
  BY <1>0 DEF JobInv, CountInv, FailedRows
<1>8. CancelInv(j)'
  BY <1>0, <1>3, <1>4 DEF CancelInv, Untouched, DataTypeOK
<1>. QED  BY <1>1, <1>2, <1>4, <1>5, <1>6, <1>7, <1>8, StepInv DEF JobInv, Finished, Active

LEMMA NextRowInv ==
    ASSUME IInv, NEW j \in Jobs, NextRow(j)
    PROVE  IInv'
<1> USE RowsAssumption, AttemptsAssumption, FaultsAssumption
    DEF NextRow, JobIsCancelled, SqlFault, dbVars, countVars, historyVars
<1>0. DataTypeOK /\ FlagTypeOK /\ JobInv(j)  BY DEF IInv, JobInv, TypeOK
<1>1. TypeOK'
  <2>1. pc' \in [Jobs -> PC] /\ faults' \in 0 .. MaxFaults
    BY <1>0 DEF DataTypeOK, PC
  <2>2. httpStatus' \in [Jobs -> Http]
    BY <1>0 DEF DataTypeOK, Http
  <2>3. DataTypeOK'
    BY <1>0, <2>1, <2>2 DEF DataTypeOK
  <2>4. FlagTypeOK'  BY <1>0 DEF FlagTypeOK
  <2>. QED  BY <2>3, <2>4 DEF TypeOK
<1>2. \A k \in Jobs \ {j} : Frame(k)
  BY <1>0 DEF DataTypeOK, FlagTypeOK, Frame
<1>3. /\ pc'[j] \in {"finalize", "dispatch"}
      /\ pc'[j] = "finalize" => status[j] = "cancelled"
      /\ pc'[j] = "dispatch" => status[j] # "cancelled" \/ faults' = faults + 1
      /\ attempt'[j] = 0
  BY <1>0 DEF DataTypeOK
<1>4. TaskInv(j)'
  BY <1>0, <1>3 DEF JobInv, TaskInv, Untouched, Active
<1>5. SendInv(j)'
  <2>1. nDone[j] + 1 \in Rows /\ nDone[j] \in Nat
    BY <1>0 DEF JobInv, TaskInv, DataTypeOK, Rows
  <2>2. \A r \in Rows : r > nDone[j] => sends[j][r] = 0
    BY <1>0 DEF JobInv, SendInv
  <2>3. \A r \in Rows : sends[j][r] <= AttemptLimit(j)
    BY <1>0 DEF JobInv, SendInv
  <2>4. AttemptLimit(j)' = AttemptLimit(j) /\ AttemptLimit(j) \in Nat \ {0}
    BY DEF AttemptLimit
  <2>5. sends' = sends /\ nDone' = nDone  OBVIOUS
  <2>6. \A r \in Rows : r > nDone[j] + 1 => r > nDone[j]  BY <2>1 DEF Rows
  <2> HIDE DEF NextRow
  <2>. QED  BY <1>3, <2>1, <2>2, <2>3, <2>4, <2>5, <2>6 DEF SendInv
<1>6. CountInv(j)'
  BY <1>0 DEF JobInv, CountInv, FailedRows
<1>7. CancelInv(j)'
  BY <1>0, <1>3 DEF JobInv, TaskInv, CancelInv, DataTypeOK, Active
<1>. QED  BY <1>0, <1>1, <1>2, <1>4, <1>5, <1>6, <1>7, StepInv
          DEF JobInv, TaskInv, Finished, Active

LEMMA RejectRowInv ==
    ASSUME IInv, NEW j \in Jobs, RejectRow(j)
    PROVE  IInv'
<1> USE RowsAssumption, AttemptsAssumption, FaultsAssumption
    DEF RejectRow, dbVars, countVars, historyVars, ghostVars
<1>0. DataTypeOK /\ FlagTypeOK /\ JobInv(j)  BY DEF IInv, JobInv, TypeOK
<1>1. TypeOK'
  <2>1. pc' \in [Jobs -> PC] /\ faults' \in 0 .. MaxFaults
    BY <1>0 DEF DataTypeOK, PC
  <2>2. DataTypeOK'
    BY <1>0, <2>1 DEF DataTypeOK
  <2>3. FlagTypeOK'  BY <1>0 DEF FlagTypeOK
  <2>. QED  BY <2>2, <2>3 DEF TypeOK
<1>2. \A k \in Jobs \ {j} : Frame(k)
  BY <1>0 DEF DataTypeOK, FlagTypeOK, Frame
<1>3. pc'[j] = "record"  BY <1>0 DEF DataTypeOK
<1>4. TaskInv(j)'
  BY <1>0, <1>3 DEF JobInv, TaskInv, Untouched
<1>5. SendInv(j)'
  BY <1>0, <1>3 DEF JobInv, SendInv, AttemptLimit
<1>6. CountInv(j)'
  BY <1>0 DEF JobInv, CountInv, FailedRows
<1>7. CancelInv(j)'
  BY <1>0, <1>3 DEF JobInv, CancelInv
<1>. QED  BY <1>0, <1>1, <1>2, <1>4, <1>5, <1>6, <1>7, StepInv
          DEF JobInv, TaskInv, Finished, Active

LEMMA SendAttemptInv ==
    ASSUME IInv, NEW j \in Jobs, SendAttempt(j)
    PROVE  IInv'
<1> USE RowsAssumption, AttemptsAssumption, FaultsAssumption
    DEF SendAttempt, AfterFailure, dbVars, countVars
<1>0. DataTypeOK /\ FlagTypeOK /\ JobInv(j)  BY DEF IInv, JobInv, TypeOK
<1>1. TypeOK'
  <2>1. pc' \in [Jobs -> PC] /\ faults' \in 0 .. MaxFaults
    BY <1>0 DEF DataTypeOK, PC
  <2>2. httpStatus' \in [Jobs -> Http]
    BY <1>0 DEF DataTypeOK, Http
  <2>3. nDone[j] + 1 \in Rows /\ attempt[j] + 1 \in 0 .. MaxAttempts
        /\ sends[j][nDone[j] + 1] = attempt[j]
    <3>1. nDone[j] + 1 \in Rows  BY <1>0 DEF DataTypeOK, JobInv, TaskInv, Rows
    <3>2. attempt[j] < AttemptLimit(j) /\ sends[j][nDone[j] + 1] = attempt[j]
      BY <1>0 DEF JobInv, SendInv
    <3>3. attempt[j] + 1 \in 0 .. MaxAttempts
      BY <1>0, <3>2 DEF DataTypeOK, AttemptLimit
    <3>. QED  BY <3>1, <3>2, <3>3
  <2>4. sends' \in [Jobs -> [Rows -> 0 .. MaxAttempts]]
    <3>1. sends' = [sends EXCEPT ![j] = [sends[j] EXCEPT ![nDone[j] + 1] = attempt[j] + 1]]
      BY <1>0, <2>3 DEF DataTypeOK
    <3>2. [sends[j] EXCEPT ![nDone[j] + 1] = attempt[j] + 1] \in [Rows -> 0 .. MaxAttempts]
      BY <1>0, <2>3 DEF DataTypeOK
    <3>. QED  BY <1>0, <3>1, <3>2 DEF DataTypeOK
  <2>5. DataTypeOK'
    BY <1>0, <2>1, <2>2, <2>3, <2>4 DEF DataTypeOK
  <2>6. FlagTypeOK'  BY <1>0 DEF FlagTypeOK
  <2>. QED  BY <2>5, <2>6 DEF TypeOK
<1>2. \A k \in Jobs \ {j} : Frame(k)
  BY <1>0 DEF DataTypeOK, FlagTypeOK, Frame
<1>3. /\ pc'[j] \in {"retry", "record"}
      /\ pc'[j] = "retry" => attempt[j] + 1 < AttemptLimit(j)
      /\ attempt'[j] = attempt[j] + 1
      /\ sends'[j] = [sends[j] EXCEPT ![nDone[j] + 1] = @ + 1]
      /\ nDone[j] + 1 \in Rows
  <2>1. /\ pc'[j] \in {"retry", "record"}
        /\ pc'[j] = "retry" => attempt[j] + 1 < AttemptLimit(j)
    BY <1>0 DEF DataTypeOK
  <2>2. /\ attempt'[j] = attempt[j] + 1
        /\ sends'[j] = [sends[j] EXCEPT ![nDone[j] + 1] = @ + 1]
    BY <1>0 DEF DataTypeOK
  <2>3. nDone[j] + 1 \in Rows  BY <1>0, SMTT(30) DEF DataTypeOK, JobInv, TaskInv, Rows
  <2>. QED  BY <2>1, <2>2, <2>3
<1>4. TaskInv(j)'
  BY <1>0, <1>3 DEF JobInv, TaskInv, Untouched
<1>5. SendInv(j)'
  BY <1>0, <1>3 DEF JobInv, SendInv, AttemptLimit, DataTypeOK
<1>6. CountInv(j)'
  BY <1>0 DEF JobInv, CountInv, FailedRows
<1>7. CancelInv(j)'
  BY <1>0, <1>3 DEF JobInv, CancelInv, TaskInv, DataTypeOK, Active
<1>. QED  BY <1>0, <1>1, <1>2, <1>4, <1>5, <1>6, <1>7, StepInv
          DEF JobInv, TaskInv, Finished, Active

LEMMA RetryCheckInv ==
    ASSUME IInv, NEW j \in Jobs, RetryCheck(j)
    PROVE  IInv'
<1> USE RowsAssumption, AttemptsAssumption, FaultsAssumption
    DEF RetryCheck, JobIsCancelled, SqlFault, dbVars, rowVars, countVars, historyVars
<1>0. DataTypeOK /\ FlagTypeOK /\ JobInv(j)  BY DEF IInv, JobInv, TypeOK
<1>1. TypeOK'
  <2>1. pc' \in [Jobs -> PC] /\ faults' \in 0 .. MaxFaults
    BY <1>0 DEF DataTypeOK, PC
  <2>2. DataTypeOK'
    BY <1>0, <2>1 DEF DataTypeOK
  <2>3. FlagTypeOK'  BY <1>0 DEF FlagTypeOK
  <2>. QED  BY <2>2, <2>3 DEF TypeOK
<1>2. \A k \in Jobs \ {j} : Frame(k)
  BY <1>0 DEF DataTypeOK, FlagTypeOK, Frame
<1>3. /\ pc'[j] \in {"record", "dispatch"}
      /\ pc'[j] = "dispatch" => status[j] # "cancelled" \/ faults' = faults + 1
  BY <1>0 DEF DataTypeOK
<1>4. TaskInv(j)'
  BY <1>0, <1>3 DEF JobInv, TaskInv, Untouched
<1>5. SendInv(j)'
  BY <1>0, <1>3 DEF JobInv, SendInv, AttemptLimit
<1>6. CountInv(j)'
  BY <1>0 DEF JobInv, CountInv, FailedRows
<1>7. CancelInv(j)'
  BY <1>0, <1>3 DEF JobInv, TaskInv, CancelInv, DataTypeOK, Active
<1>. QED  BY <1>0, <1>1, <1>2, <1>4, <1>5, <1>6, <1>7, StepInv
          DEF JobInv, TaskInv, Finished, Active

LEMMA RecordResultInv ==
    ASSUME IInv, NEW j \in Jobs, RecordResult(j)
    PROVE  IInv'
<1> USE RowsAssumption, AttemptsAssumption, FaultsAssumption
    DEF RecordResult, SqlFault, rowVars, historyVars
<1>0. DataTypeOK /\ FlagTypeOK /\ JobInv(j)  BY DEF IInv, JobInv, TypeOK
<1>e. \/ nErr' = nErr /\ ~RowFailed(j)
      \/ nErr' = [nErr EXCEPT ![j] = @ + 1]
  OBVIOUS
<1>r. \/ results' = results
      \/ \E v \in Verdict : results' = [results EXCEPT ![j][nDone[j] + 1] = v]
  BY DEF Verdict, StoredVerdict
<1>f. ~RowFailed(j) => \/ results' = results
                       \/ results' = [results EXCEPT ![j][nDone[j] + 1] = "ok"]
  BY DEF RowFailed, StoredVerdict
<1>1. TypeOK'
  <2>1. nDone[j] + 1 \in Rows /\ nErr[j] + 1 \in 0 .. MaxRows
    <3>1. nDone[j] + 1 \in Rows /\ nDone[j] + 1 <= MaxRows
      BY <1>0, SMTT(30) DEF DataTypeOK, JobInv, TaskInv, Rows
    <3>2. nErr[j] <= nDone[j] /\ nErr[j] \in 0 .. MaxRows /\ nDone[j] \in 0 .. MaxRows
      BY <1>0 DEF DataTypeOK, JobInv, CountInv
    <3> HIDE DEF RecordResult
    <3>. QED  BY <3>1, <3>2
  <2>2. results' \in [Jobs -> [Rows -> Verdict]]
    <3>1. CASE results' = results  BY <1>0, <3>1 DEF DataTypeOK
    <3>2. CASE \E v \in Verdict : results' = [results EXCEPT ![j][nDone[j] + 1] = v]
      BY <1>0, <2>1, <3>2 DEF DataTypeOK
    <3>. QED  BY <1>r, <3>1, <3>2
  <2>3. pc' \in [Jobs -> PC] /\ faults' \in 0 .. MaxFaults
    BY <1>0 DEF DataTypeOK, PC
  <2>n. nDone' \in [Jobs -> 0 .. MaxRows]
    <3>1. nDone' = [nDone EXCEPT ![j] = @ + 1] /\ nDone \in [Jobs -> 0 .. MaxRows]
      BY <1>0 DEF DataTypeOK
    <3> HIDE DEF RecordResult
    <3>. QED  BY <2>1, <3>1 DEF Rows
  <2>4. nErr' \in [Jobs -> 0 .. MaxRows]
    BY <1>0, <1>e, <2>1 DEF DataTypeOK, Rows
  <2>5. DataTypeOK'
    BY <1>0, <2>n, <2>2, <2>3, <2>4 DEF DataTypeOK
  <2>6. FlagTypeOK'  BY <1>0 DEF FlagTypeOK
  <2>. QED  BY <2>5, <2>6 DEF TypeOK
<1>2. \A k \in Jobs \ {j} : Frame(k)
  BY <1>0 DEF DataTypeOK, FlagTypeOK, Frame
<1>n. PICK n \in Nat : n = nDone[j]  BY <1>0 DEF DataTypeOK
<1>3. /\ pc'[j] = "progress" /\ nDone'[j] = n + 1 /\ n \in Nat /\ n + 1 \in Rows
      /\ completed[j] \in 0 .. n
  BY <1>n, <1>0 DEF DataTypeOK, JobInv, TaskInv, CountInv, Rows
<1>a. \/ results'[j] = results[j]
      \/ \E v \in Verdict : results'[j] = [results[j] EXCEPT ![n + 1] = v]
  BY <1>n, <1>0, <1>r DEF DataTypeOK
<1>o. \A r \in Rows \ {n + 1} : results'[j][r] = results[j][r]
  BY <1>n, <1>0, <1>3, <1>a DEF DataTypeOK
<1>b. /\ \A r \in 1 .. n : results'[j][r] = results[j][r]
      /\ \A r \in Rows : r > n + 1 => results'[j][r] = "none"
  <2>1. \A r \in 1 .. n : r \in Rows \ {n + 1}  BY <1>3 DEF Rows
  <2>2. \A r \in Rows : r > n + 1 => r > n /\ r \in Rows \ {n + 1}  BY <1>3 DEF Rows
  <2>3. \A r \in Rows : r > n => results[j][r] = "none"  BY <1>n, <1>0 DEF JobInv, CountInv
  <2>. QED  BY <1>o, <2>1, <2>2, <2>3
<1>c. \/ nErr'[j] = nErr[j] /\ results'[j][n + 1] # "failed"
      \/ nErr'[j] = nErr[j] + 1
  <2>1. CASE nErr' = [nErr EXCEPT ![j] = @ + 1]  BY <1>n, <1>0, <2>1 DEF DataTypeOK
  <2>2. CASE nErr' = nErr /\ ~RowFailed(j)
    <3>1. results[j][n + 1] = "none"  BY <1>n, <1>0, <1>3 DEF JobInv, CountInv
    <3>2. results'[j][n + 1] \in {"none", "ok"}
      BY <1>n, <1>0, <1>3, <1>f, <2>2, <3>1 DEF DataTypeOK
    <3>. QED  BY <2>2, <3>2
  <2>. QED  BY <1>e, <2>1, <2>2
<1>u. UNCHANGED <<status, total, completed, errors, aborted, retryable, historyVars>>
  OBVIOUS
<1>4. TaskInv(j)'
  <2>1. n + 1 <= total[j]
    BY <1>n, <1>0 DEF JobInv, TaskInv, DataTypeOK, Rows
  <2>2. pc[j] = "record" /\ ~aborted[j] /\ status[j] # "none" /\ ~aborted'[j]
    BY <1>0 DEF JobInv, TaskInv
  <2> HIDE DEF RecordResult
  <2>. QED  BY <1>0, <1>3, <1>u, <2>1, <2>2 DEF JobInv, TaskInv
<1>5. SendInv(j)'
  BY <1>n, <1>0, <1>3 DEF JobInv, SendInv, AttemptLimit
<1>6. CountInv(j)'
  <2>1. FailedRows(j, completed[j])' = FailedRows(j, completed[j])
    BY <1>3, <1>b DEF FailedRows
  <2>2. FailedRows(j, nDone[j])' = FailedRows(j, n + 1)'
    BY <1>3 DEF FailedRows
  <2>3. Cardinality(FailedRows(j, nDone[j])') <= nErr'[j]
    <3>1. /\ Cardinality(FailedRows(j, n)) \in Nat
          /\ Cardinality(FailedRows(j, n + 1)') <= Cardinality(FailedRows(j, n)) + 1
          /\ results'[j][n + 1] # "failed"
               => Cardinality(FailedRows(j, n + 1)') = Cardinality(FailedRows(j, n))
      BY <1>b, FailedRowsStep
    <3>2. Cardinality(FailedRows(j, n)) <= nErr[j] /\ nErr[j] \in Nat /\ nErr'[j] \in Nat
      BY <1>n, <1>0, <1>c DEF JobInv, CountInv, DataTypeOK
    <3>3. Cardinality(FailedRows(j, n + 1)') \in Nat
      <4>1. FailedRows(j, n + 1)' \subseteq 1 .. n + 1  BY DEF FailedRows
      <4>2. IsFiniteSet(1 .. n + 1)
        <5>1. n + 1 \in Int  OBVIOUS
        <5> HIDE DEF RecordResult
        <5>. QED  BY <5>1, FS_Interval
      <4>3. IsFiniteSet(FailedRows(j, n + 1)')  BY <4>1, <4>2, FS_Subset
      <4>. QED  BY <4>3, FS_CardinalityType
    <3> HIDE DEF RecordResult
    <3>. QED  BY <1>c, <2>2, <3>1, <3>2, <3>3
  <2>4. nErr'[j] <= nDone'[j] /\ completed'[j] <= nDone'[j]
    BY <1>n, <1>0, <1>3, <1>c DEF JobInv, CountInv, DataTypeOK
  <2>. QED  BY <1>n, <1>0, <1>3, <1>b, <2>1, <2>3, <2>4 DEF JobInv, CountInv
<1>7. CancelInv(j)'
  BY <1>n, <1>0, <1>3 DEF JobInv, CancelInv, DataTypeOK
<1>. QED  BY <1>n, <1>0, <1>1, <1>2, <1>4, <1>5, <1>6, <1>7, StepInv
          DEF JobInv, TaskInv, Finished, Active

LEMMA UpdateProgressInv ==
    ASSUME IInv, NEW j \in Jobs, UpdateProgress(j)
    PROVE  IInv'
<1> USE RowsAssumption, AttemptsAssumption, FaultsAssumption
    DEF UpdateProgress, SqlFault, rowVars, historyVars
<1>0. DataTypeOK /\ FlagTypeOK /\ JobInv(j)  BY DEF IInv, JobInv, TypeOK
<1>1. TypeOK'
  <2>p. pc' \in [Jobs -> PC]
    BY <1>0 DEF DataTypeOK, PC
  <2>1. faults' \in 0 .. MaxFaults
    BY <1>0 DEF DataTypeOK
  <2>2. completed' \in [Jobs -> 0 .. MaxRows] /\ errors' \in [Jobs -> 0 .. MaxRows]
    BY <1>0 DEF DataTypeOK
  <2>3. DataTypeOK'
    BY <1>0, <2>p, <2>1, <2>2 DEF DataTypeOK
  <2>4. FlagTypeOK'  BY <1>0 DEF FlagTypeOK
  <2>. QED  BY <2>3, <2>4 DEF TypeOK
<1>2. \A k \in Jobs \ {j} : Frame(k)
  BY <1>0 DEF DataTypeOK, FlagTypeOK, Frame
<1>3. /\ pc'[j] \in {"row", "finalize"}
      /\ pc'[j] = "row" => nDone[j] < total[j]
      /\ \/ completed'[j] = completed[j] /\ errors'[j] = errors[j]
         \/ completed'[j] = nDone[j] /\ errors'[j] = nErr[j]
  BY <1>0 DEF DataTypeOK, Rows
<1>a. /\ pc'[j] = "row" => aborted'[j] = aborted[j]
      /\ pc'[j] = "finalize" => nDone[j] = total[j] \/ aborted'[j]
  BY <1>0 DEF DataTypeOK, FlagTypeOK, JobInv, TaskInv, Rows
<1>4. TaskInv(j)'
  BY <1>0, <1>3, <1>a DEF JobInv, TaskInv, Untouched
<1>5. SendInv(j)'
  BY <1>0, <1>3 DEF JobInv, SendInv, AttemptLimit
<1>6. CountInv(j)'
  <2>1. FailedRows(j, completed[j])' = FailedRows(j, completed'[j])  BY DEF FailedRows
  <2>2. FailedRows(j, nDone[j])' = FailedRows(j, nDone[j])  BY DEF FailedRows
  <2>. QED  BY <1>0, <1>3, <2>1, <2>2 DEF JobInv, CountInv, DataTypeOK
<1>7. CancelInv(j)'
  BY <1>0, <1>3 DEF JobInv, CancelInv, DataTypeOK
<1>. QED  BY <1>0, <1>1, <1>2, <1>4, <1>5, <1>6, <1>7, StepInv
          DEF JobInv, TaskInv, Finished, Active

LEMMA FinalizeJobInv ==
    ASSUME IInv, NEW j \in Jobs, FinalizeJob(j)
    PROVE  IInv'
<1> USE RowsAssumption, AttemptsAssumption, FaultsAssumption
    DEF FinalizeJob, Finalizable, SqlFault, rowVars, countVars, historyVars
<1>0. DataTypeOK /\ FlagTypeOK /\ JobInv(j)  BY DEF IInv, JobInv, TypeOK
<1>1. TypeOK'
  <2>1. FinalStatus(j) \in Finished
    BY <1>0 DEF DataTypeOK, FinalStatus, Finished
  <2>2. status' \in [Jobs -> Status]
    BY <1>0, <2>1 DEF DataTypeOK, Status, Terminal
  <2>3. pc' \in [Jobs -> PC] /\ faults' \in 0 .. MaxFaults
    BY <1>0 DEF DataTypeOK, PC
  <2>4. completed' \in [Jobs -> 0 .. MaxRows] /\ errors' \in [Jobs -> 0 .. MaxRows]
    BY <1>0 DEF DataTypeOK
  <2>5. DataTypeOK'
    BY <1>0, <2>1, <2>2, <2>3, <2>4 DEF DataTypeOK
  <2>6. FlagTypeOK'  BY <1>0 DEF FlagTypeOK
  <2>. QED  BY <2>5, <2>6 DEF TypeOK
<1>2. \A k \in Jobs \ {j} : Frame(k)
  BY <1>0 DEF DataTypeOK, FlagTypeOK, Frame
<1>3. /\ pc'[j] = "none"
      /\ \/ /\ status'[j] = status[j]
            /\ completed'[j] = completed[j] /\ errors'[j] = errors[j]
         \/ /\ status'[j] = FinalStatus(j) /\ status[j] # "cancelled"
            /\ completed'[j] = nDone[j] /\ errors'[j] = nErr[j]
  BY <1>0 DEF DataTypeOK
<1>4. status[j] \in Active \cup {"cancelled"}  BY <1>0 DEF JobInv, TaskInv
<1>5. TaskInv(j)'
  BY <1>0, <1>3, <1>4 DEF JobInv, TaskInv, Untouched, Active, FinalStatus
<1>6. SendInv(j)'
  BY <1>0, <1>3 DEF JobInv, SendInv, AttemptLimit
<1>7. CountInv(j)'
  <2>1. FailedRows(j, completed[j])' = FailedRows(j, completed'[j])  BY DEF FailedRows
  <2>2. FailedRows(j, nDone[j])' = FailedRows(j, nDone[j])  BY DEF FailedRows
  <2>. QED  BY <1>0, <1>3, <2>1, <2>2 DEF JobInv, CountInv, DataTypeOK
<1>8. CancelInv(j)'
  BY <1>0, <1>3, <1>4 DEF JobInv, CancelInv, DataTypeOK, FinalStatus, Active
<1>9. /\ status'[j] \in {"completed", "completed_with_failures"} => completed'[j] = total'[j]
      /\ status'[j] = "completed" => errors'[j] = 0
      /\ status'[j] = "completed_with_failures" => errors'[j] > 0
  BY <1>0, <1>3, <1>4 DEF JobInv, TaskInv, CountInv, DataTypeOK, FinalStatus, Active
<1>. QED  BY <1>1, <1>2, <1>5, <1>6, <1>7, <1>8, <1>9, StepInv DEF JobInv

-----------------------------------------------------------------------------
(* The environment and the theorems *)

LEMMA PurgeInv ==
    ASSUME IInv, NEW j \in Jobs, PurgeCsvRun(j)
    PROVE  IInv'
<1> USE RowsAssumption, AttemptsAssumption, FaultsAssumption
    DEF PurgeCsvRun, taskVars, rowVars, countVars, historyVars, ghostVars
<1>0. DataTypeOK /\ FlagTypeOK /\ JobInv(j)  BY DEF IInv, JobInv, TypeOK
<1>1. TypeOK'
  <2>1. status' \in [Jobs -> Status]  BY <1>0 DEF DataTypeOK, Status
  <2>2. results' \in [Jobs -> [Rows -> Verdict]]  BY <1>0 DEF DataTypeOK, Verdict
  <2>3. completed' \in [Jobs -> 0 .. MaxRows] /\ errors' \in [Jobs -> 0 .. MaxRows]
    BY <1>0 DEF DataTypeOK
  <2>4. DataTypeOK'  BY <1>0, <2>1, <2>2, <2>3 DEF DataTypeOK
  <2>5. FlagTypeOK'  BY <1>0 DEF FlagTypeOK
  <2>. QED  BY <2>4, <2>5 DEF TypeOK
<1>2. \A k \in Jobs \ {j} : Frame(k)
  BY <1>0 DEF DataTypeOK, FlagTypeOK, Frame
<1>3. /\ status'[j] = "purged" /\ completed'[j] = 0 /\ errors'[j] = 0
      /\ results'[j] = [r \in Rows |-> "none"]
      /\ pc'[j] = "none"
  BY <1>0 DEF DataTypeOK
<1>4. TaskInv(j)'
  BY <1>0, <1>3 DEF JobInv, TaskInv
<1>5. SendInv(j)'
  BY <1>0, <1>3 DEF JobInv, SendInv, AttemptLimit
<1>6. CountInv(j)'
  <2>1. FailedRows(j, completed[j])' = {}  BY <1>3 DEF FailedRows, Rows
  <2>2. FailedRows(j, nDone[j])' = {}  BY <1>0, <1>3 DEF FailedRows, DataTypeOK, Rows
  <2>3. Cardinality({}) = 0  BY FS_EmptySet
  <2>4. \A r \in Rows : results'[j][r] = "none"  BY <1>3
  <2>5. nDone' = nDone /\ nErr' = nErr  OBVIOUS
  <2>6. nDone[j] \in Nat /\ nErr[j] \in Nat /\ nErr[j] <= nDone[j]
    BY <1>0 DEF JobInv, CountInv, DataTypeOK
  <2> HIDE DEF PurgeCsvRun
  <2>. QED  BY <1>3, <2>1, <2>2, <2>3, <2>4, <2>5, <2>6 DEF CountInv
<1>7. CancelInv(j)'
  BY <1>0, <1>3 DEF JobInv, CancelInv, Active
<1>. QED  BY <1>1, <1>2, <1>3, <1>4, <1>5, <1>6, <1>7, StepInv DEF JobInv, Finished

\* A crash takes every executor away and touches nothing they have stored.
LEMMA CrashInv ==
    ASSUME IInv, Crash
    PROVE  IInv'
<1> USE RowsAssumption, AttemptsAssumption, FaultsAssumption
    DEF Crash, dbVars, rowVars, countVars
<1>0. DataTypeOK /\ FlagTypeOK  BY DEF IInv, TypeOK
<1>1. TypeOK'
  <2>1. pc' \in [Jobs -> PC]  BY DEF PC
  <2>2. DataTypeOK'  BY <1>0, <2>1 DEF DataTypeOK
  <2>3. FlagTypeOK'  BY <1>0 DEF FlagTypeOK
  <2>. QED  BY <2>2, <2>3 DEF TypeOK
<1>2. CompletedMeansEveryRow'  BY DEF IInv, CompletedMeansEveryRow
<1>3. ASSUME NEW j \in Jobs PROVE JobInv(j)'
  <2>0. JobInv(j) /\ pc'[j] = "none"  BY DEF IInv, JobInv
  <2>1. TaskInv(j)'  BY <2>0 DEF JobInv, TaskInv, Untouched
  <2>2. SendInv(j)'  BY <2>0 DEF JobInv, SendInv, AttemptLimit
  <2>3. CountInv(j)'  BY <2>0 DEF JobInv, CountInv, FailedRows
  <2>4. CancelInv(j)'  BY <2>0 DEF JobInv, CancelInv
  <2>. QED  BY <2>1, <2>2, <2>3, <2>4 DEF JobInv
<1>. QED  BY <1>1, <1>2, <1>3 DEF IInv, JobInv

\* Every step keeps the inductive invariant.
LEMMA NextInv == IInv /\ [Next]_vars => IInv'
<1> SUFFICES ASSUME IInv, [Next]_vars PROVE IInv'  OBVIOUS
<1>1. ASSUME NEW j \in Jobs, Execute(j) PROVE IInv'
  BY <1>1, SetJobRunningInv, NextRowInv, RejectRowInv, SendAttemptInv, RetryCheckInv,
     RecordResultInv, UpdateProgressInv, FinalizeJobInv DEF Execute
<1>2. CASE UNCHANGED vars
  <2> USE <1>2 DEF vars, dbVars, taskVars, rowVars, countVars, ghostVars, historyVars
  <2>1. DataTypeOK' /\ FlagTypeOK'
    <3>1. DataTypeOK'  BY DEF IInv, TypeOK, DataTypeOK
    <3>2. FlagTypeOK'  BY DEF IInv, TypeOK, FlagTypeOK
    <3>. QED  BY <3>1, <3>2
  <2>2. CompletedMeansEveryRow'  BY DEF IInv, CompletedMeansEveryRow
  <2>3. ASSUME NEW k \in Jobs PROVE JobInv(k)'
    <3>1. Frame(k)  BY FaultsAssumption DEF Frame, IInv, TypeOK, DataTypeOK
    <3>. QED  BY <3>1, FrameInv DEF IInv, JobInv
  <2>. QED  BY <2>1, <2>2, <2>3 DEF IInv, JobInv, TypeOK
<1>. QED
  BY <1>1, <1>2, CreateInv, CancelInvariant, PurgeInv, CrashInv DEF Next

\* The invariant holds in every reachable state: where an executor is, what it has
\* sent and counted, and what the stored job says about it, always agree.
THEOREM InvariantHolds == Spec => []IInv
<1>1. Init => IInv  BY InitInv
<1>2. IInv /\ [Next]_vars => IInv'  BY NextInv
<1>. QED  BY <1>1, <1>2, PTL DEF Spec

\* The handlers and the executor store values of the columns' types only.
THEOREM TypesHold == Spec => []TypeOK
<1>1. IInv => TypeOK  BY DEF IInv
<1>. QED  BY <1>1, InvariantHolds, PTL

\* A job that finalize_job calls completed has every row done, and "completed" and
\* "completed_with_failures" tell whether any failed.
THEOREM CompletedIsComplete == Spec => []CompletedMeansEveryRow
<1>1. IInv => CompletedMeansEveryRow  BY DEF IInv
<1>. QED  BY <1>1, InvariantHolds, PTL

\* The stored error_count never falls behind the stored results.
THEOREM NoFailureIsLost == Spec => []FailuresAreCounted
<1>1. IInv => FailuresAreCounted  BY DEF IInv, CountInv, FailuresAreCounted
<1>. QED  BY <1>1, InvariantHolds, PTL

\* At most one request per job, and one per failed read, follows a cancellation.
THEOREM CancelStopsSending == Spec => []AtMostOneSendAfterCancel
<1>1. IInv => AtMostOneSendAfterCancel  BY DEF IInv, CancelInv, AtMostOneSendAfterCancel
<1>. QED  BY <1>1, InvariantHolds, PTL

\* No row's request is sent more often than its method and enable_retry allow, over
\* all crashes and restarts.
THEOREM SendsAreBounded == Spec => []SendsWithinBudget
<1>1. IInv => SendsWithinBudget  BY DEF IInv, SendInv, SendsWithinBudget
<1>. QED  BY <1>1, InvariantHolds, PTL

\* A job's verdict and its counters tell a reader the truth.
THEOREM VerdictsAreHonestHolds == Spec => []VerdictsAreHonest
<1>1. IInv => VerdictsAreHonest
  BY DEF IInv, CountInv, FailuresAreCounted, VerdictsAreHonest
<1>. QED  BY <1>1, InvariantHolds, PTL

\* Requests are bounded per row, and after a cancellation.
THEOREM RequestsAreBoundedHolds == Spec => []RequestsAreBounded
<1>1. IInv => RequestsAreBounded
  BY DEF IInv, CancelInv, SendInv, AtMostOneSendAfterCancel, SendsWithinBudget, RequestsAreBounded
<1>. QED  BY <1>1, InvariantHolds, PTL

-----------------------------------------------------------------------------
(* Action property and refinement *)

\* Verdicts, and cancellations that the executor can see, are final: only the purge
\* replaces them.
THEOREM VerdictsAreFinal == Spec => SettledStays
<1>1. ASSUME IInv, [Next]_vars PROVE [SettledStep]_vars
  <2>0. DataTypeOK /\ \A j \in Jobs : TaskInv(j)  BY <1>1 DEF IInv, TypeOK
  <2>1. ASSUME NEW j \in Jobs,
               CreateCsvRun(j) \/ CancelCsvRun(j) \/ Execute(j) \/ PurgeCsvRun(j)
        PROVE  SettledStep
    <3> SUFFICES ASSUME NEW k \in Jobs,
                        status[k] \in Finished \/ (status[k] = "cancelled" /\ pc[k] # "start")
                 PROVE  status'[k] \in {status[k], "purged"}
      BY DEF SettledStep
    <3>1. CASE CreateCsvRun(j)  BY <2>0, <3>1 DEF CreateCsvRun, DataTypeOK, Finished
    <3>2. CASE CancelCsvRun(j)
      BY <2>0, <3>2 DEF CancelCsvRun, Cancellable, DataTypeOK, Finished, Active
    <3>3. CASE SetJobRunning(j)
      BY <2>0, <3>3 DEF SetJobRunning, DataTypeOK, TaskInv, Finished, Active
    <3>4. CASE FinalizeJob(j)
      BY <2>0, <3>4 DEF FinalizeJob, Finalizable, DataTypeOK, TaskInv, Finished, Active
    <3>5. CASE PurgeCsvRun(j)  BY <2>0, <3>5 DEF PurgeCsvRun, DataTypeOK
    <3>6. CASE NextRow(j) \/ RejectRow(j) \/ SendAttempt(j) \/ RetryCheck(j)
      BY <3>6 DEF NextRow, RejectRow, SendAttempt, RetryCheck, dbVars
    <3>7. CASE RecordResult(j) \/ UpdateProgress(j)
      BY <3>7 DEF RecordResult, UpdateProgress
    <3>. QED  BY <2>1, <3>1, <3>2, <3>3, <3>4, <3>5, <3>6, <3>7 DEF Execute
  <2>2. CASE Crash  BY <2>2 DEF Crash, SettledStep, dbVars
  <2>. QED  BY <1>1, <2>1, <2>2 DEF Next
<1>. QED  BY <1>1, InvariantHolds, PTL DEF Spec, SettledStays

\* What a reader sees of one job's row in the database is unchanged.
LEMMA LifecycleStutter ==
    ASSUME UNCHANGED <<status, total, completed>>
    PROVE  [Lifecycle!LNext]_(Lifecycle!lifecycleVars)
BY DEF Lifecycle!lifecycleVars

\* The runner with its executors, crashes and failing statements implements the
\* lifecycle a client is shown.
THEOREM RunnerImplementsLifecycle == Spec => ImplementsLifecycle
<1>1. Init => Lifecycle!LInit
  BY DEF Init, Lifecycle!LInit
<1>2. ASSUME IInv, [Next]_vars PROVE [Lifecycle!LNext]_(Lifecycle!lifecycleVars)
  <2>0. DataTypeOK /\ \A j \in Jobs : TaskInv(j) /\ CountInv(j)  BY <1>2 DEF IInv, TypeOK
  <2>1. ASSUME NEW j \in Jobs, CreateCsvRun(j) PROVE Lifecycle!Submit(j)
    BY <2>1 DEF CreateCsvRun, Lifecycle!Submit, Rows
  <2>2. ASSUME NEW j \in Jobs, CancelCsvRun(j) PROVE Lifecycle!Cancel(j)
    BY <2>2 DEF CancelCsvRun, Cancellable, Lifecycle!Cancel, Active, Lifecycle!Unfinished
  <2>3. ASSUME NEW j \in Jobs, SetJobRunning(j)
        PROVE  [Lifecycle!LNext]_(Lifecycle!lifecycleVars)
    <3>1. status[j] \in {"pending", "running", "cancelled"} /\ completed[j] = 0
      BY <2>0, <2>3 DEF SetJobRunning, TaskInv, Untouched, Active
    <3>2. CASE status' = status
      BY <2>3, <3>2, LifecycleStutter DEF SetJobRunning
    <3>3. CASE status' = [status EXCEPT ![j] = "running"]
      <4>1. CASE status[j] = "pending"
        <5>1. Lifecycle!Begin(j)  BY <2>3, <3>3, <4>1 DEF SetJobRunning, Lifecycle!Begin
        <5>. QED  BY <5>1 DEF Lifecycle!LNext
      <4>2. CASE status[j] = "cancelled"
        <5>1. Lifecycle!Resume(j)
          BY <2>3, <3>1, <3>3, <4>2 DEF SetJobRunning, Lifecycle!Resume
        <5>. QED  BY <5>1 DEF Lifecycle!LNext
      <4>3. CASE status[j] = "running"
        <5>1. status' = status  BY <2>0, <3>3, <4>3 DEF DataTypeOK
        <5>. QED  BY <2>3, <5>1, LifecycleStutter DEF SetJobRunning
      <4>. QED  BY <3>1, <4>1, <4>2, <4>3
    <3>. QED  BY <2>3, <3>2, <3>3 DEF SetJobRunning
  <2>4. ASSUME NEW j \in Jobs, UpdateProgress(j)
        PROVE  [Lifecycle!LNext]_(Lifecycle!lifecycleVars)
    <3>1. /\ status[j] \in {"pending", "running", "cancelled"}
          /\ nDone[j] \in completed[j] .. total[j]
      BY <2>0, <2>4 DEF UpdateProgress, DataTypeOK, TaskInv, CountInv, Active, Rows
    <3>2. CASE completed' = completed
      BY <2>4, <3>2, LifecycleStutter DEF UpdateProgress
    <3>3. CASE completed' = [completed EXCEPT ![j] = nDone[j]] /\ nDone[j] # completed[j]
      <4>1. nDone[j] \in completed[j] + 1 .. total[j]
        BY <2>0, <3>1, <3>3 DEF DataTypeOK, Rows
      <4>2. Lifecycle!Advance(j)
        BY <2>4, <3>1, <3>3, <4>1
           DEF UpdateProgress, Lifecycle!Advance, Lifecycle!Unfinished
      <4>. QED  BY <4>2 DEF Lifecycle!LNext
    <3>4. CASE completed' = [completed EXCEPT ![j] = nDone[j]] /\ nDone[j] = completed[j]
      <4>1. completed' = completed  BY <2>0, <3>4 DEF DataTypeOK
      <4>. QED  BY <2>4, <4>1, LifecycleStutter DEF UpdateProgress
    <3>. QED  BY <2>4, <3>2, <3>3, <3>4 DEF UpdateProgress
  <2>5. ASSUME NEW j \in Jobs, FinalizeJob(j)
        PROVE  [Lifecycle!LNext]_(Lifecycle!lifecycleVars)
    <3>1. CASE UNCHANGED <<status, completed>>
      BY <2>5, <3>1, LifecycleStutter DEF FinalizeJob, Finalizable
    <3>2. CASE /\ status[j] # "cancelled"
               /\ status' = [status EXCEPT ![j] = FinalStatus(j)]
               /\ completed' = [completed EXCEPT ![j] = nDone[j]]
      <4>1. status[j] \in Active /\ nDone[j] \in completed[j] .. total[j]
        BY <2>0, <2>5, <3>2 DEF FinalizeJob, DataTypeOK, TaskInv, CountInv, Rows
      <4>2. FinalStatus(j) \in Finished  BY DEF FinalStatus, Finished
      <4>3. FinalStatus(j) # "failed" => nDone[j] = total[j]
        BY <2>0, <2>5, <3>2 DEF FinalizeJob, TaskInv, FinalStatus
      <4>4. Lifecycle!Finish(j)
        BY <2>5, <3>2, <4>1, <4>2, <4>3
           DEF FinalizeJob, Lifecycle!Finish, Lifecycle!Unfinished, Lifecycle!Verdicts,
               Active, Finished
      <4>. QED  BY <4>4 DEF Lifecycle!LNext
    <3>. QED  BY <2>5, <3>1, <3>2 DEF FinalizeJob, Finalizable
  <2>6. ASSUME NEW j \in Jobs, PurgeCsvRun(j) PROVE Lifecycle!Purge(j)
    BY <2>6 DEF PurgeCsvRun, Terminal, Finished, Lifecycle!Purge, Lifecycle!Verdicts
  <2>7. ASSUME NEW j \in Jobs,
               \/ NextRow(j) \/ RejectRow(j) \/ SendAttempt(j) \/ RetryCheck(j)
               \/ RecordResult(j)
        PROVE  UNCHANGED <<status, total, completed>>
    BY <2>7 DEF NextRow, RejectRow, SendAttempt, RetryCheck, RecordResult, dbVars
  <2>8. CASE Crash \/ UNCHANGED vars
    BY <2>8, LifecycleStutter DEF Crash, vars, dbVars
  <2>9. ASSUME NEW j \in Jobs, Execute(j)
        PROVE  [Lifecycle!LNext]_(Lifecycle!lifecycleVars)
    BY <2>3, <2>4, <2>5, <2>7, <2>9, LifecycleStutter DEF Execute
  <2>. QED
    BY <1>2, <2>1, <2>2, <2>6, <2>8, <2>9 DEF Next, Lifecycle!LNext
<1>. QED
  BY <1>1, <1>2, InvariantHolds, PTL DEF Spec, ImplementsLifecycle, Lifecycle!LSpec
=============================================================================
