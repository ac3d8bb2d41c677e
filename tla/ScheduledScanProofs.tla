------------------------ MODULE ScheduledScanProofs ------------------------
(***************************************************************************)
(* Proofs about ScheduledScan for every set of replicas, executions and    *)
(* specs, every interval that leaves room for a run, and every number of   *)
(* crashes and failed statements.                                          *)
(***************************************************************************)
EXTENDS ScheduledScan, TLAPS

USE SpecsAssumption, TimeAssumption, BoundsAssumption

LEMMA FreeIsTyped == Free \in RunStates /\ Idle \in Snapshots
BY DEF Free, Idle, RunStates, Snapshots, SpecOrNone

\* Stale touches no field but fresh.
LEMMA StaleIsTyped ==
    ASSUME TypeOK
    PROVE  Stale(snap) \in [Replicas -> Snapshots] /\ \A r \in Replicas : ~ Stale(snap)[r].fresh
<1>1. ASSUME NEW r \in Replicas
      PROVE  /\ [snap[r] EXCEPT !.fresh = FALSE] \in Snapshots
             /\ ~ [snap[r] EXCEPT !.fresh = FALSE].fresh
  <2>1. snap[r] \in Snapshots  BY DEF TypeOK
  <2>. QED  BY <2>1 DEF Snapshots
<1>. QED  BY <1>1 DEF Stale

\* At the start nobody has read or run anything.
LEMMA InitInv ==
    ASSUME Init
    PROVE  IInv
<1>1. TypeOK  BY FreeIsTyped DEF Init, TypeOK, SpecOrNone
<1>2. \A x \in Runs : ~ Alive(x)  BY DEF Init, Alive, Free
<1>3. \A r \in Replicas : ~ snap[r].fresh  BY DEF Init, Idle
<1>. QED  BY <1>1, <1>2, <1>3 DEF IInv, OneRunAtATime

\* The part of a step of execute_scan that concerns the lease: the execution goes on with
\* its age, or it ends.
LEMMA QuietStep ==
    ASSUME IInv, TypeOK', NEW x \in Runs, Alive(x),
           \A y \in Runs : y # x => run'[y] = run[y],
           run'[x].age = run[x].age, UNCHANGED <<age, snap>>
    PROVE  IInv'
<1>1. \A y \in Runs : Alive(y)' => Alive(y)  BY DEF Alive
<1>2. OneRunAtATime'  BY <1>1 DEF IInv, OneRunAtATime
<1>3. \A y \in Runs : Alive(y)' => HoldsLease(y)' /\ \A r \in Replicas : ~ snap'[r].fresh
  BY <1>1 DEF IInv, HoldsLease
<1>4. \A r \in Replicas : snap'[r].fresh => age' = Interval  BY DEF IInv
<1>. QED  BY <1>2, <1>3, <1>4 DEF IInv

\* A local state that moves on keeps its type, its age and the others as they are.
LEMMA Moves ==
    ASSUME TypeOK, NEW x \in Runs, NEW s \in RunStates, s.age = run[x].age,
           run' = [run EXCEPT ![x] = s]
    PROVE  /\ run' \in [Runs -> RunStates] /\ run'[x].age = run[x].age
           /\ \A y \in Runs : y # x => run'[y] = run[y]
BY DEF TypeOK

PCs == {"none", "fetch", "first", "first_store", "base", "store", "diff", "hash", "status"}

LEMMA GotoMoves ==
    ASSUME TypeOK, NEW x \in Runs, NEW next \in PCs, Goto(x, next)
    PROVE  /\ run' \in [Runs -> RunStates] /\ run'[x].age = run[x].age
           /\ \A y \in Runs : y # x => run'[y] = run[y]
<1>1. run[x] \in RunStates  BY DEF TypeOK
<1>2. [run[x] EXCEPT !.pc = next] \in RunStates /\ [run[x] EXCEPT !.pc = next].age = run[x].age
  BY <1>1 DEF RunStates, PCs
<1>3. run' = [run EXCEPT ![x] = [run[x] EXCEPT !.pc = next]]  BY DEF Goto
<1>. QED  BY <1>2, <1>3 DEF TypeOK

\* The statements keep the types of what they write.
LEMMA WriteHashIsTyped ==
    ASSUME TypeOK, NEW x \in Runs, WriteHash(x)
    PROVE  /\ hash' \in SpecOrNone /\ known' \in Parsable \cup {NoSpec}
           /\ diffed' \subseteq {t \in Parsable \X Parsable : t[1] # t[2]}
           /\ faults' \in 0 .. MaxFaults
<1>1. run[x].head \in SpecOrNone  BY DEF TypeOK, RunStates
<1>2. CASE /\ hash' = run[x].head
           /\ known' = IF run[x].head \in Parsable THEN run[x].head ELSE known
           /\ diffed' = IF known' # known THEN {} ELSE diffed
           /\ UNCHANGED faults
  BY <1>1, <1>2 DEF TypeOK
<1>3. CASE UNCHANGED <<hash, ghostVars, faults>>  BY <1>3 DEF TypeOK, ghostVars
<1>4. CASE SqlFault /\ UNCHANGED <<hash, ghostVars>>  BY <1>4 DEF TypeOK, ghostVars, SqlFault
<1>. QED  BY <1>2, <1>3, <1>4 DEF WriteHash

LEMMA StoreSpecIsTyped ==
    ASSUME TypeOK, NEW x \in Runs, StoreSpec(x)
    PROVE  latest' \in SpecOrNone /\ faults' \in 0 .. MaxFaults
<1>1. run[x].head \in SpecOrNone  BY DEF TypeOK, RunStates
<1>. QED  BY <1>1 DEF StoreSpec, SqlFault, TypeOK

\* What each step of execute_scan before the last one does.
LEMMA FetchInv == ASSUME IInv, NEW x \in Runs, Fetch(x) PROVE IInv'
<1>0. TypeOK /\ run[x] \in RunStates  BY DEF IInv, TypeOK
<1>1. \/ \E o \in {"skipped", "failed"} :
            run' = [run EXCEPT ![x] = [run[x] EXCEPT !.pc = "status", !.result = o]]
      \/ run' = [run EXCEPT ![x] = [run[x] EXCEPT !.pc = AfterFetch(x, remote), !.head = remote]]
  BY DEF Fetch
<1>2. \E s \in RunStates : s.age = run[x].age /\ run' = [run EXCEPT ![x] = s]
  <2>1. ASSUME NEW o \in {"skipped", "failed"},
               run' = [run EXCEPT ![x] = [run[x] EXCEPT !.pc = "status", !.result = o]]
        PROVE  \E s \in RunStates : s.age = run[x].age /\ run' = [run EXCEPT ![x] = s]
    <3>1. [run[x] EXCEPT !.pc = "status", !.result = o] \in RunStates  BY <1>0 DEF RunStates
    <3>. QED  BY <1>0, <2>1, <3>1 DEF RunStates
  <2>2. ASSUME run' = [run EXCEPT ![x] = [run[x] EXCEPT !.pc = AfterFetch(x, remote), !.head = remote]]
        PROVE  \E s \in RunStates : s.age = run[x].age /\ run' = [run EXCEPT ![x] = s]
    <3>1. AfterFetch(x, remote) \in PCs /\ remote \in SpecOrNone
      BY <1>0 DEF AfterFetch, PCs, TypeOK, SpecOrNone
    <3>2. [run[x] EXCEPT !.pc = AfterFetch(x, remote), !.head = remote] \in RunStates
      BY <1>0, <3>1 DEF RunStates, PCs
    <3>. QED  BY <1>0, <2>2, <3>2 DEF RunStates
  <2>. QED  BY <1>1, <2>1, <2>2
<1>3. /\ run' \in [Runs -> RunStates] /\ run'[x].age = run[x].age
      /\ \A y \in Runs : y # x => run'[y] = run[y]
  <2>1. PICK s \in RunStates : s.age = run[x].age /\ run' = [run EXCEPT ![x] = s]  BY <1>2
  <2>. QED  BY <1>0, <2>1 DEF TypeOK
<1>4. TypeOK'  BY <1>0, <1>3 DEF Fetch, TypeOK, rowVars, ghostVars
<1>. QED  BY <1>3, <1>4, QuietStep DEF Fetch, Alive, rowVars

LEMMA FirstHashInv == ASSUME IInv, NEW x \in Runs, FirstHash(x) PROVE IInv'
<1>0. TypeOK /\ Goto(x, "first_store") /\ WriteHash(x)  BY DEF IInv, FirstHash
<1>1. /\ run' \in [Runs -> RunStates] /\ run'[x].age = run[x].age
      /\ \A y \in Runs : y # x => run'[y] = run[y]
  BY <1>0, GotoMoves DEF PCs
<1>2. TypeOK'  BY <1>0, <1>1, WriteHashIsTyped DEF FirstHash, TypeOK
<1>. QED  BY <1>1, <1>2, QuietStep DEF FirstHash, Alive

LEMMA FirstStoreInv == ASSUME IInv, NEW x \in Runs, FirstStore(x) PROVE IInv'
<1>0. TypeOK /\ Goto(x, "status") /\ StoreSpec(x)  BY DEF IInv, FirstStore
<1>1. /\ run' \in [Runs -> RunStates] /\ run'[x].age = run[x].age
      /\ \A y \in Runs : y # x => run'[y] = run[y]
  BY <1>0, GotoMoves DEF PCs
<1>2. TypeOK'  BY <1>0, <1>1, StoreSpecIsTyped DEF FirstStore, TypeOK, rowVars, ghostVars
<1>. QED  BY <1>1, <1>2, QuietStep DEF FirstStore, Alive, rowVars

LEMMA ReadBaseInv == ASSUME IInv, NEW x \in Runs, ReadBase(x) PROVE IInv'
<1>0. TypeOK /\ run[x] \in RunStates  BY DEF IInv, TypeOK
<1>1. PICK b \in SpecOrNone : run' = [run EXCEPT ![x] = [run[x] EXCEPT !.pc = "store", !.base = b]]
  BY <1>0 DEF ReadBase, PreviousSpec, TypeOK, SpecOrNone
<1>2. /\ [run[x] EXCEPT !.pc = "store", !.base = b] \in RunStates
      /\ [run[x] EXCEPT !.pc = "store", !.base = b].age = run[x].age
  BY <1>0 DEF RunStates
<1>3. /\ run' \in [Runs -> RunStates] /\ run'[x].age = run[x].age
      /\ \A y \in Runs : y # x => run'[y] = run[y]
  BY <1>0, <1>1, <1>2 DEF TypeOK
<1>4. TypeOK'  BY <1>0, <1>3 DEF ReadBase, SqlFault, TypeOK, rowVars, ghostVars
<1>. QED  BY <1>3, <1>4, QuietStep DEF ReadBase, Alive, rowVars

LEMMA StoreHeadInv == ASSUME IInv, NEW x \in Runs, StoreHead(x) PROVE IInv'
<1>0. TypeOK /\ Goto(x, "diff") /\ StoreSpec(x)  BY DEF IInv, StoreHead
<1>1. /\ run' \in [Runs -> RunStates] /\ run'[x].age = run[x].age
      /\ \A y \in Runs : y # x => run'[y] = run[y]
  BY <1>0, GotoMoves DEF PCs
<1>2. TypeOK'  BY <1>0, <1>1, StoreSpecIsTyped DEF StoreHead, TypeOK, rowVars, ghostVars
<1>. QED  BY <1>1, <1>2, QuietStep DEF StoreHead, Alive, rowVars

LEMMA CreateDiffInv == ASSUME IInv, NEW x \in Runs, CreateDiff(x) PROVE IInv'
<1>0. TypeOK /\ Goto(x, "hash")  BY DEF IInv, CreateDiff
<1>1. /\ run' \in [Runs -> RunStates] /\ run'[x].age = run[x].age
      /\ \A y \in Runs : y # x => run'[y] = run[y]
  BY <1>0, GotoMoves DEF PCs
<1>2. diffed' \subseteq {t \in Parsable \X Parsable : t[1] # t[2]} /\ faults' \in 0 .. MaxFaults
  BY <1>0 DEF CreateDiff, HasChanges, SqlFault, TypeOK
<1>3. TypeOK'  BY <1>0, <1>1, <1>2 DEF CreateDiff, TypeOK, rowVars
<1>. QED  BY <1>1, <1>3, QuietStep DEF CreateDiff, Alive, rowVars

LEMMA NoteHashInv == ASSUME IInv, NEW x \in Runs, NoteHash(x) PROVE IInv'
<1>0. TypeOK /\ Goto(x, "status") /\ WriteHash(x)  BY DEF IInv, NoteHash
<1>1. /\ run' \in [Runs -> RunStates] /\ run'[x].age = run[x].age
      /\ \A y \in Runs : y # x => run'[y] = run[y]
  BY <1>0, GotoMoves DEF PCs
<1>2. TypeOK'  BY <1>0, <1>1, WriteHashIsTyped DEF NoteHash, TypeOK
<1>. QED  BY <1>1, <1>2, QuietStep DEF NoteHash, Alive

\* A run that ends leaves last_run_at at its own start and nobody with a fresh snapshot.
LEMMA SetScanStatusInv ==
    ASSUME IInv, NEW x \in Runs, SetScanStatus(x)
    PROVE  IInv' /\ age' <= age
<1>0. TypeOK /\ Alive(x) /\ run[x] \in RunStates  BY DEF IInv, TypeOK, SetScanStatus, Alive
<1>1. run[x].age \in 0 .. MaxRun /\ run[x].result \in {"ok", "failed", "skipped"}
  BY <1>0 DEF RunStates
<1>2. run' \in [Runs -> RunStates] /\ \A y \in Runs : ~ Alive(y)'
  <2>1. run' = [run EXCEPT ![x] = Free]  BY DEF SetScanStatus
  <2>2. \A y \in Runs : Alive(y) => y = x  BY <1>0 DEF IInv, OneRunAtATime
  <2>. QED  BY <1>0, <2>1, <2>2, FreeIsTyped DEF TypeOK, Alive, Free
<1>3. HoldsLease(x) /\ \A r \in Replicas : ~ snap[r].fresh  BY <1>0 DEF IInv
<1>4. /\ age' \in 0 .. Interval /\ age' <= age
      /\ status' \in {"never", "running", "ok", "failed", "skipped"}
      /\ faults' \in 0 .. MaxFaults
  BY <1>0, <1>1, <1>3 DEF SetScanStatus, SqlFault, HoldsLease, TypeOK
<1>5. snap' \in [Replicas -> Snapshots] /\ \A r \in Replicas : ~ snap'[r].fresh
  <2>1. snap' = Stale(snap) \/ snap' = snap  BY DEF SetScanStatus
  <2>. QED  BY <1>0, <1>3, <2>1, StaleIsTyped DEF TypeOK
<1>6. TypeOK'  BY <1>0, <1>2, <1>4, <1>5 DEF SetScanStatus, TypeOK, ghostVars
<1>. QED  BY <1>2, <1>4, <1>5, <1>6 DEF IInv, OneRunAtATime

\* A snapshot is read only when the scan is due, so when no run holds the lease.
LEMMA PollInv == ASSUME IInv, NEW r \in Replicas, Poll(r) PROVE IInv'
<1>0. TypeOK /\ age = Interval  BY DEF IInv, TypeOK, Poll, Due
<1>1. \A x \in Runs : ~ Alive(x)
  <2>1. SUFFICES ASSUME NEW x \in Runs, Alive(x) PROVE FALSE  OBVIOUS
  <2>2. run[x].age \in 0 .. MaxRun  BY <1>0 DEF TypeOK, RunStates
  <2>3. age <= run[x].age + MaxRun  BY <2>1 DEF IInv, HoldsLease
  <2>. QED  BY <1>0, <2>2, <2>3
<1>2. [polled |-> TRUE, fresh |-> TRUE, age |-> 0, hash |-> hash] \in Snapshots
  BY <1>0 DEF TypeOK, Snapshots
<1>3. TypeOK'  BY <1>0, <1>2 DEF Poll, TypeOK, rowVars, ghostVars
<1>4. \A x \in Runs : ~ Alive(x)'  BY <1>1 DEF Poll, Alive
<1>5. \A q \in Replicas : snap'[q].fresh => age' = Interval  BY <1>0 DEF Poll, rowVars
<1>. QED  BY <1>3, <1>4, <1>5 DEF IInv, OneRunAtATime

\* A claim that wins is the only run and spends every other snapshot.
LEMMA ClaimInv ==
    ASSUME IInv, NEW r \in Replicas, Claim(r)
    PROVE  IInv' /\ age' <= age
<1>0. TypeOK /\ snap[r] \in Snapshots  BY DEF IInv, TypeOK
<1>1. CASE /\ Claimable(r)
           /\ \E x \in Runs :
                /\ ~Alive(x)
                /\ run' = [run EXCEPT ![x] = [Free EXCEPT !.pc = "fetch", !.owner = r,
                                                          !.hash = snap[r].hash]]
           /\ age' = snap[r].age /\ status' = "running"
           /\ snap' = [Stale(snap) EXCEPT ![r] = Idle]
           /\ UNCHANGED faults
  <2>1. PICK x \in Runs :
           /\ ~Alive(x)
           /\ run' = [run EXCEPT ![x] = [Free EXCEPT !.pc = "fetch", !.owner = r,
                                                     !.hash = snap[r].hash]]
    BY <1>1
  <2>2. snap[r].fresh /\ age = Interval  BY <1>1 DEF Claimable, IInv
  <2>3. \A y \in Runs : ~ Alive(y)  BY <2>2 DEF IInv
  <2>4. snap[r].age \in 0 .. MaxRun /\ snap[r].hash \in SpecOrNone  BY <1>0 DEF Snapshots
  <2>. DEFINE s == [Free EXCEPT !.pc = "fetch", !.owner = r, !.hash = snap[r].hash]
  <2>6. s \in RunStates /\ s.age = 0
    <3>1. Free \in RunStates /\ Free.age = 0  BY FreeIsTyped DEF Free
    <3>. QED  BY <2>4, <3>1 DEF RunStates, s
  <2>. HIDE DEF s
  <2>7. run' \in [Runs -> RunStates] /\ run'[x] = s /\ \A y \in Runs : y # x => run'[y] = run[y]
    BY <1>0, <2>1, <2>6 DEF TypeOK, s
  <2>8. \A y \in Runs : Alive(y)' => y = x  BY <2>3, <2>7 DEF Alive
  <2>9. snap' \in [Replicas -> Snapshots] /\ \A q \in Replicas : ~ snap'[q].fresh
    BY <1>0, <1>1, StaleIsTyped, FreeIsTyped DEF Idle
  <2>10. age' \in 0 .. Interval /\ age' <= age  BY <1>1, <2>2, <2>4
  <2>11. TypeOK'
    <3>1. status' = "running" /\ faults' = faults  BY <1>1
    <3>2. UNCHANGED <<remote, scan, hash, latest, known, diffed, crashes>>
      BY DEF Claim, ghostVars
    <3>3. /\ run' \in [Runs -> RunStates] /\ snap' \in [Replicas -> Snapshots]
          /\ age' \in 0 .. Interval
      BY <2>7, <2>9, <2>10
    <3>. QED  BY <1>0, <3>1, <3>2, <3>3 DEF TypeOK
  <2>12. HoldsLease(x)'
    <3>1. age' = snap[r].age /\ run'[x].age = 0  BY <1>1, <2>6, <2>7
    <3>. QED  BY <2>4, <3>1 DEF HoldsLease
  <2>. QED  BY <2>8, <2>9, <2>10, <2>11, <2>12 DEF IInv, OneRunAtATime
<1>2. CASE snap' = [snap EXCEPT ![r] = Idle] /\ UNCHANGED <<run, age, status>>
  <2>1. snap' \in [Replicas -> Snapshots] /\ \A q \in Replicas : snap'[q].fresh => snap[q].fresh
    BY <1>0, <1>2, FreeIsTyped DEF TypeOK, Idle
  <2>2. faults' \in 0 .. MaxFaults  BY <1>0 DEF Claim, SqlFault, TypeOK
  <2>3. TypeOK'  BY <1>0, <1>2, <2>1, <2>2 DEF Claim, TypeOK, ghostVars
  <2>4. OneRunAtATime'  BY <1>2 DEF IInv, OneRunAtATime, Alive
  <2>5. \A x \in Runs : Alive(x)' => HoldsLease(x)' /\ \A q \in Replicas : ~ snap'[q].fresh
    BY <1>2, <2>1 DEF IInv, Alive, HoldsLease
  <2>6. \A q \in Replicas : snap'[q].fresh => age' = Interval  BY <1>2, <2>1 DEF IInv
  <2>7. age' <= age  BY <1>0, <1>2 DEF TypeOK
  <2>. QED  BY <2>3, <2>4, <2>5, <2>6, <2>7 DEF IInv
<1>. QED  BY <1>1, <1>2 DEF Claim

LEMMA CrashInv == ASSUME IInv, NEW r \in Replicas, Crash(r) PROVE IInv'
<1>0. TypeOK  BY DEF IInv
<1>1. /\ run' \in [Runs -> RunStates]
      /\ \A x \in Runs : Alive(x)' => run'[x] = run[x]
  BY <1>0, FreeIsTyped DEF Crash, TypeOK, Alive, Free
<1>2. /\ snap' \in [Replicas -> Snapshots]
      /\ \A q \in Replicas : snap'[q].fresh => snap[q].fresh
  BY <1>0, FreeIsTyped DEF Crash, TypeOK, Idle
<1>3. TypeOK'  BY <1>0, <1>1, <1>2 DEF Crash, TypeOK, rowVars, ghostVars
<1>4. \A x \in Runs : Alive(x)' => Alive(x)  BY <1>1 DEF Alive
<1>5. OneRunAtATime'  BY <1>4 DEF IInv, OneRunAtATime
<1>6. \A x \in Runs : Alive(x)' => HoldsLease(x)' /\ \A q \in Replicas : ~ snap'[q].fresh
  BY <1>1, <1>2, <1>4 DEF IInv, HoldsLease, Crash, rowVars
<1>7. \A q \in Replicas : snap'[q].fresh => age' = Interval  BY <1>2 DEF IInv, Crash, rowVars
<1>. QED  BY <1>3, <1>5, <1>6, <1>7 DEF IInv

\* Time ages a run and its lease alike.
LEMMA TickInv == ASSUME IInv, Tick PROVE IInv'
<1>0. TypeOK  BY DEF IInv
<1>1. ASSUME NEW x \in Runs
      PROVE  /\ run'[x] \in RunStates /\ run'[x].pc = run[x].pc
             /\ Alive(x) => run'[x].age = run[x].age + 1
  <2>1. run[x] \in RunStates  BY <1>0 DEF TypeOK
  <2>2. CASE Alive(x)
    <3>1. run[x].age \in 0 .. MaxRun /\ run[x].age < MaxRun  BY <2>1, <2>2 DEF Tick, RunStates
    <3>2. run'[x] = [run[x] EXCEPT !.age = run[x].age + 1]  BY <2>2 DEF Tick
    <3>. QED  BY <2>1, <3>1, <3>2 DEF RunStates
  <2>3. CASE ~ Alive(x)
    <3>1. run'[x] = run[x]  BY <2>3 DEF Tick
    <3>. QED  BY <2>1, <2>3, <3>1
  <2>. QED  BY <2>2, <2>3
<1>2. run' \in [Runs -> RunStates]
  <2>1. run' = [x \in Runs |-> run'[x]]  BY DEF Tick
  <2>. QED  BY <1>1, <2>1
<1>3. ASSUME NEW r \in Replicas
      PROVE  snap'[r] \in Snapshots /\ snap'[r].fresh = snap[r].fresh
  <2>1. snap[r] \in Snapshots  BY <1>0 DEF TypeOK
  <2>2. CASE snap[r].polled
    <3>1. snap[r].age \in 0 .. MaxRun /\ snap[r].age < MaxRun  BY <2>1, <2>2 DEF Tick, Snapshots
    <3>2. snap'[r] = [snap[r] EXCEPT !.age = snap[r].age + 1]  BY <2>2 DEF Tick
    <3>. QED  BY <2>1, <3>1, <3>2 DEF Snapshots
  <2>3. CASE ~ snap[r].polled
    <3>1. snap'[r] = snap[r]  BY <2>3 DEF Tick
    <3>. QED  BY <2>1, <3>1
  <2>. QED  BY <2>2, <2>3
<1>4. snap' \in [Replicas -> Snapshots]
  <2>1. snap' = [r \in Replicas |-> snap'[r]]  BY DEF Tick
  <2>. QED  BY <1>3, <2>1
<1>5. age' \in 0 .. Interval /\ (age < Interval => age' = age + 1) /\ (age = Interval => age' = age)
  BY <1>0 DEF Tick, TypeOK
<1>6. TypeOK'  BY <1>0, <1>2, <1>4, <1>5 DEF Tick, TypeOK, ghostVars
<1>7. \A x \in Runs : Alive(x)' <=> Alive(x)  BY <1>1 DEF Alive
<1>8. ASSUME NEW x \in Runs, Alive(x) PROVE HoldsLease(x)'
  <2>1. run[x].age \in 0 .. MaxRun /\ run'[x].age = run[x].age + 1 /\ run[x].age < MaxRun
    BY <1>0, <1>1, <1>8 DEF TypeOK, RunStates, Tick
  <2>2. run[x].age <= age /\ age <= run[x].age + MaxRun /\ age \in 0 .. Interval
    BY <1>0, <1>8 DEF IInv, HoldsLease, TypeOK
  <2>. QED  BY <1>5, <2>1, <2>2 DEF HoldsLease
<1>. QED  BY <1>3, <1>5, <1>6, <1>7, <1>8 DEF IInv, OneRunAtATime

LEMMA EnvironmentInv == ASSUME IInv, DeleteScan \/ Deploy \/ UNCHANGED vars PROVE IInv'
<1>1. UNCHANGED <<age, status, hash, latest, snap, run, ghostVars, crashes, faults>>
  BY DEF DeleteScan, Deploy, vars, rowVars
<1>2. remote' \in Specs /\ scan' \in {"live", "deleted"}
  BY DEF IInv, TypeOK, DeleteScan, Deploy, vars, rowVars
<1>3. TypeOK'  BY <1>1, <1>2 DEF IInv, TypeOK, ghostVars
<1>. QED  BY <1>1, <1>3 DEF IInv, OneRunAtATime, Alive, HoldsLease

-----------------------------------------------------------------------------
\* One step, for the invariant and for the lease.
LEMMA NextInv ==
    ASSUME IInv, [Next]_vars
    PROVE  IInv' /\ (age' > age => Tick)
<1>0. age \in 0 .. Interval  BY DEF IInv, TypeOK
<1>1. ASSUME NEW r \in Replicas, Poll(r) \/ Claim(r) \/ Crash(r)
      PROVE  IInv' /\ (age' > age => Tick)
  <2>1. Claim(r) => IInv' /\ age' <= age /\ age' \in 0 .. Interval
    BY ClaimInv DEF IInv, TypeOK
  <2>2. Poll(r) \/ Crash(r) => IInv' /\ age' = age
    BY PollInv, CrashInv DEF Poll, Crash, rowVars
  <2>. QED  BY <1>0, <1>1, <2>1, <2>2
<1>2. ASSUME NEW x \in Runs, ExecuteScan(x)
      PROVE  IInv' /\ (age' > age => Tick)
  <2>1. SetScanStatus(x) => IInv' /\ age' <= age /\ age' \in 0 .. Interval
    BY SetScanStatusInv DEF IInv, TypeOK
  <2>2. Fetch(x) \/ FirstHash(x) \/ FirstStore(x) \/ ReadBase(x) \/ StoreHead(x)
          \/ CreateDiff(x) \/ NoteHash(x) => IInv' /\ age' = age
    BY FetchInv, FirstHashInv, FirstStoreInv, ReadBaseInv, StoreHeadInv, CreateDiffInv,
       NoteHashInv DEF Fetch, FirstHash, FirstStore, ReadBase, StoreHead, CreateDiff,
                       NoteHash, rowVars
  <2>. QED  BY <1>0, <1>2, <2>1, <2>2 DEF ExecuteScan
<1>3. DeleteScan \/ Deploy \/ UNCHANGED vars => IInv' /\ age' = age
  BY EnvironmentInv DEF DeleteScan, Deploy, vars, rowVars
<1>4. Tick => IInv'  BY TickInv
<1>. QED  BY <1>0, <1>1, <1>2, <1>3, <1>4 DEF Next

(* A run that is alive holds a lease that is not over, and then no snapshot *)
(* of the scan can still be claimed.                                        *)
THEOREM InvariantHolds == Spec => []IInv
<1>1. Init => IInv  BY InitInv
<1>2. IInv /\ [Next]_vars => IInv'  BY NextInv
<1>. QED  BY <1>1, <1>2, PTL DEF Spec

(* For any replicas that poll, claim, run and crash: at most one execution  *)
(* of the scan is alive at a time.                                          *)
THEOREM ScansAreExclusiveHolds == Spec => []ScansAreExclusive
<1>1. IInv => ScansAreExclusive  BY DEF IInv, ScansAreExclusive
<1>. QED  BY <1>1, InvariantHolds, PTL

(* No write of any execution or claim moves last_run_at back in time.       *)
THEOREM LeaseNeverRewindsHolds == Spec => LeaseNeverRewinds
<1>1. IInv /\ [Next]_vars => [age' > age => Tick]_vars  BY NextInv
<1>. QED  BY <1>1, InvariantHolds, PTL DEF Spec, LeaseNeverRewinds

-----------------------------------------------------------------------------
(* Drift.                                                                  *)

\* An execution is alone, so what a step of it leaves true of itself is true of all.
LEMMA AloneKeepsDrift ==
    ASSUME DriftInv, IInv', NEW x \in Runs, Alive(x), Alive(x)',
           \A y \in Runs : y # x => run'[y] = run[y],
           UNCHANGED snap, KnowsHash(x)',
           crashes' = 0 /\ faults' = 0 /\ scan' = "live" => SpecAndHashAgree(x)'
    PROVE  DriftInv'
<1>1. \A y \in Runs : y # x => run'[y].pc = "none"
  BY DEF DriftInv, IInv, OneRunAtATime, Alive
<1>2. \A y \in Runs : KnowsHash(y)'  BY <1>1 DEF KnowsHash
<1>3. crashes' = 0 /\ faults' = 0 /\ scan' = "live" => \A y \in Runs : SpecAndHashAgree(y)'
  BY <1>1 DEF SpecAndHashAgree
<1>4. \A r \in Replicas : ~ snap'[r].fresh  BY DEF DriftInv, IInv
<1>. QED  BY <1>2, <1>3, <1>4 DEF DriftInv

\* What is known before a step of an execution.
LEMMA BeforeStep ==
    ASSUME DriftInv, NEW x \in Runs
    PROVE  /\ TypeOK /\ run[x] \in RunStates /\ KnowsHash(x)
           /\ faults \in Nat /\ crashes \in Nat
           /\ crashes = 0 /\ faults = 0 /\ scan = "live" => SpecAndHashAgree(x)
BY DEF DriftInv, IInv, TypeOK

LEMMA GotoGoes ==
    ASSUME TypeOK, NEW x \in Runs, NEW next, Goto(x, next)
    PROVE  /\ run'[x].pc = next /\ run'[x].hash = run[x].hash
           /\ run'[x].base = run[x].base /\ run'[x].head = run[x].head
           /\ \A y \in Runs : y # x => run'[y] = run[y]
<1>1. run[x] \in RunStates  BY DEF TypeOK
<1>2. run' = [run EXCEPT ![x] = [run[x] EXCEPT !.pc = next]]  BY DEF Goto
<1>. QED  BY <1>1, <1>2 DEF TypeOK, RunStates

LEMMA FetchDrift == ASSUME DriftInv, IInv', NEW x \in Runs, Fetch(x) PROVE DriftInv'
<1>0. TypeOK /\ run[x] \in RunStates /\ KnowsHash(x)  BY BeforeStep
<1>1. /\ UNCHANGED <<hash, scan, latest, snap, crashes, faults>>
      /\ run[x].pc = "fetch"
      /\ crashes = 0 /\ faults = 0 /\ scan = "live" => latest = hash
  BY BeforeStep DEF Fetch, rowVars, SpecAndHashAgree
<1>2. CASE \E o \in {"skipped", "failed"} :
             run' = [run EXCEPT ![x] = [run[x] EXCEPT !.pc = "status", !.result = o]]
  <2>1. run'[x].pc = "status" /\ \A y \in Runs : y # x => run'[y] = run[y]
    BY <1>0, <1>2 DEF TypeOK, RunStates
  <2>2. KnowsHash(x)' /\ Alive(x) /\ Alive(x)'  BY <1>1, <2>1 DEF KnowsHash, Alive
  <2>3. crashes' = 0 /\ faults' = 0 /\ scan' = "live" => SpecAndHashAgree(x)'
    BY <1>1, <2>1 DEF SpecAndHashAgree
  <2>. QED  BY <1>1, <2>1, <2>2, <2>3, AloneKeepsDrift
<1>3. CASE run' = [run EXCEPT ![x] = [run[x] EXCEPT !.pc = AfterFetch(x, remote), !.head = remote]]
  <2>1. /\ run'[x].pc = AfterFetch(x, remote) /\ run'[x].hash = run[x].hash
        /\ \A y \in Runs : y # x => run'[y] = run[y]
    BY <1>0, <1>3 DEF TypeOK, RunStates
  <2>2. /\ AfterFetch(x, remote) \in {"status", "first", "base"}
        /\ AfterFetch(x, remote) = "first" => run[x].hash = NoSpec
    BY DEF AfterFetch
  <2>3. KnowsHash(x)' /\ Alive(x) /\ Alive(x)'  BY <1>0, <1>1, <2>1, <2>2 DEF KnowsHash, Alive
  <2>4. crashes' = 0 /\ faults' = 0 /\ scan' = "live" => SpecAndHashAgree(x)'
    BY <1>1, <2>1, <2>2 DEF SpecAndHashAgree
  <2>. QED  BY <1>1, <2>1, <2>3, <2>4, AloneKeepsDrift
<1>. QED  BY <1>2, <1>3 DEF Fetch

\* In a run without faults a write of the hash writes it, unless the scan is gone.
LEMMA WriteHashWrites ==
    ASSUME TypeOK, NEW x \in Runs, WriteHash(x), faults' = 0, scan = "live"
    PROVE  faults = 0 /\ hash' = run[x].head
BY DEF WriteHash, SqlFault, TypeOK

LEMMA StoreSpecStores ==
    ASSUME TypeOK, NEW x \in Runs, StoreSpec(x), faults' = 0
    PROVE  faults = 0 /\ latest' = run[x].head
BY DEF StoreSpec, SqlFault, TypeOK

LEMMA FirstHashDrift == ASSUME DriftInv, IInv', NEW x \in Runs, FirstHash(x) PROVE DriftInv'
<1>0. TypeOK  BY BeforeStep
<1>1. /\ run'[x].pc = "first_store" /\ run'[x].head = run[x].head
      /\ \A y \in Runs : y # x => run'[y] = run[y]
  BY <1>0, GotoGoes DEF FirstHash
<1>2. KnowsHash(x)' /\ Alive(x) /\ Alive(x)'  BY <1>1 DEF KnowsHash, Alive, FirstHash
<1>3. crashes' = 0 /\ faults' = 0 /\ scan' = "live" => SpecAndHashAgree(x)'
  BY <1>0, <1>1, WriteHashWrites DEF SpecAndHashAgree, FirstHash
<1>. QED  BY <1>1, <1>2, <1>3, AloneKeepsDrift DEF FirstHash

LEMMA FirstStoreDrift == ASSUME DriftInv, IInv', NEW x \in Runs, FirstStore(x) PROVE DriftInv'
<1>0. TypeOK  BY BeforeStep
<1>1. /\ run'[x].pc = "status" /\ run'[x].head = run[x].head
      /\ \A y \in Runs : y # x => run'[y] = run[y]
  BY <1>0, GotoGoes DEF FirstStore
<1>2. KnowsHash(x)' /\ Alive(x) /\ Alive(x)'  BY <1>1 DEF KnowsHash, Alive, FirstStore
<1>3. ASSUME crashes' = 0, faults' = 0, scan' = "live" PROVE SpecAndHashAgree(x)'
  <2>1. faults = 0 /\ latest' = run[x].head  BY <1>0, <1>3, StoreSpecStores DEF FirstStore
  <2>2. hash' = run[x].head  BY <1>3, <2>1, BeforeStep DEF FirstStore, rowVars, SpecAndHashAgree
  <2>. QED  BY <1>1, <2>1, <2>2 DEF SpecAndHashAgree
<1>. QED  BY <1>1, <1>2, <1>3, AloneKeepsDrift DEF FirstStore

LEMMA ReadBaseDrift == ASSUME DriftInv, IInv', NEW x \in Runs, ReadBase(x) PROVE DriftInv'
<1>0. TypeOK /\ run[x] \in RunStates /\ KnowsHash(x) /\ faults \in Nat  BY BeforeStep
<1>1. \E b \in SpecOrNone :
         /\ run' = [run EXCEPT ![x] = [run[x] EXCEPT !.pc = "store", !.base = b]]
         /\ faults' = 0 => faults = 0 /\ b = latest
  <2>1. latest \in SpecOrNone /\ NoSpec \in SpecOrNone  BY <1>0 DEF TypeOK, SpecOrNone
  <2>2. \/ /\ run' = [run EXCEPT ![x] = [run[x] EXCEPT !.pc = "store", !.base = latest]]
           /\ faults' = faults
        \/ /\ run' = [run EXCEPT ![x] = [run[x] EXCEPT !.pc = "store", !.base = NoSpec]]
           /\ SqlFault
    BY DEF ReadBase, PreviousSpec
  <2>3. SqlFault => faults' # 0  BY <1>0 DEF SqlFault
  <2>. QED  BY <2>1, <2>2, <2>3
<1>2. PICK b \in SpecOrNone :
         /\ run' = [run EXCEPT ![x] = [run[x] EXCEPT !.pc = "store", !.base = b]]
         /\ faults' = 0 => faults = 0 /\ b = latest
  BY <1>1
<1>3. /\ run'[x].pc = "store" /\ run'[x].base = b /\ run'[x].hash = run[x].hash
      /\ \A y \in Runs : y # x => run'[y] = run[y]
  BY <1>0, <1>2 DEF TypeOK, RunStates
<1>4. run[x].pc = "base" /\ UNCHANGED <<hash, scan, latest, snap, crashes>>
  BY DEF ReadBase, rowVars
<1>5. KnowsHash(x)' /\ Alive(x) /\ Alive(x)'  BY <1>0, <1>3, <1>4 DEF KnowsHash, Alive
<1>6. ASSUME crashes' = 0, faults' = 0, scan' = "live" PROVE SpecAndHashAgree(x)'
  <2>1. latest = hash  BY <1>2, <1>4, <1>6, BeforeStep DEF SpecAndHashAgree
  <2>. QED  BY <1>2, <1>3, <1>4, <1>6, <2>1 DEF SpecAndHashAgree
<1>. QED  BY <1>3, <1>4, <1>5, <1>6, AloneKeepsDrift

LEMMA StoreHeadDrift == ASSUME DriftInv, IInv', NEW x \in Runs, StoreHead(x) PROVE DriftInv'
<1>0. TypeOK /\ KnowsHash(x)  BY BeforeStep
<1>1. /\ run'[x].pc = "diff" /\ run'[x].head = run[x].head /\ run'[x].base = run[x].base
      /\ run'[x].hash = run[x].hash /\ \A y \in Runs : y # x => run'[y] = run[y]
  BY <1>0, GotoGoes DEF StoreHead
<1>2. run[x].pc = "store" /\ StoreSpec(x) /\ UNCHANGED <<hash, scan, snap, crashes>>
  BY DEF StoreHead, rowVars
<1>3. KnowsHash(x)' /\ Alive(x) /\ Alive(x)'  BY <1>0, <1>1, <1>2 DEF KnowsHash, Alive
<1>4. ASSUME crashes' = 0, faults' = 0, scan' = "live" PROVE SpecAndHashAgree(x)'
  <2>1. faults = 0 /\ latest' = run[x].head  BY <1>0, <1>2, <1>4, StoreSpecStores
  <2>2. run[x].base = hash  BY <1>2, <1>4, <2>1, BeforeStep DEF SpecAndHashAgree
  <2>. QED  BY <1>1, <1>2, <2>1, <2>2 DEF SpecAndHashAgree
<1>. QED  BY <1>1, <1>2, <1>3, <1>4, AloneKeepsDrift

LEMMA CreateDiffDrift == ASSUME DriftInv, IInv', NEW x \in Runs, CreateDiff(x) PROVE DriftInv'
<1>0. TypeOK /\ KnowsHash(x) /\ faults \in Nat  BY BeforeStep
<1>1. /\ run'[x].pc = "hash" /\ run'[x].head = run[x].head /\ run'[x].base = run[x].base
      /\ run'[x].hash = run[x].hash /\ \A y \in Runs : y # x => run'[y] = run[y]
  BY <1>0, GotoGoes DEF CreateDiff
<1>2. run[x].pc = "diff" /\ UNCHANGED <<hash, scan, latest, snap, crashes>>
  BY DEF CreateDiff, rowVars
<1>3. KnowsHash(x)' /\ Alive(x) /\ Alive(x)'  BY <1>0, <1>1, <1>2 DEF KnowsHash, Alive
<1>4. ASSUME crashes' = 0, faults' = 0, scan' = "live" PROVE SpecAndHashAgree(x)'
  <2>1. /\ faults = 0
        /\ HasChanges(run[x].base, run[x].head) => <<run[x].base, run[x].head>> \in diffed'
    BY <1>0, <1>4 DEF CreateDiff, SqlFault
  <2>2. run[x].base = hash /\ latest = run[x].head
    BY <1>2, <1>4, <2>1, BeforeStep DEF SpecAndHashAgree
  <2>3. HasChanges(run'[x].base, run'[x].head) => <<run'[x].base, run'[x].head>> \in diffed'
    BY <1>1, <2>1
  <2>. QED  BY <1>1, <1>2, <2>2, <2>3 DEF SpecAndHashAgree
<1>. QED  BY <1>1, <1>2, <1>3, <1>4, AloneKeepsDrift

LEMMA NoteHashDrift == ASSUME DriftInv, IInv', NEW x \in Runs, NoteHash(x) PROVE DriftInv'
<1>0. TypeOK  BY BeforeStep
<1>1. run'[x].pc = "status" /\ \A y \in Runs : y # x => run'[y] = run[y]
  BY <1>0, GotoGoes DEF NoteHash
<1>2. KnowsHash(x)' /\ Alive(x) /\ Alive(x)'  BY <1>1 DEF KnowsHash, Alive, NoteHash
<1>3. ASSUME crashes' = 0, faults' = 0, scan' = "live" PROVE SpecAndHashAgree(x)'
  <2>1. faults = 0 /\ hash' = run[x].head  BY <1>0, <1>3, WriteHashWrites DEF NoteHash
  <2>2. latest = run[x].head  BY <1>3, <2>1, BeforeStep DEF NoteHash, SpecAndHashAgree
  <2>. QED  BY <1>1, <2>1, <2>2 DEF SpecAndHashAgree, NoteHash
<1>. QED  BY <1>1, <1>2, <1>3, AloneKeepsDrift DEF NoteHash

\* When nobody runs, the newest stored spec is the one of the row.
LEMMA NobodyKeepsDrift ==
    ASSUME IInv', \A y \in Runs : run'[y].pc = "none",
           \A r \in Replicas : snap'[r].fresh => snap'[r].hash = hash',
           crashes' = 0 /\ faults' = 0 /\ scan' = "live" => latest' = hash'
    PROVE  DriftInv'
<1>1. \A y \in Runs : KnowsHash(y)' /\ SpecAndHashAgree(y)'  BY DEF KnowsHash, SpecAndHashAgree
<1>. QED  BY <1>1 DEF DriftInv

LEMMA SetScanStatusDrift ==
    ASSUME DriftInv, IInv', NEW x \in Runs, SetScanStatus(x)
    PROVE  DriftInv'
<1>0. TypeOK /\ faults \in Nat /\ run[x].pc = "status"  BY BeforeStep DEF SetScanStatus
<1>1. \A y \in Runs : run'[y].pc = "none"
  BY <1>0 DEF SetScanStatus, DriftInv, IInv, OneRunAtATime, Alive, TypeOK, Free
<1>2. \A r \in Replicas : ~ snap'[r].fresh
  <2>1. \A r \in Replicas : ~ snap[r].fresh  BY <1>0 DEF DriftInv, IInv, Alive
  <2>2. snap' = Stale(snap) \/ snap' = snap  BY DEF SetScanStatus
  <2>. QED  BY <1>0, <2>1, <2>2, StaleIsTyped
<1>3. ASSUME crashes' = 0, faults' = 0, scan' = "live" PROVE latest' = hash'
  <2>1. faults = 0  BY <1>0, <1>3 DEF SetScanStatus, SqlFault
  <2>. QED  BY <1>0, <1>3, <2>1, BeforeStep DEF SetScanStatus, SpecAndHashAgree
<1>. QED  BY <1>1, <1>2, <1>3, NobodyKeepsDrift

LEMMA PollDrift == ASSUME DriftInv, IInv', NEW r \in Replicas, Poll(r) PROVE DriftInv'
<1>0. TypeOK  BY DEF DriftInv, IInv
<1>1. UNCHANGED <<hash, scan, latest, run, diffed, crashes, faults>>
  BY DEF Poll, rowVars, ghostVars
<1>2. \A q \in Replicas : snap'[q].fresh => snap'[q].hash = hash'
  BY <1>0, <1>1 DEF Poll, TypeOK, DriftInv
<1>. QED  BY <1>1, <1>2 DEF DriftInv, KnowsHash, SpecAndHashAgree, Alive

\* A claim that wins has read the hash that is in the row.
LEMMA ClaimDrift == ASSUME DriftInv, IInv', NEW r \in Replicas, Claim(r) PROVE DriftInv'
<1>0. TypeOK /\ faults \in Nat  BY DEF DriftInv, IInv, TypeOK
<1>1. UNCHANGED <<hash, scan, latest, diffed, crashes>>  BY DEF Claim, ghostVars
<1>2. CASE /\ Claimable(r)
           /\ \E x \in Runs :
                /\ ~Alive(x)
                /\ run' = [run EXCEPT ![x] = [Free EXCEPT !.pc = "fetch", !.owner = r,
                                                          !.hash = snap[r].hash]]
           /\ snap' = [Stale(snap) EXCEPT ![r] = Idle]
           /\ UNCHANGED faults
  <2>1. PICK x \in Runs :
           run' = [run EXCEPT ![x] = [Free EXCEPT !.pc = "fetch", !.owner = r,
                                                  !.hash = snap[r].hash]]
    BY <1>2
  <2>2. snap[r].fresh /\ snap[r].hash = hash  BY <1>2 DEF Claimable, DriftInv
  <2>3. \A y \in Runs : ~ Alive(y)  BY <2>2 DEF DriftInv, IInv
  <2>4. /\ run'[x].pc = "fetch" /\ run'[x].hash = hash
        /\ \A y \in Runs : y # x => run'[y].pc = "none"
    BY <1>0, <2>1, <2>2, <2>3 DEF TypeOK, Free, Alive
  <2>5. \A q \in Replicas : ~ snap'[q].fresh  BY <1>0, <1>2, StaleIsTyped DEF Idle
  <2>6. \A y \in Runs : KnowsHash(y)'  BY <1>1, <2>4 DEF KnowsHash
  <2>7. ASSUME crashes' = 0, faults' = 0, scan' = "live"
        PROVE  (\A y \in Runs : SpecAndHashAgree(y)') /\ latest' = hash'
    <3>1. latest = hash  BY <1>1, <1>2, <2>3, <2>7 DEF DriftInv
    <3>. QED  BY <1>1, <2>4, <3>1 DEF SpecAndHashAgree
  <2>. QED  BY <2>5, <2>6, <2>7 DEF DriftInv
<1>3. CASE snap' = [snap EXCEPT ![r] = Idle] /\ UNCHANGED run
  <2>1. \A q \in Replicas : snap'[q].fresh => snap[q].fresh /\ snap'[q] = snap[q]
    BY <1>0, <1>3 DEF TypeOK, Idle
  <2>2. faults' = 0 => faults = 0  BY <1>0 DEF Claim, SqlFault
  <2>. QED  BY <1>1, <1>3, <2>1, <2>2 DEF DriftInv, KnowsHash, SpecAndHashAgree, Alive
<1>. QED  BY <1>2, <1>3 DEF Claim

LEMMA CrashDrift == ASSUME DriftInv, IInv', NEW r \in Replicas, Crash(r) PROVE DriftInv'
<1>0. TypeOK /\ crashes \in Nat  BY DEF DriftInv, IInv, TypeOK
<1>1. crashes' # 0 /\ UNCHANGED hash  BY <1>0 DEF Crash, rowVars
<1>2. \A q \in Replicas : snap'[q].fresh => snap'[q] = snap[q]
  BY <1>0 DEF Crash, TypeOK, Idle
<1>3. \A x \in Runs : run'[x] = run[x] \/ run'[x].pc = "none"  BY DEF Crash, Free
<1>4. \A x \in Runs : KnowsHash(x)'  BY <1>1, <1>3 DEF KnowsHash, DriftInv
<1>. QED  BY <1>1, <1>2, <1>4 DEF DriftInv

LEMMA TickDrift == ASSUME DriftInv, IInv', Tick PROVE DriftInv'
<1>0. TypeOK  BY DEF DriftInv, IInv
<1>1. UNCHANGED <<hash, scan, latest, diffed, crashes, faults>>  BY DEF Tick, ghostVars
<1>2. \A x \in Runs : /\ run'[x].pc = run[x].pc /\ run'[x].hash = run[x].hash
                      /\ run'[x].base = run[x].base /\ run'[x].head = run[x].head
  BY <1>0 DEF Tick, TypeOK, RunStates
<1>3. \A r \in Replicas : snap'[r].fresh = snap[r].fresh /\ snap'[r].hash = snap[r].hash
  BY <1>0 DEF Tick, TypeOK, Snapshots
<1>. QED  BY <1>1, <1>2, <1>3 DEF DriftInv, KnowsHash, SpecAndHashAgree, Alive

LEMMA EnvironmentDrift ==
    ASSUME DriftInv, IInv', DeleteScan \/ Deploy \/ UNCHANGED vars
    PROVE  DriftInv'
<1>1. /\ UNCHANGED <<hash, latest, snap, run, diffed, crashes, faults>>
      /\ scan' = "live" => scan = "live"
  BY DEF DeleteScan, Deploy, vars, rowVars, ghostVars
<1>. QED  BY <1>1 DEF DriftInv, KnowsHash, SpecAndHashAgree, Alive

LEMMA NextDrift == ASSUME DriftInv, [Next]_vars PROVE DriftInv'
<1>1. IInv'  BY NextInv DEF DriftInv
<1>2. ASSUME NEW r \in Replicas, Poll(r) \/ Claim(r) \/ Crash(r) PROVE DriftInv'
  BY <1>1, <1>2, PollDrift, ClaimDrift, CrashDrift
<1>3. ASSUME NEW x \in Runs, ExecuteScan(x) PROVE DriftInv'
  BY <1>1, <1>3, FetchDrift, FirstHashDrift, FirstStoreDrift, ReadBaseDrift, StoreHeadDrift,
     CreateDiffDrift, NoteHashDrift, SetScanStatusDrift DEF ExecuteScan
<1>. QED  BY <1>1, <1>2, <1>3, TickDrift, EnvironmentDrift DEF Next

\* The hash moves on past a readable spec only when the diff that leads away from it is
\* stored: not by a first run, which has found no hash.
LEMMA WriteIsReported ==
    ASSUME DriftInv, NEW x \in Runs, FirstHash(x) \/ NoteHash(x),
           known' # known, known # NoSpec, hash = known, crashes = 0, faults = 0
    PROVE  <<known, known'>> \in diffed
<1>0. TypeOK /\ KnowsHash(x)  BY BeforeStep
<1>1. WriteHash(x)  BY DEF FirstHash, NoteHash
<1>2. scan = "live" /\ known' = run[x].head /\ run[x].head \in Parsable
  BY <1>1 DEF WriteHash, ghostVars
<1>3. run[x].pc = "hash"  BY <1>0 DEF FirstHash, NoteHash, KnowsHash
<1>4. run[x].base = known /\ HasChanges(known, run[x].head)
  BY <1>0, <1>2, <1>3, BeforeStep DEF SpecAndHashAgree, HasChanges, TypeOK
<1>5. <<known, run[x].head>> \in diffed
  BY <1>2, <1>3, <1>4, BeforeStep DEF SpecAndHashAgree
<1>. QED  BY <1>2, <1>5

LEMMA StepIsReported ==
    ASSUME DriftInv, [Next]_vars, known' # known
    PROVE  \E x \in Runs : FirstHash(x) \/ NoteHash(x)
BY DEF Next, vars, ghostVars, Poll, Claim, Crash, ExecuteScan, Fetch, FirstStore, ReadBase,
       StoreHead, CreateDiff, SetScanStatus, DeleteScan, Deploy, Tick

(* The hash an execution works with is the one in the row; and while nothing*)
(* crashes and no statement fails, the newest stored spec is the one of that*)
(* hash, except between the two writes of the one execution, which stores   *)
(* the diff first.                                                          *)
THEOREM DriftInvHolds == Spec => []DriftInv
<1>1. Init => DriftInv
  <2>1. SUFFICES ASSUME Init PROVE DriftInv  OBVIOUS
  <2>2. IInv  BY <2>1, InitInv
  <2>3. \A x \in Runs : run[x].pc = "none"  BY <2>1 DEF Init, Free
  <2>4. \A r \in Replicas : ~ snap[r].fresh  BY <2>1 DEF Init, Idle
  <2>5. latest = hash  BY <2>1 DEF Init
  <2>. QED  BY <2>2, <2>3, <2>4, <2>5 DEF DriftInv, KnowsHash, SpecAndHashAgree
<1>2. DriftInv /\ [Next]_vars => DriftInv'  BY NextDrift
<1>. QED  BY <1>1, <1>2, PTL DEF Spec

(* For any replicas, specs, deployments and a deletion at any time: as long *)
(* as nothing crashes and no statement fails, last_spec_hash never moves    *)
(* from one readable spec to another without a stored diff between the two. *)
THEOREM UndisturbedDriftIsReportedHolds == Spec => UndisturbedDriftIsReported
<1>1. DriftInv /\ [Next]_vars =>
        [known' # known /\ known # NoSpec /\ hash = known /\ crashes = 0 /\ faults = 0
           => <<known, known'>> \in diffed]_vars
  BY StepIsReported, WriteIsReported
<1>. QED  BY <1>1, DriftInvHolds, PTL DEF Spec, UndisturbedDriftIsReported
=============================================================================
