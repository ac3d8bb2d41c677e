---------------------------- MODULE ScheduledScan ----------------------------
(***************************************************************************)
(* One scheduled scan of radar-api (radar-api/src/scans.rs).  Every minute *)
(* each replica reads the scan's row and, if the scan is due, claims it by *)
(* a compare-and-swap on last_run_at and spawns execute_scan, which fetches*)
(* the spec, stores it and stores a diff against the spec fetched before.  *)
(* Replicas, executions and crashes interleave at every await; each SQL    *)
(* statement and the transaction of persist_diff_atomic are atomic.        *)
(*                                                                         *)
(* Time is counted in units of MaxRun minutes.  A timestamp is represented *)
(* by its age, and last_run_at by the age of the run that wrote it last: a *)
(* replica's snapshot of it is fresh until somebody else writes it.        *)
(***************************************************************************)
EXTENDS Integers, FiniteSets

CONSTANTS
    Replicas,      \* processes on one database
    Runs,          \* ids of executions alive at one time
    Specs,         \* bodies the spec URL may answer with
    Parsable,      \* those that parse in the format of the scan
    NoSpec,        \* NULL, and the empty base of fetch_previous_spec
    Interval,      \* interval_minutes
    MaxRun,        \* time from a poll to its claim, and from a claim to the end
    MaxCrashes,    \* bound: crashes of replicas
    MaxFaults      \* bound: SQL statements of executions that fail

ASSUME SpecsAssumption == Parsable \subseteq Specs /\ NoSpec \notin Specs
\* A poll claims without waiting for the executions, an execution has one fetch
\* with a timeout of 30 s and some statements; interval_minutes is at least 15.
ASSUME TimeAssumption == MaxRun \in Nat \ {0} /\ Interval \in Nat /\ Interval > 2 * MaxRun
ASSUME BoundsAssumption == MaxCrashes \in Nat /\ MaxFaults \in Nat

VARIABLES
    remote,        \* what the spec URL answers now
    scan,          \* the row of scheduled_scan is "live" or "deleted"
    age,           \* age of last_run_at, at most Interval; NULL counts as Interval
    status,        \* last_run_status
    hash,          \* last_spec_hash, by the spec it is the hash of
    latest,        \* the newest spec_version of the scan's URL
    snap,          \* snap[r]: the row as the scheduler of r has read it
    run,           \* run[x]: the local state of an execution of execute_scan
    (* history variables, read by properties only, and bounds *)
    known,         \* the last parsable spec that last_spec_hash stood for
    diffed,        \* transitions stored as diffs since `known` changed
    crashes,
    faults

rowVars   == <<scan, age, status, hash>>
ghostVars == <<known, diffed>>
vars      == <<remote, rowVars, latest, snap, run, ghostVars, crashes, faults>>

Free == [pc |-> "none", owner |-> "none", age |-> 0, hash |-> NoSpec, base |-> NoSpec,
         head |-> NoSpec, result |-> "ok"]
Idle == [polled |-> FALSE, fresh |-> FALSE, age |-> 0, hash |-> NoSpec]

Alive(x) == run[x].pc # "none"

Init ==
    /\ remote \in Specs
    /\ scan = "live"
    /\ age = Interval
    /\ status = "never"
    /\ hash = NoSpec
    /\ latest = NoSpec
    /\ snap = [r \in Replicas |-> Idle]
    /\ run = [x \in Runs |-> Free]
    /\ known = NoSpec
    /\ diffed = {}
    /\ crashes = 0
    /\ faults = 0

SqlFault ==
    /\ faults < MaxFaults
    /\ faults' = faults + 1

\* Every other reader of last_run_at holds a value that is not there any more.
Stale(s) == [r \in Replicas |-> [s[r] EXCEPT !.fresh = FALSE]]

-----------------------------------------------------------------------------
(* The scheduler *)

\* Mutant: a scan that is marked as running is left alone.
Due_NotRunning == age >= Interval /\ status # "running"

\* Never run, or not since interval_minutes.
Due == age >= Interval

\* The SELECT of run_due_scans.
Poll(r) ==
    /\ ~snap[r].polled
    /\ scan = "live"
    /\ Due
    /\ snap' = [snap EXCEPT ![r] = [polled |-> TRUE, fresh |-> TRUE, age |-> 0, hash |-> hash]]
    /\ UNCHANGED <<remote, rowVars, latest, run, ghostVars, crashes, faults>>

\* Mutant: the UPDATE does not look at the value that was read.
Claimable_Always(r) == scan = "live"

\* The WHERE of claim_scan: id = ? AND last_run_at = the value read (or IS NULL).
Claimable(r) == scan = "live" /\ snap[r].fresh

\* claim_scan, and the spawn of execute_scan if it wins.  The execution works with the
\* last_spec_hash of the snapshot.
Claim(r) ==
    /\ snap[r].polled
    /\ \/ /\ Claimable(r)
          /\ \E x \in Runs :
               /\ ~Alive(x)
               /\ run' = [run EXCEPT ![x] = [Free EXCEPT !.pc = "fetch", !.owner = r,
                                                         !.hash = snap[r].hash]]
          /\ age' = snap[r].age
          /\ status' = "running"
          /\ snap' = [Stale(snap) EXCEPT ![r] = Idle]
          /\ UNCHANGED faults
       \/ /\ ~Claimable(r)
          /\ snap' = [snap EXCEPT ![r] = Idle]
          /\ UNCHANGED <<run, age, status, faults>>
       \/ /\ SqlFault
          /\ snap' = [snap EXCEPT ![r] = Idle]
          /\ UNCHANGED <<run, age, status>>
    /\ UNCHANGED <<remote, scan, hash, latest, ghostVars, crashes>>

-----------------------------------------------------------------------------
(* execute_scan *)

Goto(x, next) == run' = [run EXCEPT ![x].pc = next]

\* Where a fetched body c leads: nothing new, the first run, or a comparison.
AfterFetch(x, c) ==
    IF c = run[x].hash THEN "status" ELSE IF run[x].hash = NoSpec THEN "first" ELSE "base"

\* The URL is refused, the fetch fails, or the body is hashed.
Fetch(x) ==
    /\ run[x].pc = "fetch"
    /\ \/ \E outcome \in {"skipped", "failed"} :
            run' = [run EXCEPT ![x].pc = "status", ![x].result = outcome]
       \/ run' = [run EXCEPT ![x].pc = AfterFetch(x, remote), ![x].head = remote]
    /\ UNCHANGED <<remote, rowVars, latest, snap, ghostVars, crashes, faults>>

\* UPDATE scheduled_scan SET last_spec_hash: fails, finds no row, or writes.
WriteHash(x) ==
    \/ /\ scan = "live"
       /\ hash' = run[x].head
       /\ known' = IF run[x].head \in Parsable THEN run[x].head ELSE known
       /\ diffed' = IF known' # known THEN {} ELSE diffed
       /\ UNCHANGED faults
    \/ /\ scan = "deleted"
       /\ UNCHANGED <<hash, ghostVars, faults>>
    \/ /\ SqlFault
       /\ UNCHANGED <<hash, ghostVars>>

\* store_scan_spec: an error is discarded.
StoreSpec(x) ==
    \/ latest' = run[x].head /\ UNCHANGED faults
    \/ SqlFault /\ UNCHANGED latest

\* First run: the hash, then the spec.
FirstHash(x) ==
    /\ run[x].pc = "first"
    /\ WriteHash(x)
    /\ Goto(x, "first_store")
    /\ UNCHANGED <<remote, scan, age, status, latest, snap, crashes>>

FirstStore(x) ==
    /\ run[x].pc = "first_store"
    /\ StoreSpec(x)
    /\ Goto(x, "status")
    /\ UNCHANGED <<remote, rowVars, snap, ghostVars, crashes>>

\* Mutant: the new spec is stored before the previous one is read.
PreviousSpec_StoredFirst(x) == run[x].head

\* The newest stored spec of the URL.
PreviousSpec(x) == latest

\* fetch_previous_spec: empty if there is none, or if the SELECT fails.
ReadBase(x) ==
    /\ run[x].pc = "base"
    /\ \/ /\ run' = [run EXCEPT ![x].pc = "store", ![x].base = PreviousSpec(x)]
          /\ UNCHANGED faults
       \/ /\ SqlFault
          /\ run' = [run EXCEPT ![x].pc = "store", ![x].base = NoSpec]
    /\ UNCHANGED <<remote, rowVars, latest, snap, ghostVars, crashes>>

StoreHead(x) ==
    /\ run[x].pc = "store"
    /\ StoreSpec(x)
    /\ Goto(x, "diff")
    /\ UNCHANGED <<remote, rowVars, snap, ghostVars, crashes>>

\* Both specs parse and the list of changes is not empty.
HasChanges(b, h) == b \in Parsable /\ h \in Parsable /\ b # h

\* create_scan_diff: nothing to store, a stored diff, or an error, which counts as
\* nothing to store.
CreateDiff(x) ==
    /\ run[x].pc = "diff"
    /\ \/ /\ HasChanges(run[x].base, run[x].head)
          /\ diffed' = diffed \cup {<<run[x].base, run[x].head>>}
          /\ UNCHANGED faults
       \/ /\ ~HasChanges(run[x].base, run[x].head)
          /\ UNCHANGED <<diffed, faults>>
       \/ /\ SqlFault
          /\ UNCHANGED diffed
    /\ Goto(x, "hash")
    /\ UNCHANGED <<remote, rowVars, latest, snap, known, crashes>>

\* The hash follows, also if no diff was stored.
NoteHash(x) ==
    /\ run[x].pc = "hash"
    /\ WriteHash(x)
    /\ Goto(x, "status")
    /\ UNCHANGED <<remote, scan, age, status, latest, snap, crashes>>

\* set_scan_status: last_run_at becomes the start of the execution.  Then, if a diff
\* was stored, dispatch_diff_event (see WebhookDelivery), and the execution ends.
SetScanStatus(x) ==
    /\ run[x].pc = "status"
    /\ \/ /\ scan = "live"
          /\ age' = run[x].age
          /\ status' = run[x].result
          /\ snap' = Stale(snap)
          /\ UNCHANGED faults
       \/ /\ scan = "deleted"
          /\ UNCHANGED <<age, status, snap, faults>>
       \/ /\ SqlFault
          /\ UNCHANGED <<age, status, snap>>
    /\ run' = [run EXCEPT ![x] = Free]
    /\ UNCHANGED <<remote, scan, hash, latest, ghostVars, crashes>>

ExecuteScan(x) ==
    \/ Fetch(x) \/ FirstHash(x) \/ FirstStore(x) \/ ReadBase(x)
    \/ StoreHead(x) \/ CreateDiff(x) \/ NoteHash(x) \/ SetScanStatus(x)

-----------------------------------------------------------------------------
(* The environment *)

\* DELETE /v1/scheduled-scans/:id.  An execution that is under way goes on.
DeleteScan ==
    /\ scan = "live"
    /\ scan' = "deleted"
    /\ UNCHANGED <<remote, age, status, hash, latest, snap, run, ghostVars, crashes, faults>>

\* The service deploys another spec.
Deploy ==
    /\ \E s \in Specs \ {remote} : remote' = s
    /\ UNCHANGED <<rowVars, latest, snap, run, ghostVars, crashes, faults>>

\* A replica dies with its snapshot and its executions.
Crash(r) ==
    /\ crashes < MaxCrashes
    /\ crashes' = crashes + 1
    /\ snap' = [snap EXCEPT ![r] = Idle]
    /\ run' = [x \in Runs |-> IF run[x].owner = r THEN Free ELSE run[x]]
    /\ UNCHANGED <<remote, rowVars, latest, ghostVars, faults>>

\* Time passes while nobody is late.
Tick ==
    /\ \A x \in Runs : Alive(x) => run[x].age < MaxRun
    /\ \A r \in Replicas : snap[r].polled => snap[r].age < MaxRun
    /\ age' = IF age < Interval THEN age + 1 ELSE age
    /\ run' = [x \in Runs |-> IF Alive(x) THEN [run[x] EXCEPT !.age = @ + 1] ELSE run[x]]
    /\ snap' = [r \in Replicas |-> IF snap[r].polled THEN [snap[r] EXCEPT !.age = @ + 1]
                                                     ELSE snap[r]]
    /\ UNCHANGED <<remote, scan, status, hash, latest, ghostVars, crashes, faults>>

Next ==
    \/ \E r \in Replicas : Poll(r) \/ Claim(r) \/ Crash(r)
    \/ \E x \in Runs : ExecuteScan(x)
    \/ DeleteScan
    \/ Deploy
    \/ Tick

Spec == Init /\ [][Next]_vars

\* The scheduler loops forever, the runtime polls its executions, fetches time out.
FairSpec ==
    /\ Spec
    /\ WF_vars(Tick)
    /\ \A r \in Replicas : WF_vars(Poll(r)) /\ WF_vars(Claim(r))
    /\ \A x \in Runs : WF_vars(ExecuteScan(x))

-----------------------------------------------------------------------------
(* Properties *)

SpecOrNone == Specs \cup {NoSpec}

Snapshots == [polled : BOOLEAN, fresh : BOOLEAN, age : 0 .. MaxRun, hash : SpecOrNone]
RunStates ==
    [pc : {"none", "fetch", "first", "first_store", "base", "store", "diff", "hash", "status"},
     owner : Replicas \cup {"none"}, age : 0 .. MaxRun,
     hash : SpecOrNone, base : SpecOrNone, head : SpecOrNone,
     result : {"ok", "failed", "skipped"}]

\* Every variable has its type; a stored diff relates two different specs that parse,
\* never an empty or unreadable base.
TypeOK ==
    /\ remote \in Specs
    /\ scan \in {"live", "deleted"}
    /\ age \in 0 .. Interval
    /\ status \in {"never", "running", "ok", "failed", "skipped"}
    /\ hash \in SpecOrNone
    /\ latest \in SpecOrNone
    /\ snap \in [Replicas -> Snapshots]
    /\ run \in [Runs -> RunStates]
    /\ known \in Parsable \cup {NoSpec}
    /\ diffed \subseteq {t \in Parsable \X Parsable : t[1] # t[2]}
    /\ crashes \in 0 .. MaxCrashes
    /\ faults \in 0 .. MaxFaults

\* "This is the lease that stops a scan running twice - whether from two ticks
\* overlapping in one instance or from two replicas polling together."
OneRunAtATime ==
    \A x, y \in Runs : Alive(x) /\ Alive(y) => x = y

\* Exclusive, and a run that is alive has the types of one.
ScansAreExclusive == TypeOK /\ OneRunAtATime

\* The lease is only ever renewed: no write moves last_run_at back in time, so a scan
\* does not become due early.  (Its age grows by the passing of time only.)
LeaseNeverRewinds == [][age' > age => Tick]_vars

\* Whatever last_spec_hash has moved past is reported: there are diffs that lead from
\* the last readable spec it stood for to the new one.
Reported(from, to) ==
    \/ <<from, to>> \in diffed
    \/ \E mid \in Specs : {<<from, mid>>, <<mid, to>>} \subseteq diffed

\* EPIC-K-L-PLAN.md on a run whose fetch succeeds: "And if the spec changed: a Diff is
\* created".
DriftIsReported ==
    [][known' # known /\ known # NoSpec => Reported(known, known')]_vars

\* The same while nothing crashes, no statement fails and the last body that was read
\* parses, and as one diff: two replicas, deletions and deployments at any time lose no
\* drift, and none is diffed against a stale base.
UndisturbedDriftIsReported ==
    [][known' # known /\ known # NoSpec /\ hash = known /\ crashes = 0 /\ faults = 0
         => <<known, known'>> \in diffed]_vars

\* A scan whose run died does not stay "running": the lease runs out and some replica
\* takes it over.
RunEnds == status = "running" ~> status # "running" \/ scan = "deleted"

-----------------------------------------------------------------------------
(* Why the lease excludes.                                                 *)

\* While a run is alive the lease it took, at the poll before its start, is not over.
HoldsLease(x) == run[x].age <= age /\ age <= run[x].age + MaxRun

\* A snapshot is fresh only as long as the scan is due and nobody runs it.
IInv ==
    /\ TypeOK /\ OneRunAtATime
    /\ \A x \in Runs : Alive(x) => HoldsLease(x) /\ \A r \in Replicas : ~ snap[r].fresh
    /\ \A r \in Replicas : snap[r].fresh => age = Interval
-----------------------------------------------------------------------------
(* Why no drift is lost.                                                   *)

\* Until it writes the hash, an execution works with the one that is in the row.
KnowsHash(x) ==
    /\ run[x].pc \in {"fetch", "first", "base", "store", "diff", "hash"} => run[x].hash = hash
    /\ run[x].pc = "first" => run[x].hash = NoSpec

\* The newest stored spec is the one the row has the hash of, except between the two
\* writes of an execution; and before the second of them its diff is stored.
SpecAndHashAgree(x) ==
    /\ run[x].pc \in {"fetch", "first", "base", "store", "status"} => latest = hash
    /\ run[x].pc = "first_store" => hash = run[x].head
    /\ run[x].pc \in {"store", "diff", "hash"} => run[x].base = hash
    /\ run[x].pc \in {"diff", "hash"} => latest = run[x].head
    /\ run[x].pc = "hash" /\ HasChanges(run[x].base, run[x].head)
         => <<run[x].base, run[x].head>> \in diffed

\* A fresh snapshot holds the hash of the row as well; and while nobody runs, the newest
\* stored spec is the one the row has the hash of.
DriftInv ==
    /\ IInv
    /\ \A r \in Replicas : snap[r].fresh => snap[r].hash = hash
    /\ \A x \in Runs : KnowsHash(x)
    /\ crashes = 0 /\ faults = 0 /\ scan = "live" =>
         /\ \A x \in Runs : SpecAndHashAgree(x)
         /\ (\A x \in Runs : ~ Alive(x)) => latest = hash
=============================================================================
