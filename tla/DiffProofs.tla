----------------------------- MODULE DiffProofs -----------------------------
(***************************************************************************)
(* Proofs about the diff of two versions of a service.  DiffStore: for     *)
(* every set of requests, readers and transitions, every number of changes *)
(* and of failures.  OpenApiDiff: for every finite set of schema objects   *)
(* and every set of comparisons, recursive schemas included, the depth of  *)
(* the walk is bounded, a specification compared with itself gives nothing,*)
(* and a change of type is reported once at its place.                     *)
(***************************************************************************)
EXTENDS DiffStore, OpenApiDiff, TLAPS, FiniteSetTheorems

-----------------------------------------------------------------------------
(* DiffStore.                                                              *)

\* The database is empty and no request is open.
LEMMA InitInv == Init => IInv
<1> SUFFICES ASSUME Init PROVE IInv  OBVIOUS
<1> USE SizeAssumption, FaultsAssumption
<1>1. TypeOK  BY DEF Init, TypeOK, Ended
<1>2. KeyIsExclusive  BY DEF Init, KeyIsExclusive, InTransaction
<1>3. \A r \in Requests : RequestKnows(r)  BY DEF Init, RequestKnows
<1>4. NoPartialDiff  BY DEF Init, NoPartialDiff
<1>5. AnnouncedOnce  BY DEF Init, AnnouncedOnce
<1>. QED  BY <1>1, <1>2, <1>3, <1>4, <1>5 DEF IInv

\* A request that arrives knows its transition.
LEMMA ArriveInv ==
    ASSUME IInv, NEW r \in Requests, NEW k \in Kinds, NEW t \in Transitions, Arrive(r, k, t)
    PROVE  IInv'
<1> USE SizeAssumption, FaultsAssumption, NoneAssumption
<1>1. TypeOK'  BY DEF IInv, TypeOK, Arrive, Goto, dbVars, readerVars, Ended, Kinds
<1>2. KeyIsExclusive'
  BY DEF IInv, TypeOK, KeyIsExclusive, RequestKnows, InTransaction, Arrive, Goto, dbVars, readerVars
<1>3. ASSUME NEW q \in Requests PROVE RequestKnows(q)'
  <2>1. CASE q = r
    BY <2>1 DEF IInv, TypeOK, KeyIsExclusive, RequestKnows, InTransaction, NoPartialDiff,
                AnnouncedOnce, Arrive, Goto, dbVars, readerVars
  <2>2. CASE q # r
    BY <2>2 DEF IInv, TypeOK, KeyIsExclusive, RequestKnows, InTransaction, NoPartialDiff,
                AnnouncedOnce, Arrive, Goto, dbVars, readerVars
  <2>. QED  BY <2>1, <2>2
<1>4. NoPartialDiff'
  BY DEF IInv, TypeOK, RequestKnows, NoPartialDiff, Arrive, Goto, dbVars, readerVars
<1>5. AnnouncedOnce'
  BY DEF IInv, TypeOK, RequestKnows, AnnouncedOnce, Arrive, Goto, dbVars, readerVars
<1>. QED  BY <1>1, <1>2, <1>3, <1>4, <1>5 DEF IInv

\* Version rows are only added.
LEMMA StoreVersionInv ==
    ASSUME IInv, NEW r \in Requests, StoreVersion(r)
    PROVE  IInv'
<1> USE SizeAssumption, FaultsAssumption, NoneAssumption
<1>1. TypeOK'  BY DEF IInv, TypeOK, StoreVersion, Goto, readerVars, Ended, Kinds
<1>2. KeyIsExclusive'
  BY DEF IInv, TypeOK, KeyIsExclusive, RequestKnows, InTransaction, StoreVersion, Goto, readerVars
<1>3. ASSUME NEW q \in Requests PROVE RequestKnows(q)'
  <2>1. CASE q = r
    BY <2>1 DEF IInv, TypeOK, KeyIsExclusive, RequestKnows, InTransaction, NoPartialDiff,
                AnnouncedOnce, StoreVersion, Goto, readerVars
  <2>2. CASE q # r
    BY <2>2 DEF IInv, TypeOK, KeyIsExclusive, RequestKnows, InTransaction, NoPartialDiff,
                AnnouncedOnce, StoreVersion, Goto, readerVars
  <2>. QED  BY <2>1, <2>2
<1>4. NoPartialDiff'
  BY DEF IInv, TypeOK, RequestKnows, NoPartialDiff, StoreVersion, Goto, readerVars
<1>5. AnnouncedOnce'
  BY DEF IInv, TypeOK, RequestKnows, AnnouncedOnce, StoreVersion, Goto, readerVars
<1>. QED  BY <1>1, <1>2, <1>3, <1>4, <1>5 DEF IInv

\* A request that goes on has seen both versions stored.
LEMMA LookUpInv ==
    ASSUME IInv, NEW r \in Requests, LookUp(r)
    PROVE  IInv'
<1> USE SizeAssumption, FaultsAssumption, NoneAssumption
<1>0. goal[r] \in Transitions  BY DEF IInv, RequestKnows, LookUp
<1>1. TypeOK'  BY <1>0 DEF IInv, TypeOK, LookUp, Goto, dbVars, readerVars, Ended, Kinds
<1>2. KeyIsExclusive'
  BY DEF IInv, TypeOK, KeyIsExclusive, RequestKnows, InTransaction, LookUp, Goto, dbVars, readerVars
<1>3. ASSUME NEW q \in Requests PROVE RequestKnows(q)'
  <2>1. CASE q = r
    BY <2>1 DEF IInv, TypeOK, KeyIsExclusive, RequestKnows, InTransaction, NoPartialDiff,
                AnnouncedOnce, LookUp, Goto, dbVars, readerVars
  <2>2. CASE q # r
    BY <2>2 DEF IInv, TypeOK, KeyIsExclusive, RequestKnows, InTransaction, NoPartialDiff,
                AnnouncedOnce, LookUp, Goto, dbVars, readerVars
  <2>. QED  BY <2>1, <2>2
<1>4. NoPartialDiff'
  BY DEF IInv, TypeOK, RequestKnows, NoPartialDiff, LookUp, Goto, dbVars, readerVars
<1>5. AnnouncedOnce'
  BY DEF IInv, TypeOK, RequestKnows, AnnouncedOnce, LookUp, Goto, dbVars, readerVars
<1>. QED  BY <1>1, <1>2, <1>3, <1>4, <1>5 DEF IInv

\* The unique index: the transaction opens on a free key that no other one holds.
LEMMA InsertDiffInv ==
    ASSUME IInv, NEW r \in Requests, InsertDiff(r)
    PROVE  IInv'
<1> USE SizeAssumption, FaultsAssumption, NoneAssumption
<1>1. TypeOK'  BY DEF IInv, TypeOK, InsertDiff, Goto, Reserved, dbVars, readerVars, Ended, Kinds
<1>2. KeyIsExclusive'
  BY DEF IInv, TypeOK, KeyIsExclusive, RequestKnows, InTransaction, InsertDiff, Goto, Reserved, dbVars, readerVars
<1>3. ASSUME NEW q \in Requests PROVE RequestKnows(q)'
  <2>1. CASE q = r
    BY <2>1 DEF IInv, TypeOK, KeyIsExclusive, RequestKnows, InTransaction, NoPartialDiff,
                AnnouncedOnce, InsertDiff, Goto, Reserved, dbVars, readerVars
  <2>2. CASE q # r
    BY <2>2 DEF IInv, TypeOK, KeyIsExclusive, RequestKnows, InTransaction, NoPartialDiff,
                AnnouncedOnce, InsertDiff, Goto, Reserved, dbVars, readerVars
  <2>. QED  BY <2>1, <2>2
<1>4. NoPartialDiff'
  BY DEF IInv, TypeOK, RequestKnows, NoPartialDiff, InsertDiff, Goto, Reserved, dbVars, readerVars
<1>5. AnnouncedOnce'
  BY DEF IInv, TypeOK, RequestKnows, AnnouncedOnce, InsertDiff, Goto, Reserved, dbVars, readerVars
<1>. QED  BY <1>1, <1>2, <1>3, <1>4, <1>5 DEF IInv

\* The loser of the race finds the diff that made it lose.
LEMMA SelectExistingInv ==
    ASSUME IInv, NEW r \in Requests, SelectExisting(r)
    PROVE  IInv'
<1> USE SizeAssumption, FaultsAssumption, NoneAssumption
<1>0. goal[r] \in Transitions  BY DEF IInv, RequestKnows, SelectExisting
<1>1. TypeOK'  BY <1>0 DEF IInv, TypeOK, SelectExisting, Winner, AfterExisting, Goto, dbVars, readerVars, Ended, Kinds
<1>2. KeyIsExclusive'
  BY DEF IInv, TypeOK, KeyIsExclusive, RequestKnows, InTransaction, SelectExisting, Winner, AfterExisting, Goto, dbVars, readerVars
<1>3. ASSUME NEW q \in Requests PROVE RequestKnows(q)'
  <2>1. CASE q = r
    BY <2>1 DEF IInv, TypeOK, KeyIsExclusive, RequestKnows, InTransaction, NoPartialDiff,
                AnnouncedOnce, SelectExisting, Winner, AfterExisting, Goto, dbVars, readerVars
  <2>2. CASE q # r
    BY <2>2 DEF IInv, TypeOK, KeyIsExclusive, RequestKnows, InTransaction, NoPartialDiff,
                AnnouncedOnce, SelectExisting, Winner, AfterExisting, Goto, dbVars, readerVars
  <2>. QED  BY <2>1, <2>2
<1>4. NoPartialDiff'
  BY DEF IInv, TypeOK, RequestKnows, NoPartialDiff, SelectExisting, Winner, AfterExisting, Goto, dbVars, readerVars
<1>5. AnnouncedOnce'
  BY DEF IInv, TypeOK, RequestKnows, AnnouncedOnce, SelectExisting, Winner, AfterExisting, Goto, dbVars, readerVars
<1>. QED  BY <1>1, <1>2, <1>3, <1>4, <1>5 DEF IInv

\* The loop ends when all changes are written.
LEMMA InsertChangeInv ==
    ASSUME IInv, NEW r \in Requests, InsertChange(r)
    PROVE  IInv'
<1> USE SizeAssumption, FaultsAssumption, NoneAssumption
<1>1. TypeOK'  BY DEF IInv, TypeOK, InsertChange, MoreChanges, Goto, dbVars, readerVars, Ended, Kinds
<1>2. KeyIsExclusive'
  BY DEF IInv, TypeOK, KeyIsExclusive, RequestKnows, InTransaction, InsertChange, MoreChanges, Goto, dbVars, readerVars
<1>3. ASSUME NEW q \in Requests PROVE RequestKnows(q)'
  <2>1. CASE q = r
    BY <2>1, SMTT(30) DEF IInv, TypeOK, KeyIsExclusive, RequestKnows, InTransaction, NoPartialDiff,
                AnnouncedOnce, InsertChange, MoreChanges, Goto, dbVars, readerVars
  <2>2. CASE q # r
    BY <2>2 DEF IInv, TypeOK, KeyIsExclusive, RequestKnows, InTransaction, NoPartialDiff,
                AnnouncedOnce, InsertChange, MoreChanges, Goto, dbVars, readerVars
  <2>. QED  BY <2>1, <2>2
<1>4. NoPartialDiff'
  BY DEF IInv, TypeOK, RequestKnows, NoPartialDiff, InsertChange, MoreChanges, Goto, dbVars, readerVars
<1>5. AnnouncedOnce'
  BY DEF IInv, TypeOK, RequestKnows, AnnouncedOnce, InsertChange, MoreChanges, Goto, dbVars, readerVars
<1>. QED  BY <1>1, <1>2, <1>3, <1>4, <1>5 DEF IInv

\* The key was free and the changes are complete, so the new row is whole.
LEMMA CommitInv ==
    ASSUME IInv, NEW r \in Requests, Commit(r)
    PROVE  IInv'
<1> USE SizeAssumption, FaultsAssumption, NoneAssumption
<1>1. TypeOK'  BY DEF IInv, TypeOK, Commit, Goto, readerVars, Ended, Kinds
<1>2. KeyIsExclusive'
  BY DEF IInv, TypeOK, KeyIsExclusive, RequestKnows, InTransaction, Commit, Goto, readerVars
<1>3. ASSUME NEW q \in Requests PROVE RequestKnows(q)'
  <2>1. CASE q = r
    BY <2>1 DEF IInv, TypeOK, KeyIsExclusive, RequestKnows, InTransaction, NoPartialDiff,
                AnnouncedOnce, Commit, Goto, readerVars
  <2>2. CASE q # r
    BY <2>2 DEF IInv, TypeOK, KeyIsExclusive, RequestKnows, InTransaction, NoPartialDiff,
                AnnouncedOnce, Commit, Goto, readerVars
  <2>. QED  BY <2>1, <2>2
<1>4. NoPartialDiff'
  BY DEF IInv, TypeOK, RequestKnows, NoPartialDiff, Commit, Goto, readerVars
<1>5. AnnouncedOnce'
  BY DEF IInv, TypeOK, RequestKnows, AnnouncedOnce, Commit, Goto, readerVars
<1>. QED  BY <1>1, <1>2, <1>3, <1>4, <1>5 DEF IInv

\* Only the request that stored the diff comes here, and once.
LEMMA AnnounceInv ==
    ASSUME IInv, NEW r \in Requests, Announce(r)
    PROVE  IInv'
<1> USE SizeAssumption, FaultsAssumption, NoneAssumption
<1>0. goal[r] \in Transitions  BY DEF IInv, RequestKnows, Announce
<1>1. TypeOK'  BY <1>0 DEF IInv, TypeOK, Announce, Goto, dbVars, readerVars, Ended, Kinds
<1>2. KeyIsExclusive'
  BY DEF IInv, TypeOK, KeyIsExclusive, RequestKnows, InTransaction, Announce, Goto, dbVars, readerVars
<1>3. ASSUME NEW q \in Requests PROVE RequestKnows(q)'
  <2>1. CASE q = r
    BY <2>1 DEF IInv, TypeOK, KeyIsExclusive, RequestKnows, InTransaction, NoPartialDiff,
                AnnouncedOnce, Announce, Goto, dbVars, readerVars
  <2>2. CASE q # r
    BY <2>2 DEF IInv, TypeOK, KeyIsExclusive, RequestKnows, InTransaction, NoPartialDiff,
                AnnouncedOnce, Announce, Goto, dbVars, readerVars
  <2>. QED  BY <2>1, <2>2
<1>4. NoPartialDiff'
  BY DEF IInv, TypeOK, RequestKnows, NoPartialDiff, Announce, Goto, dbVars, readerVars
<1>5. AnnouncedOnce'
  BY DEF IInv, TypeOK, RequestKnows, AnnouncedOnce, Announce, Goto, dbVars, readerVars
<1>. QED  BY <1>1, <1>2, <1>3, <1>4, <1>5 DEF IInv

\* A request that ends early leaves the database as it was.
LEMMA GiveUpInv ==
    ASSUME IInv, NEW r \in Requests, InTransaction(r) \/ pc[r] \notin {"idle"}, GiveUp(r),
           faults' \in 0 .. MaxFaults
    PROVE  IInv'
<1> USE SizeAssumption, FaultsAssumption, NoneAssumption
<1>1. TypeOK'  BY DEF IInv, TypeOK, GiveUp, RolledBack, Goto, readerVars, Ended, Kinds
<1>2. KeyIsExclusive'
  BY DEF IInv, TypeOK, KeyIsExclusive, RequestKnows, InTransaction, GiveUp, RolledBack, Goto, readerVars
<1>3. ASSUME NEW q \in Requests PROVE RequestKnows(q)'
  <2>1. CASE q = r
    BY <2>1 DEF IInv, TypeOK, KeyIsExclusive, RequestKnows, InTransaction, NoPartialDiff,
                AnnouncedOnce, GiveUp, RolledBack, Goto, readerVars
  <2>2. CASE q # r
    BY <2>2 DEF IInv, TypeOK, KeyIsExclusive, RequestKnows, InTransaction, NoPartialDiff,
                AnnouncedOnce, GiveUp, RolledBack, Goto, readerVars
  <2>. QED  BY <2>1, <2>2
<1>4. NoPartialDiff'
  BY DEF IInv, TypeOK, RequestKnows, NoPartialDiff, GiveUp, RolledBack, Goto, readerVars
<1>5. AnnouncedOnce'
  BY DEF IInv, TypeOK, RequestKnows, AnnouncedOnce, GiveUp, RolledBack, Goto, readerVars
<1>. QED  BY <1>1, <1>2, <1>3, <1>4, <1>5 DEF IInv

\* A failing statement.
LEMMA FailInv ==
    ASSUME IInv, NEW r \in Requests, Fail(r)
    PROVE  IInv'
<1>1. pc[r] \notin {"idle"}  BY DEF Fail
<1>2. GiveUp(r)  BY DEF Fail
<1>3. faults' \in 0 .. MaxFaults  BY FaultsAssumption DEF IInv, TypeOK, Fail
<1>. QED  BY <1>1, <1>2, <1>3, GiveUpInv

\* A client that goes away, or a crash.
LEMMA DropInv ==
    ASSUME IInv, NEW r \in Requests, Drop(r)
    PROVE  IInv'
<1>1. pc[r] \notin {"idle"}  BY DEF Drop
<1>2. GiveUp(r)  BY DEF Drop
<1>3. faults' \in 0 .. MaxFaults  BY DEF IInv, TypeOK, Drop
<1>. QED  BY <1>1, <1>2, <1>3, GiveUpInv

\* Readers touch the share token only.
LEMMA ReadDiffInv ==
    ASSUME IInv, NEW g \in Readers, NEW t \in Transitions, ReadDiff(g, t)
    PROVE  IInv'
<1>1. TypeOK'  BY NoneAssumption DEF IInv, TypeOK, ReadDiff, dbVars, requestVars
<1>2. UNCHANGED <<stored, diff, changes, pc, kind, goal, written, answer, announced>>
  BY DEF ReadDiff, dbVars, requestVars
<1>3. KeyIsExclusive'  BY <1>2 DEF IInv, KeyIsExclusive, InTransaction
<1>4. \A r \in Requests : RequestKnows(r)'  BY <1>2 DEF IInv, RequestKnows
<1>5. NoPartialDiff' /\ AnnouncedOnce'  BY <1>2 DEF IInv, NoPartialDiff, AnnouncedOnce
<1>. QED  BY <1>1, <1>3, <1>4, <1>5 DEF IInv

\* Readers touch the share token only.
LEMMA MintTokenInv ==
    ASSUME IInv, NEW g \in Readers, MintToken(g)
    PROVE  IInv'
<1>1. TypeOK'  BY FaultsAssumption DEF IInv, TypeOK, MintToken, requestVars
<1>2. UNCHANGED <<stored, diff, changes, pc, kind, goal, written, answer, announced>>
  BY DEF MintToken, requestVars
<1>3. KeyIsExclusive'  BY <1>2 DEF IInv, KeyIsExclusive, InTransaction
<1>4. \A r \in Requests : RequestKnows(r)'  BY <1>2 DEF IInv, RequestKnows
<1>5. NoPartialDiff' /\ AnnouncedOnce'  BY <1>2 DEF IInv, NoPartialDiff, AnnouncedOnce
<1>. QED  BY <1>1, <1>3, <1>4, <1>5 DEF IInv

\* Steps of other parts of the program.
LEMMA StutterInv == IInv /\ UNCHANGED vars => IInv'
<1> SUFFICES ASSUME IInv, UNCHANGED vars PROVE IInv'  OBVIOUS
<1>1. TypeOK'  BY DEF IInv, TypeOK, vars, dbVars, requestVars, readerVars
<1>2. KeyIsExclusive'  BY DEF IInv, KeyIsExclusive, InTransaction, vars, dbVars, requestVars
<1>3. \A r \in Requests : RequestKnows(r)'
  BY DEF IInv, RequestKnows, vars, dbVars, requestVars
<1>4. NoPartialDiff' /\ AnnouncedOnce'
  BY DEF IInv, NoPartialDiff, AnnouncedOnce, vars, dbVars, requestVars
<1>. QED  BY <1>1, <1>2, <1>3, <1>4 DEF IInv

\* One case per action.
LEMMA NextInv == IInv /\ [Next]_vars => IInv'
<1> SUFFICES ASSUME IInv, [Next]_vars PROVE IInv'  OBVIOUS
<1>1. ASSUME NEW r \in Requests, NEW k \in Kinds, NEW t \in Transitions, Arrive(r, k, t)
      PROVE  IInv'
  BY <1>1, ArriveInv
<1>2. ASSUME NEW r \in Requests, Serve(r) PROVE IInv'
  BY <1>2, StoreVersionInv, LookUpInv, InsertDiffInv, SelectExistingInv, InsertChangeInv,
     CommitInv, AnnounceInv DEF Serve
<1>3. ASSUME NEW r \in Requests, Fail(r) \/ Drop(r) PROVE IInv'
  BY <1>3, FailInv, DropInv
<1>4. ASSUME NEW g \in Readers, NEW t \in Transitions, ReadDiff(g, t) PROVE IInv'
  BY <1>4, ReadDiffInv
<1>5. ASSUME NEW g \in Readers, MintToken(g) PROVE IInv'
  BY <1>5, MintTokenInv
<1>6. CASE UNCHANGED vars  BY <1>6, StutterInv
<1>. QED  BY <1>1, <1>2, <1>3, <1>4, <1>5, <1>6 DEF Next

\* The inductive invariant holds in every state the program reaches, whatever the
\* requests, their transitions and the statements that fail.
THEOREM InvariantHolds == Spec => []IInv
BY InitInv, NextInv, PTL DEF Spec

\* Every variable of the diff store keeps its type.
THEOREM TypesHold == Spec => []TypeOK
<1>1. IInv => TypeOK  BY DEF IInv
<1>. QED  BY <1>1, InvariantHolds, PTL

\* persist_diff_atomic is all-or-nothing: no stored diff lacks a change or a version.
THEOREM NoPartialDiffHolds == Spec => []NoPartialDiff
<1>1. IInv => NoPartialDiff  BY DEF IInv
<1>. QED  BY <1>1, InvariantHolds, PTL

\* create_diff is idempotent: all that succeed with a transition answer with one diff.
THEOREM SameAnswerHolds == Spec => []SameAnswer
<1>1. IInv => SameAnswer  BY DEF IInv, SameAnswer, RequestKnows
<1>. QED  BY <1>1, InvariantHolds, PTL

\* dispatch_diff_event runs at most once per stored diff and never without one.
THEOREM AnnouncedOnceHolds == Spec => []AnnouncedOnce
<1>1. IInv => AnnouncedOnce  BY DEF IInv
<1>. QED  BY <1>1, InvariantHolds, PTL

\* A transition is stored once: whole, under one id for everybody, told once.
THEOREM StoredOnceHolds == Spec => []StoredOnce
<1>1. IInv => StoredOnce  BY DEF IInv, RequestKnows, SameAnswer, StoredOnce
<1>. QED  BY <1>1, InvariantHolds, PTL

\* What one step may do to a stored diff, by the inductive invariant: nothing.
LEMMA StepKeepsDiffs ==
    ASSUME IInv, Next, NEW t \in Transitions, diff[t] # None
    PROVE  diff'[t] = diff[t]
<1>1. ASSUME NEW r \in Requests, Commit(r) PROVE diff'[t] = diff[t]
  <2>1. goal[r] # t  BY <1>1 DEF IInv, KeyIsExclusive, InTransaction, Commit
  <2>. QED  BY <1>1, <2>1 DEF IInv, TypeOK, Commit
<1>2. ASSUME NEW r \in Requests, Fail(r) \/ Drop(r) PROVE diff'[t] = diff[t]
  BY <1>2 DEF Fail, Drop, GiveUp, RolledBack
<1>3. ASSUME NEW r \in Requests, Serve(r), ~Commit(r) PROVE diff' = diff
  BY <1>3 DEF Serve, StoreVersion, LookUp, InsertDiff, SelectExisting, InsertChange, Announce,
              dbVars
<1>4. ASSUME NEW r \in Requests, NEW k \in Kinds, NEW q \in Transitions, Arrive(r, k, q)
      PROVE  diff' = diff
  BY <1>4 DEF Arrive, dbVars
<1>5. ASSUME NEW g \in Readers, NEW q \in Transitions, ReadDiff(g, q) PROVE diff' = diff
  BY <1>5 DEF ReadDiff, dbVars
<1>6. ASSUME NEW g \in Readers, MintToken(g) PROVE diff' = diff
  BY <1>6 DEF MintToken
<1>. QED  BY <1>1, <1>2, <1>3, <1>4, <1>5, <1>6 DEF Next

\* The id of a stored diff is never replaced by that of a racing request.
THEOREM DiffsAreKeptHolds == Spec => DiffsAreKept
<1>1. IInv /\ [Next]_vars => [\A t \in Transitions : diff[t] # None => diff'[t] = diff[t]]_vars
  BY StepKeepsDiffs
<1>. QED  BY <1>1, InvariantHolds, PTL DEF Spec, DiffsAreKept

\* A transition is stored once and for good, for any number of requests that race.
THEOREM StoredOnceForGoodHolds == Spec => StoredOnceForGood
BY StoredOnceHolds, DiffsAreKeptHolds, PTL DEF StoredOnceForGood

-----------------------------------------------------------------------------
(* OpenApiDiff.                                                            *)

Severities == {"safe", "risky", "breaking"}

Callers == [b : Nodes, copy : Nat, h : Nodes]

FrameOK(f) ==
    /\ f.b \in Nodes
    /\ f.h \in Nodes
    /\ f.copy \in Nat
    /\ f.request \in BOOLEAN
    /\ f.ancestors \in Seq(Callers)

\* The roots of a path: for every caller, the schema of the specification itself from which
\* no $ref has been followed since.  No two callers have one root and one schema, and the
\* frame, if it compares a copy, compares a schema nested in that of each caller with the
\* last root.
RootsOK(f, roots) ==
    /\ Len(roots) = Len(f.ancestors)
    /\ \A i \in 1 .. Len(roots) : \E j \in 1 .. Len(roots) :
         f.ancestors[j].copy = 0 /\ f.ancestors[j].b = roots[i]
    /\ \A i, j \in 1 .. Len(roots) :
         roots[i] = roots[j] /\ f.ancestors[i].b = f.ancestors[j].b => i = j
    /\ f.copy # 0 =>
         /\ Len(roots) > 0
         /\ \A i \in 1 .. Len(roots) :
              roots[i] = roots[Len(roots)] => f.b \in NestedBelow(base, f.ancestors[i].b)

PathOK(f) == \E roots \in Seq(Nodes) : RootsOK(f, roots)

DepthBound == Cardinality(Nodes) * Cardinality(Nodes)

WalkInv ==
    /\ phase \in {"start", "walk", "overflow"}
    /\ \A f \in todo : FrameOK(f)
    /\ Unfolds(base) => \A f \in todo : PathOK(f)
    /\ phase = "overflow" /\ DepthBound < StackLimit => ~Unfolds(base)
    /\ \A c \in reported : c.severity \in Severities
    /\ skipped \subseteq {"cycle", "untyped", "composed", "unresolved", "undeclared", "range"}

-----------------------------------------------------------------------------
(* Depth and types *)

\* What a sequence holds.
LEMMA ElementType == ASSUME NEW T, NEW s \in Seq(T) PROVE \A i \in 1 .. Len(s) : s[i] \in T
OBVIOUS

\* Pigeonhole: a path has at most one caller for each root and each schema.
LEMMA PathIsShort ==
    ASSUME NEW f, FrameOK(f), PathOK(f)
    PROVE  Len(f.ancestors) <= DepthBound
<1>1. PICK roots \in Seq(Nodes) : RootsOK(f, roots)
  BY DEF PathOK
<1> DEFINE path == f.ancestors
           S == 1 .. Len(path)
           at == [i \in S |-> <<roots[i], path[i].b>>]
<1>2. Len(path) \in Nat /\ Len(roots) = Len(path)
  BY <1>1 DEF FrameOK, RootsOK
<1>3. IsFiniteSet(S) /\ Cardinality(S) = Len(path)
  <2> DEFINE m == Len(path)
  <2>1. m \in Int /\ 1 \in Int /\ m >= 0
    BY <1>2
  <2>. HIDE DEF m
  <2>2. IsFiniteSet(1 .. m) /\ Cardinality(1 .. m) = m
    BY <2>1, FS_Interval
  <2>. QED  BY <2>2 DEF m
<1>4. at \in [S -> Nodes \X Nodes]
  <2>1. \A i \in S : path[i] \in Callers
    BY ElementType DEF FrameOK
  <2>2. \A i \in S : path[i].b \in Nodes /\ roots[i] \in Nodes
    BY <1>2, <2>1, ElementType DEF Callers
  <2>. QED  BY <2>2
<1>5. \A x, y \in S : at[x] = at[y] => x = y
  BY <1>1, <1>2 DEF RootsOK
<1>6. /\ IsFiniteSet(Nodes \X Nodes)
      /\ Cardinality(Nodes \X Nodes) = DepthBound
      /\ DepthBound \in Nat
  <2>1. Cardinality(Nodes) \in Nat
    BY NodesAssumption, FS_CardinalityType
  <2>. QED  BY <2>1, NodesAssumption, FS_Product DEF DepthBound
<1>7. ~(Cardinality(Nodes \X Nodes) < Cardinality(S))
  <2>. HIDE DEF S, at
  <2>. QED  BY <1>3, <1>4, <1>5, <1>6, FS_PigeonHole
<1>. QED  BY <1>2, <1>3, <1>6, <1>7

\* What is nested below a schema, and what is nested in that.
LEMMA NestedIsBelow ==
    ASSUME NEW n, NEW m \in Nested(base, n)
    PROVE  m \in NestedBelow(base, n)
BY DEF NestedBelow, Nested

LEMMA NestedBelowIsTransitive ==
    ASSUME NEW n, NEW m \in NestedBelow(base, n), NEW k \in Nested(base, m)
    PROVE  k \in NestedBelow(base, n)
<1>1. k \in Nodes
  BY DEF Nested
<1>2. ASSUME NEW S \in SUBSET Nodes,
             Nested(base, n) \subseteq S /\ (\A x \in S : Nested(base, x) \subseteq S)
      PROVE  k \in S
  <2>1. m \in S
    BY <1>2 DEF NestedBelow
  <2>. QED  BY <1>2, <2>1
<1>. QED  BY <1>1, <1>2 DEF NestedBelow

\* Every child of a frame is one step below it, over a $ref or to a nested schema.
Edge(f, edge) == edge.to \in Nodes /\ (~edge.ref => edge.to \in Nested(base, f.b))

LEMMA ChildrenAreBelow ==
    ASSUME NEW f, NEW g \in Children(f)
    PROVE  \E label, b, h : Edge(f, b) /\ h.to \in Nodes /\ g = Below(f, label, b, h)
<1> DEFINE b == base.schema[f.b]
           h == head.schema[f.h]
           arm == Arm(b, h)
           Result == \E label, x, y : Edge(f, x) /\ y.to \in Nodes /\ g = Below(f, label, x, y)
<1>1. \A merged, ho : merged \in BOOLEAN /\ g \in ObjectChildren(f, Side(base, f.b, merged), ho) => Result
  <2> SUFFICES ASSUME NEW merged \in BOOLEAN, NEW ho,
                      g \in ObjectChildren(f, Side(base, f.b, merged), ho)
               PROVE  Result
    OBVIOUS
  <2> DEFINE bo == Side(base, f.b, merged)
  <2>1. PICK p \in Common(bo, ho) : g = Below(f, Append(f.label, Property(p)), bo.props[p], ho.props[p])
    BY DEF ObjectChildren
  <2>2. p \in DOMAIN bo.props /\ bo.props[p].to \in Nodes /\ ho.props[p].to \in Nodes
    BY DEF Common
  <2>3. bo = b \/ bo = Merged(base, f.b)
    BY DEF Side
  <2>4. ~bo.props[p].ref => bo.props[p].to \in Nested(base, f.b)
    BY <2>2, <2>3 DEF Nested
  <2>. QED  BY <2>1, <2>2, <2>4 DEF Edge
<1>2. g \in VariantChildren(f, b, h) => Result
  <2> SUFFICES ASSUME g \in VariantChildren(f, b, h) PROVE Result
    OBVIOUS
  <2>1. PICK i \in DOMAIN b.members :
           /\ b.members[i].to \in Nodes /\ h.members[i].to \in Nodes
           /\ g = Below(f, Append(f.label, Position(i)), b.members[i], h.members[i])
    BY DEF VariantChildren
  <2>2. ~b.members[i].ref => b.members[i].to \in Nested(base, f.b)
    BY <2>1 DEF Nested
  <2>. QED  BY <2>1, <2>2 DEF Edge
<1>3. CASE arm \in {"object", "merge"}
  BY <1>1, <1>3 DEF Children
<1>4. CASE arm = "variants"
  BY <1>2, <1>4 DEF Children
<1>5. CASE arm = "array"
  <2>1. b.items.to \in Nodes /\ h.items.to \in Nodes /\ g = Below(f, f.label, b.items, h.items)
    BY <1>5 DEF Children
  <2>2. ~b.items.ref => b.items.to \in Nested(base, f.b)
    BY <2>1 DEF Nested
  <2>. QED  BY <2>1, <2>2 DEF Edge
<1>6. CASE arm \notin {"object", "merge", "variants", "array"}
  BY <1>6 DEF Children
<1>. QED  BY <1>3, <1>4, <1>5, <1>6

\* What a frame below another is.
LEMMA BelowShape ==
    ASSUME NEW f, FrameOK(f), NEW label, NEW b, NEW h, Edge(f, b), h.to \in Nodes,
           NEW g, g = Below(f, label, b, h)
    PROVE  /\ FrameOK(g)
           /\ g.b = b.to
           /\ g.copy = CopyBelow(f, b)
           /\ Len(g.ancestors) = Len(f.ancestors) + 1
           /\ \A i \in 1 .. Len(f.ancestors) : g.ancestors[i] = f.ancestors[i]
           /\ g.ancestors[Len(f.ancestors) + 1] = [b |-> f.b, copy |-> f.copy, h |-> f.h]
<1> DEFINE step == [b |-> f.b, copy |-> f.copy, h |-> f.h]
<1>1. /\ g.b = b.to
      /\ g.h = h.to
      /\ g.copy = CopyBelow(f, b)
      /\ g.request = f.request
      /\ g.ancestors = Append(f.ancestors, step)
  BY DEF Below, Frame
<1>2. step \in Callers
  BY DEF FrameOK, Callers
<1>3. f.ancestors \in Seq(Callers) /\ Len(f.ancestors) \in Nat
  BY DEF FrameOK
<1>4. g.ancestors \in Seq(Callers)
  BY <1>1, <1>2, <1>3
<1>5. CopyBelow(f, b) \in Nat
  BY <1>3 DEF CopyBelow, FrameOK
<1>6. /\ Len(g.ancestors) = Len(f.ancestors) + 1
      /\ \A i \in 1 .. Len(f.ancestors) : g.ancestors[i] = f.ancestors[i]
      /\ g.ancestors[Len(f.ancestors) + 1] = step
  BY <1>1, <1>2, <1>3
<1>7. FrameOK(g)
  BY <1>1, <1>4, <1>5 DEF FrameOK, Edge
<1>. QED  BY <1>1, <1>6, <1>7

\* Below a frame that the guard lets through, the path has roots.
LEMMA BelowPathOK ==
    ASSUME NEW f, FrameOK(f), PathOK(f), ~OnPath(f), Unfolds(base),
           NEW label, NEW b, NEW h, Edge(f, b), h.to \in Nodes,
           NEW g, g = Below(f, label, b, h)
    PROVE  PathOK(g)
<1> DEFINE p == f.ancestors
           q == g.ancestors
           n == Len(p)
<1>1. PICK roots \in Seq(Nodes) : RootsOK(f, roots)
  BY DEF PathOK
<1> DEFINE root == IF f.copy = 0 THEN f.b ELSE roots[n]
           more == Append(roots, root)
<1>2. /\ n \in Nat /\ Len(roots) = n /\ DOMAIN p = 1 .. n
      /\ f.b \in Nodes /\ f.copy \in Nat
  BY <1>1 DEF FrameOK, RootsOK
<1>3. f.copy # 0 => n > 0
  BY <1>1, <1>2 DEF RootsOK
<1>4. root \in Nodes
  BY <1>2, <1>3
<1>5. /\ more \in Seq(Nodes) /\ Len(more) = n + 1 /\ more[n + 1] = root
      /\ \A i \in 1 .. n : more[i] = roots[i]
  BY <1>2, <1>4
<1>6. /\ g.b = b.to
      /\ g.copy = CopyBelow(f, b)
      /\ Len(q) = n + 1
      /\ \A i \in 1 .. n : q[i] = p[i]
      /\ q[n + 1].b = f.b /\ q[n + 1].copy = f.copy
  <2>1. q[n + 1] = [b |-> f.b, copy |-> f.copy, h |-> f.h]
    BY BelowShape
  <2>. QED  BY <2>1, BelowShape
<1> HIDE DEF q, p, n, more, root
<1>7. \A i \in 1 .. n + 1 : i \in 1 .. n \/ i = n + 1
  BY <1>2
<1>8. \A i \in 1 .. n : p[i].b # f.b \/ p[i].copy # f.copy
  BY <1>2 DEF OnPath, p
<1>9. \A i \in 1 .. n : \E j \in 1 .. n : p[j].copy = 0 /\ p[j].b = roots[i]
  BY <1>1, <1>2 DEF RootsOK, p
<1>10. \A i, j \in 1 .. n : roots[i] = roots[j] /\ p[i].b = p[j].b => i = j
  BY <1>1, <1>2 DEF RootsOK, p
<1>11. f.copy # 0 =>
        \A i \in 1 .. n : roots[i] = roots[n] => f.b \in NestedBelow(base, p[i].b)
  BY <1>1, <1>2 DEF RootsOK, p
<1>12. \A i \in 1 .. n : f.copy = 0 => roots[i] # f.b
  BY <1>8, <1>9
<1>13. \A i \in 1 .. n : roots[i] = root => f.copy # 0 /\ f.b \in NestedBelow(base, p[i].b)
  BY <1>11, <1>12 DEF root
<1>14. \A i \in 1 .. n : roots[i] = root => p[i].b # f.b
  BY <1>2, <1>13 DEF Unfolds
<1>15. \A i \in 1 .. n + 1 : \E j \in 1 .. n + 1 : q[j].copy = 0 /\ q[j].b = more[i]
  <2>1. \A i \in 1 .. n : \E j \in 1 .. n + 1 : q[j].copy = 0 /\ q[j].b = roots[i]
    <3>1. \A j \in 1 .. n : j \in 1 .. n + 1 /\ q[j] = p[j]
      BY <1>2, <1>6
    <3>. QED  BY <1>9, <3>1
  <2>2. f.copy = 0 => q[n + 1].copy = 0 /\ q[n + 1].b = root
    BY <1>6 DEF root
  <2>3. f.copy # 0 => n \in 1 .. n /\ root = roots[n]
    BY <1>2, <1>3 DEF root
  <2>4. n + 1 \in 1 .. n + 1
    BY <1>2
  <2>. QED  BY <1>5, <1>7, <2>1, <2>2, <2>3, <2>4
<1>16. \A i, j \in 1 .. n + 1 : more[i] = more[j] /\ q[i].b = q[j].b => i = j
  BY <1>5, <1>6, <1>7, <1>10, <1>14
<1>17. ASSUME g.copy # 0, NEW i \in 1 .. n + 1, more[i] = more[n + 1]
       PROVE  g.b \in NestedBelow(base, q[i].b)
  <2>1. ~b.ref
    BY <1>6, <1>17 DEF CopyBelow
  <2>2. g.b \in Nested(base, f.b)
    BY <1>6, <2>1 DEF Edge
  <2>3. CASE i = n + 1
    BY <1>6, <2>2, <2>3, NestedIsBelow
  <2>4. CASE i \in 1 .. n
    BY <1>5, <1>6, <1>13, <1>17, <2>2, <2>4, NestedBelowIsTransitive
  <2>. QED  BY <1>7, <2>3, <2>4
<1>18. RootsOK(g, more)
  BY <1>2, <1>5, <1>6, <1>15, <1>16, <1>17 DEF RootsOK, q
<1>. QED  BY <1>5, <1>18 DEF PathOK

\* Visiting a frame leaves only good frames.
LEMMA ChildrenOK ==
    ASSUME NEW f, FrameOK(f), ~OnPath(f), NEW g \in Children(f)
    PROVE  FrameOK(g) /\ (Unfolds(base) /\ PathOK(f) => PathOK(g))
<1>1. PICK label, b, h : Edge(f, b) /\ h.to \in Nodes /\ g = Below(f, label, b, h)
  BY ChildrenAreBelow
<1>2. FrameOK(g)
  BY <1>1, BelowShape
<1>. QED  BY <1>1, <1>2, BelowPathOK

\* The first frames have the empty path.
LEMMA RootFramesOK == \A f \in RootFrames : FrameOK(f) /\ PathOK(f)
<1>1. \A k, label, b, h : \A request \in BOOLEAN :
        \A f \in RootFrame(k, label, request, b, h) : FrameOK(f) /\ PathOK(f)
  <2> SUFFICES ASSUME NEW k, NEW label, NEW b, NEW h, NEW request \in BOOLEAN,
                      NEW f \in RootFrame(k, label, request, b, h)
               PROVE  FrameOK(f) /\ PathOK(f)
    OBVIOUS
  <2>1. b.schema \in Nodes /\ h.schema \in Nodes /\ f = Frame(k, label, request, b.schema, 0, h.schema, <<>>)
    BY DEF RootFrame
  <2>2. /\ f.b = b.schema /\ f.h = h.schema /\ f.copy = 0 /\ f.request = request
        /\ f.ancestors = <<>>
    BY <2>1 DEF Frame
  <2>3. FrameOK(f)
    <3>1. f.ancestors \in Seq(Callers)
      BY <2>2
    <3>. QED  BY <2>1, <2>2, <3>1 DEF FrameOK
  <2>4. <<>> \in Seq(Nodes) /\ RootsOK(f, <<>>)
    BY <2>2 DEF RootsOK
  <2>. QED  BY <2>3, <2>4 DEF PathOK
<1>2. \A k, b, h : \A f \in BodyFrames(k, b, h) : FrameOK(f) /\ PathOK(f)
  BY <1>1 DEF BodyFrames
<1>3. \A k, b, h : \A f \in ResponseFrames(k, b, h) : FrameOK(f) /\ PathOK(f)
  BY <1>1 DEF ResponseFrames
<1>. QED  BY <1>2, <1>3 DEF RootFrames

\* What is reported of operations has a severity.
LEMMA OperationSeverities == \A c \in OperationChanges : c.severity \in Severities
<1>1. \A op, b, h : \A c \in ParamChanges(op, b, h) : c.severity \in Severities
  BY DEF ParamChanges, Change, Severities
<1>2. \A op, b, h : \A c \in BodyChanges(op, b, h) : c.severity \in Severities
  BY DEF BodyChanges, Change, Severities
<1>3. \A op, b, h : \A c \in ResponseChanges(op, b, h) : c.severity \in Severities
  BY DEF ResponseChanges, Change, Severities
<1>. QED  BY <1>1, <1>2, <1>3 DEF OperationChanges, Change, Severities

\* What is reported of a schema has a severity.
LEMMA FoundSeverities == \A f : \A c \in Found(f) : c.severity \in Severities
<1>1. \A f, name, b, h, upper : \A c \in BoundChange(f, name, b, h, upper) : c.severity \in Severities
  BY DEF BoundChange, Change, Severities
<1>2. \A f, b, h : \A c \in ScalarChanges(f, b, h) : c.severity \in Severities
  <2> SUFFICES ASSUME NEW f, NEW b, NEW h PROVE \A c \in ScalarChanges(f, b, h) : c.severity \in Severities
    OBVIOUS
  <2> DEFINE At(sort, severity, what) == Change(f.op, f.label, sort, severity, what)
             Null == IF b.nullable = h.nullable THEN {}
                     ELSE {At("NullabilityChanged", NullSeverity(f.request, b, h), "null")}
             Gone == {[At("EnumValueRemoved", "breaking", "enum") EXCEPT !.value = v]
                        : v \in EnumValues(b) \ EnumValues(h)}
             New  == {[At("EnumValueAdded", "risky", "enum") EXCEPT !.value = v]
                        : v \in EnumValues(h) \ EnumValues(b)}
             Form == IF FormatOf(b) = FormatOf(h) THEN {}
                     ELSE {At("ConstraintChanged", "breaking", "format")}
             Bound == IF b.kind = h.kind /\ b.kind \in Scalars
                      THEN BoundChange(f, "max", b.max, h.max, TRUE)
                           \cup BoundChange(f, "min", b.min, h.min, FALSE)
                      ELSE {}
  <2>1. \A c \in Null : c.severity \in Severities
    BY DEF NullSeverity, Change, Severities
  <2>2. \A c \in Gone : c.severity \in Severities
    BY DEF Change, Severities
  <2>3. \A c \in New : c.severity \in Severities
    BY DEF Change, Severities
  <2>4. \A c \in Form : c.severity \in Severities
    BY DEF Change, Severities
  <2>5. \A c \in Bound : c.severity \in Severities
    BY <1>1
  <2>6. ScalarChanges(f, b, h) = Null \cup Gone \cup New \cup Form \cup Bound
    BY DEF ScalarChanges
  <2>. HIDE DEF Null, Gone, New, Form, Bound
  <2>. QED  BY <2>1, <2>2, <2>3, <2>4, <2>5, <2>6
<1>3. \A f, b, h : \A c \in ObjectChanges(f, b, h) : c.severity \in Severities
  BY DEF ObjectChanges, RequiredSeverity, Change, Severities
<1>4. \A f, b, h : \A c \in VariantChanges(f, b, h) : c.severity \in Severities
  BY DEF VariantChanges, Change, Severities
<1>5. \A f, b, h : \A c \in {Change(f.op, f.label, "TypeChanged", "breaking", "kind")} : c.severity \in Severities
  BY DEF Change, Severities
<1>. QED  BY <1>2, <1>3, <1>4, <1>5 DEF Found

\* The paths of all frames have roots.
LEMMA IInvHolds == WalkSpec => []WalkInv
<1>1. WalkInit => WalkInv
  BY DEF WalkInit, WalkInv
<1>2. WalkInv /\ [WalkNext]_walkVars => WalkInv'
  <2> SUFFICES ASSUME WalkInv, [WalkNext]_walkVars PROVE WalkInv'
    OBVIOUS
  <2>0. base' = base => /\ Unfolds(base)' <=> Unfolds(base)
                       /\ \A f : PathOK(f)' <=> PathOK(f)
    <3>1. base' = base => \A n : Nested(base, n)' = Nested(base, n)
      BY DEF Nested, Merged, Objects
    <3>2. base' = base => \A n : NestedBelow(base, n)' = NestedBelow(base, n)
      BY <3>1 DEF NestedBelow
    <3>. QED  BY <3>2 DEF Unfolds, PathOK, RootsOK
  <2>1. CASE Start
    <3>1. \A k : OperationSkips(k) \subseteq {"range", "unresolved"}
      BY DEF OperationSkips
    <3>. QED  BY <2>0, <2>1, <3>1, RootFramesOK, OperationSeverities DEF WalkInv, Start, FrameOK
  <2>2. CASE Visit
    <3> DEFINE f == CHOOSE g \in todo : TRUE
    <3>1. f \in todo /\ base' = base /\ phase' = "walk"
      BY <2>2 DEF Visit
    <3>2. \A g \in todo' : g \in todo \/ (~OnPath(f) /\ g \in Children(f))
      BY <2>2 DEF Visit
    <3>3. FrameOK(f)
      BY <3>1 DEF WalkInv
    <3>4. \A g \in todo' : FrameOK(g)
      BY <3>2, <3>3, ChildrenOK DEF WalkInv
    <3>5. Unfolds(base) => \A g \in todo' : PathOK(g)
      BY <3>1, <3>2, <3>3, ChildrenOK DEF WalkInv
    <3>6. \A c \in reported' : c.severity \in Severities
      BY <2>2, FoundSeverities DEF WalkInv, Visit
    <3>7. Skips(f) \subseteq {"cycle", "untyped", "composed", "unresolved", "undeclared"}
      BY DEF Skips
    <3>8. skipped' \subseteq {"cycle", "untyped", "composed", "unresolved", "undeclared", "range"}
      BY <2>2, <3>7 DEF WalkInv, Visit
    <3>. QED  BY <2>0, <3>1, <3>4, <3>5, <3>6, <3>8 DEF WalkInv, FrameOK
  <2>3. CASE Overflow
    <3>1. PICK f \in todo : Len(f.ancestors) >= StackLimit
      BY <2>3 DEF Overflow
    <3>2. Unfolds(base) => Len(f.ancestors) <= DepthBound
      BY <3>1, PathIsShort DEF WalkInv
    <3>3. DepthBound \in Nat /\ Len(f.ancestors) \in Nat
      BY <3>1, NodesAssumption, FS_CardinalityType DEF WalkInv, FrameOK, DepthBound
    <3>4. DepthBound < StackLimit => ~Unfolds(base)
      BY <3>1, <3>2, <3>3, StackAssumption
    <3>. QED  BY <2>0, <2>3, <3>4 DEF WalkInv, Overflow, DepthBound
  <2>4. CASE UNCHANGED walkVars
    BY <2>0, <2>4 DEF WalkInv, walkVars, FrameOK, DepthBound
  <2>. QED  BY <2>1, <2>2, <2>3, <2>4 DEF WalkNext
<1>. QED  BY <1>1, <1>2, PTL DEF WalkSpec

\* diff_schema_properties is always called with two schema objects that resolved, and the
\* changes have one of the three severities.
THEOREM WalkTypesHold == WalkSpec => []WalkTypeOK
<1>1. WalkInv => WalkTypeOK
  BY DEF WalkInv, WalkTypeOK, FrameOK, Severities
<1>. QED  BY <1>1, IInvHolds, PTL

\* The guard on base pointers alone bounds the recursion, whatever the head refers to, if the
\* base unfolds to finite schemas.
THEOREM DepthIsBoundedHolds == WalkSpec => []DepthIsBounded
<1>1. WalkInv => DepthIsBounded
  <2> SUFFICES ASSUME WalkInv, Unfolds(base)
               PROVE  /\ \A f \in todo : ~(Len(f.ancestors) > DepthBound)
                      /\ ~(phase = "overflow" /\ DepthBound < StackLimit)
    BY DEF DepthIsBounded, DepthBound
  <2>1. ASSUME NEW f \in todo PROVE ~(Len(f.ancestors) > DepthBound)
    <3>1. Len(f.ancestors) <= DepthBound /\ Len(f.ancestors) \in Nat
      BY PathIsShort DEF WalkInv, FrameOK
    <3>2. DepthBound \in Nat
      BY NodesAssumption, FS_CardinalityType DEF DepthBound
    <3>. QED  BY <3>1, <3>2
  <2>. QED  BY <2>1 DEF WalkInv
<1>. QED  BY <1>1, IInvHolds, PTL

-----------------------------------------------------------------------------
(* A specification compared with itself *)

\* The frames of a specification compared with itself compare every schema with itself.
SelfInv ==
    /\ \E c \in Comparisons : base = c[1]
    /\ base = head => /\ reported = {}
                     /\ \A f \in todo : f.b = f.h

\* A status finds its own response.
LEMMA MatchesItself ==
    ASSUME NEW responses,
           \A i, j \in DOMAIN responses : responses[i].status = responses[j].status => i = j,
           NEW i \in DOMAIN responses
    PROVE  MatchingResponse(responses, responses[i].status) = responses[i]
<1> DEFINE same == {j \in DOMAIN responses : responses[j].status = responses[i].status}
<1>1. same = {i}
  OBVIOUS
<1>2. (CHOOSE j \in same : TRUE) = i
  BY <1>1
<1>. QED  BY <1>1, <1>2 DEF MatchingResponse

\* What SelfInv says of the responses of an operation.
LEMMA ResponsesAreAMap ==
    ASSUME SelfInv, NEW k \in DOMAIN base.ops
    PROVE  \A i \in DOMAIN base.ops[k].responses :
             /\ base.ops[k].responses[i] # Absent
             /\ MatchingResponse(base.ops[k].responses, base.ops[k].responses[i].status)
                  = base.ops[k].responses[i]
<1>1. \A i, j \in DOMAIN base.ops[k].responses :
        /\ base.ops[k].responses[i] # Absent
        /\ base.ops[k].responses[i].status = base.ops[k].responses[j].status => i = j
  BY ComparisonsAssumption DEF SelfInv
<1>. QED  BY <1>1, MatchesItself

\* No operation differs from itself.
LEMMA OperationsAgree ==
    ASSUME SelfInv, base = head
    PROVE  OperationChanges = {}
<1>1. \A op, b : ParamChanges(op, b, b) = {}
  BY DEF ParamChanges, IsNew
<1>2. \A op, b : BodyChanges(op, b, b) = {}
  BY DEF BodyChanges
<1>3. \A k \in DOMAIN base.ops : ResponseChanges(k, base.ops[k], base.ops[k]) = {}
  <2> SUFFICES ASSUME NEW k \in DOMAIN base.ops
               PROVE  ResponseChanges(k, base.ops[k], base.ops[k]) = {}
    OBVIOUS
  <2> DEFINE r == base.ops[k].responses
  <2>1. \A i \in Answers(base.ops[k]) : r[i] # Absent /\ MatchingResponse(r, r[i].status) = r[i]
    BY ResponsesAreAMap DEF Answers
  <2>. QED  BY <2>1 DEF ResponseChanges
<1>. QED  BY <1>1, <1>2, <1>3 DEF OperationChanges

\* A body is compared with itself, a response with its own.
LEMMA RootFramesAgree ==
    ASSUME SelfInv, base = head
    PROVE  \A f \in RootFrames : f.b = f.h
<1>1. \A k, label, request, b : \A f \in RootFrame(k, label, request, b, b) : f.b = f.h
  BY DEF RootFrame, Frame
<1>2. \A k, b : \A f \in BodyFrames(k, b, b) : f.b = f.h
  BY <1>1 DEF BodyFrames
<1>3. \A k, b : \A f \in ResponseFrames(k, b, b) : f.b = f.h
  BY <1>1 DEF ResponseFrames
<1>4. \A k \in DOMAIN base.ops : \A i \in Answers(base.ops[k]) :
        MatchingResponse(base.ops[k].responses, base.ops[k].responses[i].status)
          = base.ops[k].responses[i]
  BY ResponsesAreAMap DEF Answers
<1>. QED  BY <1>2, <1>3, <1>4 DEF RootFrames, Match

\* No schema differs from itself.
LEMMA SchemasAgree ==
    ASSUME base = head, NEW f, f.b = f.h
    PROVE  Found(f) = {}
<1>1. \A b : ScalarChanges(f, b, b) = {}
  BY DEF ScalarChanges, BoundChange
<1>2. \A o : ObjectChanges(f, o, o) = {}
  BY DEF ObjectChanges, Common, Retyped
<1>3. \A b : VariantChanges(f, b, b) = {}
  BY DEF VariantChanges
<1>4. \A b : Arm(b, b) # "kind"
  BY DEF Arm
<1>5. \A merged : Side(base, f.b, merged) = Side(head, f.h, merged)
  OBVIOUS
<1>. QED  BY <1>1, <1>2, <1>3, <1>4, <1>5 DEF Found

\* Below a schema compared with itself, too, a schema is compared with itself.
LEMMA ChildrenAgree ==
    ASSUME base = head, NEW f, f.b = f.h
    PROVE  \A g \in Children(f) : g.b = g.h
<1>1. \A o : \A g \in ObjectChildren(f, o, o) : g.b = g.h
  BY DEF ObjectChildren, Below, Frame
<1>2. \A b : \A g \in VariantChildren(f, b, b) : g.b = g.h
  BY DEF VariantChildren, Below, Frame
<1>3. \A label, n : Below(f, label, n, n).b = Below(f, label, n, n).h
  BY DEF Below, Frame
<1>4. \A merged : Side(base, f.b, merged) = Side(head, f.h, merged)
  OBVIOUS
<1>. QED  BY <1>1, <1>2, <1>3, <1>4 DEF Children

\* Comparing a specification with itself never pairs two different schemas.
LEMMA SelfInvHolds == WalkSpec => []SelfInv
<1>1. WalkInit => SelfInv
  BY DEF WalkInit, SelfInv
<1>2. SelfInv /\ [WalkNext]_walkVars => SelfInv'
  <2> SUFFICES ASSUME SelfInv, [WalkNext]_walkVars PROVE SelfInv'
    OBVIOUS
  <2>1. CASE Start
    BY <2>1, OperationsAgree, RootFramesAgree DEF SelfInv, Start
  <2>2. CASE Visit
    <3> DEFINE f == CHOOSE g \in todo : TRUE
    <3>1. base' = base /\ head' = head /\ f \in todo
      BY <2>2 DEF Visit
    <3>2. ASSUME base = head PROVE reported' = {} /\ \A g \in todo' : g.b = g.h
      <4>1. f.b = f.h /\ reported = {} /\ \A g \in todo : g.b = g.h
        BY <3>1, <3>2 DEF SelfInv
      <4>2. Found(f) = {} /\ \A g \in Children(f) : g.b = g.h
        BY <3>2, <4>1, SchemasAgree, ChildrenAgree
      <4>. QED  BY <2>2, <4>1, <4>2 DEF Visit
    <3>. QED  BY <3>1, <3>2 DEF SelfInv
  <2>3. CASE Overflow
    BY <2>3 DEF SelfInv, Overflow
  <2>4. CASE UNCHANGED walkVars
    BY <2>4 DEF SelfInv, walkVars
  <2>. QED  BY <2>1, <2>2, <2>3, <2>4 DEF WalkNext
<1>. QED  BY <1>1, <1>2, PTL DEF WalkSpec

\* A scan, a gate or a request that compares a specification with itself reports nothing.
THEOREM SelfDiffIsEmptyHolds == WalkSpec => []SelfDiffIsEmpty
<1>1. SelfInv => SelfDiffIsEmpty
  BY DEF SelfInv, SelfDiffIsEmpty
<1>. QED  BY <1>1, SelfInvHolds, PTL

\* The walk is bounded on every pair of graphs, and finds nothing in two equal ones.
THEOREM WalkIsSoundHolds == WalkSpec => []WalkIsSound
BY WalkTypesHold, DepthIsBoundedHolds, SelfDiffIsEmptyHolds, PTL DEF WalkIsSound

-----------------------------------------------------------------------------
(* Changes of type                                                         *)

\* A label, and one that leads through another.
IsPath(l) == \E S : l \in Seq(S)
Under(l, m) == Len(l) <= Len(m) /\ \A i \in 1 .. Len(l) : l[i] = m[i]

LEMMA AppendIsUnder ==
    ASSUME NEW l, IsPath(l), NEW x
    PROVE  /\ IsPath(Append(l, x)) /\ Under(l, Append(l, x)) /\ Len(Append(l, x)) = Len(l) + 1
           /\ Append(l, x)[Len(l) + 1] = x
           /\ l # <<>> => Append(l, x) # <<>> /\ Append(l, x)[1] = l[1]
<1>1. PICK S : l \in Seq(S)  BY DEF IsPath
<1>2. l \in Seq(S \cup {x}) /\ x \in S \cup {x}  BY <1>1
<1>3. Append(l, x) \in Seq(S \cup {x})  BY <1>2
<1>4. Len(l) \in Nat /\ Len(Append(l, x)) = Len(l) + 1  BY <1>2
<1>5. Append(l, x)[Len(l) + 1] = x /\ \A i \in 1 .. Len(l) : Append(l, x)[i] = l[i]  BY <1>2
<1>6. l # <<>> => Len(l) > 0  BY <1>2
<1>. QED  BY <1>3, <1>4, <1>5, <1>6 DEF IsPath, Under

LEMMA LenIsNat == \A l : IsPath(l) => Len(l) \in Nat
BY DEF IsPath

LEMMA UnderIsTransitive ==
    ASSUME NEW k, NEW l, NEW m, IsPath(k), IsPath(l), IsPath(m), Under(k, l), Under(l, m)
    PROVE  Under(k, m)
<1>1. Len(k) \in Nat /\ Len(l) \in Nat /\ Len(m) \in Nat  BY LenIsNat
<1>. QED  BY <1>1 DEF Under

\* Two labels that lead to one place lead through one another.
LEMMA UnderIsATree ==
    ASSUME NEW k, NEW l, NEW m, IsPath(k), IsPath(l), IsPath(m), Under(k, m), Under(l, m)
    PROVE  Under(k, l) \/ Under(l, k)
<1>1. Len(k) \in Nat /\ Len(l) \in Nat /\ Len(m) \in Nat  BY LenIsNat
<1>. QED  BY <1>1 DEF Under

\* One step further.
Step(l, x) == Append(l, x)

LEMMA StepIsUnder ==
    ASSUME NEW l, IsPath(l), l # <<>>, NEW m, m = l \/ \E x : m = Step(l, x)
    PROVE  IsPath(m) /\ Under(l, m) /\ m # <<>> /\ m[1] = l[1]
<1>1. CASE m = l
  <2>1. Under(l, l)  BY LenIsNat DEF Under
  <2>. QED  BY <1>1, <2>1
<1>2. ASSUME NEW x, m = Step(l, x) PROVE IsPath(m) /\ Under(l, m) /\ m # <<>> /\ m[1] = l[1]
  BY <1>2, AppendIsUnder DEF Step
<1>. QED  BY <1>1, <1>2

\* Two steps from one label lead apart.
LEMMA StepsDiffer ==
    ASSUME NEW l, IsPath(l), NEW x, NEW y, Under(Step(l, x), Step(l, y))
    PROVE  x = y
<1>1. Len(l) \in Nat  BY LenIsNat
<1>2. /\ Len(Step(l, x)) = Len(l) + 1 /\ Step(l, x)[Len(l) + 1] = x
      /\ Step(l, y)[Len(l) + 1] = y
  BY AppendIsUnder DEF Step
<1>. QED  BY <1>1, <1>2 DEF Under

LEMMA EqualSteps ==
    ASSUME NEW l, IsPath(l), NEW x, NEW y, Step(l, x) = Step(l, y)
    PROVE  x = y
<1>1. IsPath(Step(l, x))  BY AppendIsUnder DEF Step
<1>2. Under(Step(l, x), Step(l, y))  BY <1>1, LenIsNat DEF Under
<1>. QED  BY <1>2, StepsDiffer

\* The changes of type that a frame reports.
TypeChanges(f) == {c \in Found(f) : c.kind = "TypeChanged"}


BaseOf(f) == base.schema[f.b]
HeadOf(f) == head.schema[f.h]
ArmOf(f) == Arm(BaseOf(f), HeadOf(f))
BaseSide(f) == Side(base, f.b, ArmOf(f) = "merge")
HeadSide(f) == Side(head, f.h, ArmOf(f) = "merge")

LEMMA ScalarsHaveTheirType ==
    ASSUME NEW f, NEW b, NEW h
    PROVE  \A c \in ScalarChanges(f, b, h) : c.kind # "TypeChanged"
<1>1. \A n, x, y, u : \A c \in BoundChange(f, n, x, y, u) : c.kind # "TypeChanged"
  BY DEF BoundChange, Change
<1>2. ASSUME NEW c \in ScalarChanges(f, b, h)
      PROVE  \/ c = Change(f.op, f.label, "NullabilityChanged", NullSeverity(f.request, b, h), "null")
             \/ \E v : c = [Change(f.op, f.label, "EnumValueRemoved", "breaking", "enum") EXCEPT !.value = v]
             \/ \E v : c = [Change(f.op, f.label, "EnumValueAdded", "risky", "enum") EXCEPT !.value = v]
             \/ c = Change(f.op, f.label, "ConstraintChanged", "breaking", "format")
             \/ c \in BoundChange(f, "max", b.max, h.max, TRUE)
             \/ c \in BoundChange(f, "min", b.min, h.min, FALSE)
  BY Zenon DEF ScalarChanges
<1>3. \A k, v, w : \A n : /\ Change(f.op, f.label, k, v, w).kind = k
                          /\ [Change(f.op, f.label, k, v, w) EXCEPT !.value = n].kind = k
  BY DEF Change
<1>4. SUFFICES ASSUME NEW c \in ScalarChanges(f, b, h) PROVE c.kind # "TypeChanged"
  OBVIOUS
<1>5. CASE c = Change(f.op, f.label, "NullabilityChanged", NullSeverity(f.request, b, h), "null")
  BY <1>3, <1>5
<1>6. CASE \E v : c = [Change(f.op, f.label, "EnumValueRemoved", "breaking", "enum") EXCEPT !.value = v]
  BY <1>3, <1>6
<1>7. CASE \E v : c = [Change(f.op, f.label, "EnumValueAdded", "risky", "enum") EXCEPT !.value = v]
  BY <1>3, <1>7
<1>8. CASE c = Change(f.op, f.label, "ConstraintChanged", "breaking", "format")
  BY <1>3, <1>8
<1>9. CASE \/ c \in BoundChange(f, "max", b.max, h.max, TRUE)
           \/ c \in BoundChange(f, "min", b.min, h.min, FALSE)
  BY <1>1, <1>9
<1>. QED  BY <1>2, <1>5, <1>6, <1>7, <1>8, <1>9, Zenon

LEMMA ChangeFields ==
    \A op, l, k, v, w : /\ Change(op, l, k, v, w).op = op
                        /\ Change(op, l, k, v, w).label = l
                        /\ Change(op, l, k, v, w).kind = k
BY DEF Change

LEMMA BelowFields == \A f, l, b, h : Below(f, l, b, h).op = f.op /\ Below(f, l, b, h).label = l
BY DEF Below, Frame

\* The walker descends to the common properties whose type it has not reported.
LEMMA ObjectForms ==
    ASSUME NEW f, ArmOf(f) \in {"object", "merge"}
    PROVE  /\ \A c \in TypeChanges(f) : \E p : /\ Retyped(BaseSide(f), HeadSide(f), p)
                 /\ c = Change(f.op, Step(f.label, Property(p)), "TypeChanged", "breaking", "property")
           /\ \A g \in Children(f) : \E p : /\ ~ Retyped(BaseSide(f), HeadSide(f), p)
                 /\ g = Below(f, Step(f.label, Property(p)), BaseSide(f).props[p], HeadSide(f).props[p])
<1> DEFINE bo == BaseSide(f)
           ho == HeadSide(f)
<1>1. \A c \in TypeChanges(f) : c \in ObjectChanges(f, bo, ho) /\ c.kind = "TypeChanged"
  BY ScalarsHaveTheirType DEF TypeChanges, Found, ArmOf, BaseOf, HeadOf, BaseSide, HeadSide
<1>2. \A c \in ObjectChanges(f, bo, ho) : c.kind = "TypeChanged" =>
        \E p : /\ Retyped(bo, ho, p)
               /\ c = Change(f.op, Step(f.label, Property(p)), "TypeChanged", "breaking", "property")
  BY DEF ObjectChanges, Change, Step
<1>3. Children(f) = ObjectChildren(f, bo, ho)
  BY DEF Children, ArmOf, BaseOf, HeadOf, BaseSide, HeadSide
<1>4. \A g \in ObjectChildren(f, bo, ho) : \E p :
        /\ ~ Retyped(bo, ho, p)
        /\ g = Below(f, Step(f.label, Property(p)), bo.props[p], ho.props[p])
  BY DEF ObjectChildren, Descends, Step
<1>. QED  BY <1>1, <1>2, <1>3, <1>4

\* It compares variants at one position, and reports the positions of one side only.
LEMMA VariantForms ==
    ASSUME NEW f, ArmOf(f) = "variants"
    PROVE  LET B == DOMAIN BaseOf(f).members
               H == DOMAIN HeadOf(f).members
               Only(c, i, v) == c = Change(f.op, Step(f.label, Position(i)), "TypeChanged", v, "variant")
           IN  /\ \A c \in TypeChanges(f) : \E i : \/ i \in B \ H /\ Only(c, i, "breaking")
                                                   \/ i \in H \ B /\ Only(c, i, "risky")
               /\ \A g \in Children(f) : \E i \in B \cap H :
                    g = Below(f, Step(f.label, Position(i)), BaseOf(f).members[i], HeadOf(f).members[i])
<1> DEFINE b == BaseOf(f)
           h == HeadOf(f)
<1>1. \A c \in TypeChanges(f) : c \in VariantChanges(f, b, h)
  BY ScalarsHaveTheirType DEF TypeChanges, Found, ArmOf, BaseOf, HeadOf
<1>2. Children(f) = VariantChildren(f, b, h)  BY DEF Children, ArmOf, BaseOf, HeadOf
<1>3. \A c \in VariantChanges(f, b, h) : \E i :
        \/ /\ i \in DOMAIN b.members \ DOMAIN h.members
           /\ c = Change(f.op, Step(f.label, Position(i)), "TypeChanged", "breaking", "variant")
        \/ /\ i \in DOMAIN h.members \ DOMAIN b.members
           /\ c = Change(f.op, Step(f.label, Position(i)), "TypeChanged", "risky", "variant")
  BY DEF VariantChanges, Step
<1>4. \A g \in VariantChildren(f, b, h) : \E i \in DOMAIN b.members \cap DOMAIN h.members :
        g = Below(f, Step(f.label, Position(i)), b.members[i], h.members[i])
  BY DEF VariantChildren, Step
<1>. QED  BY <1>1, <1>2, <1>3, <1>4

\* A change of the schema's own type has nothing below it.
LEMMA KindForms ==
    ASSUME NEW f, ArmOf(f) = "kind"
    PROVE  /\ \A c \in TypeChanges(f) : c = Change(f.op, f.label, "TypeChanged", "breaking", "kind")
           /\ Children(f) = {}
<1>1. Children(f) = {}  BY DEF Children, ArmOf, BaseOf, HeadOf
<1>2. \A c \in TypeChanges(f) : c = Change(f.op, f.label, "TypeChanged", "breaking", "kind")
  BY ScalarsHaveTheirType DEF TypeChanges, Found, ArmOf, BaseOf, HeadOf
<1>. QED  BY <1>1, <1>2

\* The items of an array have its label, and an array reports no change of type.
LEMMA OtherForms ==
    ASSUME NEW f, ArmOf(f) \notin {"object", "merge", "variants", "kind"}
    PROVE  /\ TypeChanges(f) = {}
           /\ \A g \in Children(f) : g = Below(f, f.label, BaseOf(f).items, HeadOf(f).items)
<1>1. TypeChanges(f) = {}
  BY ScalarsHaveTheirType DEF TypeChanges, Found, ArmOf, BaseOf, HeadOf
<1>2. \A g \in Children(f) : g = Below(f, f.label, BaseOf(f).items, HeadOf(f).items)
  BY DEF Children, ArmOf, BaseOf, HeadOf
<1>. QED  BY <1>1, <1>2

LEMMA ChildLabels ==
    ASSUME NEW f, IsPath(f.label), f.label # <<>>, NEW g \in Children(f)
    PROVE  /\ g.op = f.op /\ IsPath(g.label) /\ Under(f.label, g.label)
           /\ g.label # <<>> /\ g.label[1] = f.label[1]
<1>1. \E l, x, y : g = Below(f, l, x, y) /\ (l = f.label \/ \E z : l = Step(f.label, z))
  <2>1. CASE ArmOf(f) \in {"object", "merge"}  BY <2>1, ObjectForms
  <2>2. CASE ArmOf(f) = "variants"  BY <2>2, VariantForms
  <2>3. CASE ArmOf(f) = "kind"  BY <2>3, KindForms
  <2>4. CASE ArmOf(f) \notin {"object", "merge", "variants", "kind"}  BY <2>4, OtherForms
  <2>. QED  BY <2>1, <2>2, <2>3, <2>4
<1>2. g.op = f.op /\ (g.label = f.label \/ \E z : g.label = Step(f.label, z))
  BY <1>1, BelowFields
<1>. QED  BY <1>2, StepIsUnder

LEMMA TypeChangeLabels ==
    ASSUME NEW f, IsPath(f.label), f.label # <<>>, NEW c \in TypeChanges(f)
    PROVE  /\ c.op = f.op /\ IsPath(c.label) /\ Under(f.label, c.label)
           /\ c.label # <<>> /\ c.label[1] = f.label[1]
<1>1. \E l, v, w : c = Change(f.op, l, "TypeChanged", v, w) /\ (l = f.label \/ \E z : l = Step(f.label, z))
  <2>1. CASE ArmOf(f) \in {"object", "merge"}  BY <2>1, ObjectForms
  <2>2. CASE ArmOf(f) = "variants"  BY <2>2, VariantForms
  <2>3. CASE ArmOf(f) = "kind"  BY <2>3, KindForms
  <2>4. CASE ArmOf(f) \notin {"object", "merge", "variants", "kind"}  BY <2>4, OtherForms
  <2>. QED  BY <2>1, <2>2, <2>3, <2>4
<1>2. c.op = f.op /\ (c.label = f.label \/ \E z : c.label = Step(f.label, z))
  BY <1>1, ChangeFields
<1>. QED  BY <1>2, StepIsUnder

\* One frame per label below a frame, and none at the label of a change of type.
LEMMA ChildrenAreApart ==
    ASSUME NEW f, IsPath(f.label), NEW g \in Children(f)
    PROVE  /\ \A k \in Children(f) : Under(g.label, k.label) => g = k
           /\ \A c \in TypeChanges(f) : ~ Under(g.label, c.label)
<1>1. \A p, q : Property(p) = Property(q) => p = q  BY DEF Property
<1>2. \A i, j : Position(i) = Position(j) => i = j  BY DEF Position
<1>3. CASE ArmOf(f) \in {"object", "merge"}
  <2>1. PICK p : /\ ~ Retyped(BaseSide(f), HeadSide(f), p)
                 /\ g = Below(f, Step(f.label, Property(p)), BaseSide(f).props[p], HeadSide(f).props[p])
    BY <1>3, ObjectForms
  <2>2. g.label = Step(f.label, Property(p))  BY <2>1, BelowFields
  <2>3. ASSUME NEW k \in Children(f), Under(g.label, k.label) PROVE g = k
    <3>1. PICK q : k = Below(f, Step(f.label, Property(q)), BaseSide(f).props[q], HeadSide(f).props[q])
      BY <1>3, ObjectForms
    <3>2. k.label = Step(f.label, Property(q))  BY <3>1, BelowFields
    <3>3. p = q  BY <1>1, <2>2, <2>3, <3>2, StepsDiffer
    <3>. QED  BY <2>1, <3>1, <3>3
  <2>4. ASSUME NEW c \in TypeChanges(f), Under(g.label, c.label) PROVE FALSE
    <3>1. PICK q : /\ Retyped(BaseSide(f), HeadSide(f), q)
                   /\ c = Change(f.op, Step(f.label, Property(q)), "TypeChanged", "breaking", "property")
      BY <1>3, ObjectForms
    <3>2. c.label = Step(f.label, Property(q))  BY <3>1, ChangeFields
    <3>3. p = q  BY <1>1, <2>2, <2>4, <3>2, StepsDiffer
    <3>. QED  BY <2>1, <3>1, <3>3
  <2>. QED  BY <2>3, <2>4
<1>4. CASE ArmOf(f) = "variants"
  <2> DEFINE B == DOMAIN BaseOf(f).members
             H == DOMAIN HeadOf(f).members
  <2>1. PICK i \in B \cap H :
           g = Below(f, Step(f.label, Position(i)), BaseOf(f).members[i], HeadOf(f).members[i])
    BY <1>4, VariantForms
  <2>2. g.label = Step(f.label, Position(i))  BY <2>1, BelowFields
  <2>3. ASSUME NEW k \in Children(f), Under(g.label, k.label) PROVE g = k
    <3>1. PICK j \in B \cap H :
             k = Below(f, Step(f.label, Position(j)), BaseOf(f).members[j], HeadOf(f).members[j])
      BY <1>4, VariantForms
    <3>2. k.label = Step(f.label, Position(j))  BY <3>1, BelowFields
    <3>3. i = j  BY <1>2, <2>2, <2>3, <3>2, StepsDiffer
    <3>. QED  BY <2>1, <3>1, <3>3
  <2>4. ASSUME NEW c \in TypeChanges(f), Under(g.label, c.label) PROVE FALSE
    <3>1. PICK j : /\ j \notin B \cap H
                   /\ \E v : c = Change(f.op, Step(f.label, Position(j)), "TypeChanged", v, "variant")
      BY <1>4, VariantForms
    <3>2. c.label = Step(f.label, Position(j))  BY <3>1, ChangeFields
    <3>3. i = j  BY <1>2, <2>2, <2>4, <3>2, StepsDiffer
    <3>. QED  BY <3>1, <3>3
  <2>. QED  BY <2>3, <2>4
<1>5. CASE ArmOf(f) = "kind"  BY <1>5, KindForms
<1>6. CASE ArmOf(f) \notin {"object", "merge", "variants", "kind"}  BY <1>6, OtherForms
<1>. QED  BY <1>3, <1>4, <1>5, <1>6

LEMMA TypeChangesDiffer ==
    ASSUME NEW f, IsPath(f.label), NEW c \in TypeChanges(f), NEW d \in TypeChanges(f),
           c.label = d.label
    PROVE  c = d
<1>1. CASE ArmOf(f) \in {"object", "merge"}
  <2>1. \A k \in TypeChanges(f) : \E l :
           k = Change(f.op, l, "TypeChanged", "breaking", "property")
    BY <1>1, ObjectForms
  <2>. QED  BY <2>1, ChangeFields
<1>2. CASE ArmOf(f) = "variants"
  <2> DEFINE B == DOMAIN BaseOf(f).members
             H == DOMAIN HeadOf(f).members
             Is(k, i) ==
               \/ i \in B \ H /\ k = Change(f.op, Step(f.label, Position(i)), "TypeChanged", "breaking", "variant")
               \/ i \in H \ B /\ k = Change(f.op, Step(f.label, Position(i)), "TypeChanged", "risky", "variant")
  <2>1. PICK i : Is(c, i)  BY <1>2, VariantForms
  <2>2. PICK j : Is(d, j)  BY <1>2, VariantForms
  <2>3. c.label = Step(f.label, Position(i)) /\ d.label = Step(f.label, Position(j))
    BY <2>1, <2>2, ChangeFields
  <2>4. i = j  BY <2>3, EqualSteps DEF Position
  <2>. QED  BY <2>1, <2>2, <2>4
<1>3. CASE ArmOf(f) = "kind"  BY <1>3, KindForms
<1>4. CASE ArmOf(f) \notin {"object", "merge", "variants", "kind"}  BY <1>4, OtherForms
<1>. QED  BY <1>1, <1>2, <1>3, <1>4

\* While a label is one place: the frames to run lead to different places, none of them to
\* or through the place of a change of type that is reported.
KindInv ==
    /\ \A f \in todo : IsPath(f.label) /\ f.label # <<>>
    /\ \A c \in reported : c.kind = "TypeChanged" => IsPath(c.label) /\ c.label # <<>>
    /\ \A f, g \in todo :
         f.op = g.op /\ OnePlace(f.op, f.label) /\ Under(f.label, g.label) => f = g
    /\ \A f \in todo, c \in reported :
         c.kind = "TypeChanged" /\ c.op = f.op /\ OnePlace(f.op, f.label) => ~ Under(f.label, c.label)
    /\ KindChangeReportedOnce

LEMMA UnderHasTheRoot ==
    ASSUME NEW l, NEW m, IsPath(l), l # <<>>, Under(l, m), NEW op
    PROVE  m[1] = l[1] /\ (OnePlace(op, l) <=> OnePlace(op, m))
<1>1. Len(l) \in Nat /\ Len(l) >= 1  BY DEF IsPath
<1>2. m[1] = l[1]  BY <1>1 DEF Under
<1>. QED  BY <1>2 DEF OnePlace

\* A visit leaves one frame per place, and none where a change of type is reported.
LEMMA VisitKeepsKinds ==
    ASSUME KindInv, Visit
    PROVE  KindInv'
<1>1. PICK f \in todo :
         /\ reported' = IF OnPath(f) THEN reported ELSE reported \cup Found(f)
         /\ todo' = (todo \ {f}) \cup (IF OnPath(f) THEN {} ELSE Children(f))
  BY DEF Visit
<1>2. \A op, l : OnePlace(op, l)' <=> OnePlace(op, l)  BY DEF Visit, OnePlace, Answers
<1>3. IsPath(f.label) /\ f.label # <<>>  BY <1>1 DEF KindInv
<1>4. CASE OnPath(f)
  <2>1. reported' = reported /\ todo' \subseteq todo  BY <1>1, <1>4
  <2>. QED  BY <1>2, <2>1 DEF KindInv, KindChangeReportedOnce
<1>5. CASE ~ OnPath(f)
  <2>1. reported' = reported \cup Found(f) /\ todo' = (todo \ {f}) \cup Children(f)
    BY <1>1, <1>5
  <2>2. \A g \in Children(f) : /\ g.op = f.op /\ IsPath(g.label) /\ Under(f.label, g.label)
                               /\ g.label # <<>>
    BY <1>3, ChildLabels
  <2>3. \A c \in TypeChanges(f) : /\ c.op = f.op /\ IsPath(c.label) /\ Under(f.label, c.label)
                                  /\ c.label # <<>>
    BY <1>3, TypeChangeLabels
  <2>4. \A c \in reported' : c.kind = "TypeChanged" => c \in reported \/ c \in TypeChanges(f)
    BY <2>1 DEF TypeChanges
  <2>5. \A g \in todo' : (g \in todo /\ g # f) \/ g \in Children(f)  BY <2>1
  <2>6. \A g \in todo' : IsPath(g.label) /\ g.label # <<>>
    BY <2>2, <2>5 DEF KindInv
  <2>7. \A c \in reported' : c.kind = "TypeChanged" => IsPath(c.label) /\ c.label # <<>>
    BY <2>3, <2>4 DEF KindInv
  \* What is in the place of another frame is not below f.
  <2>8. ASSUME NEW k \in todo, k # f, k.op = f.op, NEW m, IsPath(m), Under(f.label, m),
               Under(k.label, m), OnePlace(f.op, m)
        PROVE  FALSE
    <3>1. IsPath(k.label) /\ k.label # <<>>  BY <2>8 DEF KindInv
    <3>2. OnePlace(f.op, f.label) /\ OnePlace(f.op, k.label)
      BY <1>3, <2>8, <3>1, UnderHasTheRoot
    <3>3. Under(k.label, f.label) \/ Under(f.label, k.label)
      BY <1>3, <2>8, <3>1, UnderIsATree
    <3>. QED  BY <1>1, <2>8, <3>2, <3>3 DEF KindInv
  <2>9. ASSUME NEW g \in todo', NEW k \in todo', g.op = k.op, OnePlace(g.op, g.label),
               Under(g.label, k.label)
        PROVE  g = k
    <3>1. /\ IsPath(g.label) /\ g.label # <<>> /\ IsPath(k.label)
          /\ OnePlace(k.op, k.label)
      BY <2>6, <2>9, UnderHasTheRoot
    <3>2. CASE g \in todo /\ k \in todo  BY <2>9, <3>2 DEF KindInv
    <3>3. CASE g \in Children(f) /\ k \in Children(f)
      BY <1>3, <2>9, <3>3, ChildrenAreApart
    <3>4. CASE g \in todo /\ g # f /\ k \in Children(f)
      BY <2>2, <2>8, <2>9, <3>1, <3>4
    <3>5. CASE g \in Children(f) /\ k \in todo /\ k # f
      <4>1. Under(f.label, k.label)
        BY <1>3, <2>2, <2>9, <3>1, <3>5, UnderIsTransitive
      <4>2. Under(k.label, k.label)  BY <3>1, LenIsNat DEF Under
      <4>. QED  BY <2>2, <2>8, <2>9, <3>1, <3>5, <4>1, <4>2
    <3>. QED  BY <2>5, <3>2, <3>3, <3>4, <3>5
  <2>10. ASSUME NEW g \in todo', NEW c \in reported', c.kind = "TypeChanged", c.op = g.op,
                OnePlace(g.op, g.label), Under(g.label, c.label)
         PROVE  FALSE
    <3>1. /\ IsPath(g.label) /\ g.label # <<>> /\ IsPath(c.label)
          /\ OnePlace(g.op, c.label)
      BY <2>6, <2>7, <2>10, UnderHasTheRoot
    <3>2. CASE g \in todo /\ c \in reported  BY <2>10, <3>2 DEF KindInv
    <3>3. CASE g \in Children(f) /\ c \in TypeChanges(f)
      BY <1>3, <2>10, <3>3, ChildrenAreApart
    <3>4. CASE g \in todo /\ g # f /\ c \in TypeChanges(f)
      BY <2>3, <2>8, <2>10, <3>1, <3>4
    <3>5. CASE g \in Children(f) /\ c \in reported
      <4>1. Under(f.label, c.label)
        BY <1>3, <2>2, <2>10, <3>1, <3>5, UnderIsTransitive
      <4>2. OnePlace(f.op, f.label) /\ c.op = f.op
        BY <1>3, <2>2, <2>10, <3>1, <3>5, <4>1, UnderHasTheRoot
      <4>. QED  BY <1>1, <2>10, <3>5, <4>1, <4>2 DEF KindInv
    <3>. QED  BY <2>4, <2>5, <2>10, <3>2, <3>3, <3>4, <3>5
  <2>11. ASSUME NEW c \in reported', NEW d \in reported', c.kind = "TypeChanged",
                d.kind = "TypeChanged", c.op = d.op, c.label = d.label, OnePlace(c.op, c.label)
         PROVE  c = d
    <3>1. \A x \in TypeChanges(f), y \in reported :
            ~ (y.kind = "TypeChanged" /\ x.op = y.op /\ x.label = y.label /\ OnePlace(x.op, x.label))
      BY <1>1, <1>3, <2>3, UnderHasTheRoot DEF KindInv
    <3>2. CASE c \in reported /\ d \in reported
      BY <2>11, <3>2 DEF KindInv, KindChangeReportedOnce
    <3>3. CASE c \in TypeChanges(f) /\ d \in TypeChanges(f)
      BY <1>3, <2>11, <3>3, TypeChangesDiffer
    <3>. QED  BY <2>4, <2>11, <3>1, <3>2, <3>3
  <2>. QED  BY <1>2, <2>6, <2>7, <2>9, <2>10, <2>11 DEF KindInv, KindChangeReportedOnce
<1>. QED  BY <1>4, <1>5

\* Labels of roots, and of parameters and statuses.
Root(a) == <<a>>
Place(a, n) == <<a, n>>

LEMMA RootsArePaths ==
    ASSUME NEW a, NEW n
    PROVE  /\ IsPath(Root(a)) /\ Root(a) # <<>> /\ Root(a)[1] = a
           /\ IsPath(Place(a, n)) /\ Place(a, n) # <<>> /\ Place(a, n)[1] = a
<1>1. <<a>> \in Seq({a}) /\ <<a, n>> \in Seq({a, n})  OBVIOUS
<1>. QED  BY <1>1 DEF IsPath, Root, Place

\* The changes of type of an operation itself.
LEMMA OperationTypeChanges ==
    ASSUME NEW c \in OperationChanges, c.kind = "TypeChanged"
    PROVE  \/ \E n : c.label = Place("param", n)
           \/ \E k \in DOMAIN base.ops \cap DOMAIN head.ops :
                /\ c = Change(k, Root("request_body"), "TypeChanged", "breaking", "media")
                /\ ~ head.ops[k].body.json
           \/ \E k, s : c = Change(k, Place("status", s), "TypeChanged", "breaking", "media")
<1>1. \A k, v, w, x, y : Change(k, <<>>, v, w, x).kind = v  BY DEF Change
<1>2. PICK k \in DOMAIN base.ops \cap DOMAIN head.ops :
        \/ c \in ParamChanges(k, base.ops[k], head.ops[k])
        \/ c \in BodyChanges(k, base.ops[k].body, head.ops[k].body)
        \/ c \in ResponseChanges(k, base.ops[k], head.ops[k])
  BY <1>1 DEF OperationChanges
<1>3. CASE c \in ParamChanges(k, base.ops[k], head.ops[k])
  <2>1. \A b, h : \A d \in ParamChanges(k, b, h) : \E n : d.label = Place("param", n)
    BY DEF ParamChanges, Change, Place
  <2>. QED  BY <1>3, <2>1
<1>4. CASE c \in BodyChanges(k, base.ops[k].body, head.ops[k].body)
  BY <1>4 DEF BodyChanges, Change, Root
<1>5. CASE c \in ResponseChanges(k, base.ops[k], head.ops[k])
  <2>1. \E s : \/ c = Change(k, Place("status", s), "ResponseRemoved", "breaking", "response")
               \/ c = Change(k, Place("status", s), "TypeChanged", "breaking", "media")
    BY <1>5, Zenon DEF ResponseChanges, Place
  <2>. QED  BY <2>1, ChangeFields
<1>. QED  BY <1>2, <1>3, <1>4, <1>5

\* The first frames: one for a body, one for each answer that is matched.
LEMMA RootFrameForms ==
    ASSUME NEW f \in RootFrames
    PROVE  \E k \in DOMAIN base.ops \cap DOMAIN head.ops :
             /\ f.op = k
             /\ \/ /\ f.label = Root("request_body")
                   /\ head.ops[k].body.json
                   /\ BodyFrames(k, base.ops[k].body, head.ops[k].body) = {f}
                \/ \E i \in Answers(base.ops[k]) :
                     /\ f.label = Root("response")
                     /\ ResponseFrames(k, base.ops[k].responses[i], Match(k, i)) = {f}
<1>1. PICK k \in DOMAIN base.ops \cap DOMAIN head.ops :
        \/ f \in BodyFrames(k, base.ops[k].body, head.ops[k].body)
        \/ \E i \in Answers(base.ops[k]) : f \in ResponseFrames(k, base.ops[k].responses[i], Match(k, i))
  BY DEF RootFrames
<1>2. CASE f \in BodyFrames(k, base.ops[k].body, head.ops[k].body)
  <2>1. BodyFrames(k, base.ops[k].body, head.ops[k].body)
          = RootFrame(k, Root("request_body"), TRUE, base.ops[k].body, head.ops[k].body)
    BY <1>2 DEF BodyFrames, Root
  <2>2. f \in RootFrame(k, Root("request_body"), TRUE, base.ops[k].body, head.ops[k].body)
    BY <1>2, <2>1
  <2>3. f.op = k /\ f.label = Root("request_body") /\ head.ops[k].body.json
    BY <2>2 DEF RootFrame, Frame
  <2>4. RootFrame(k, Root("request_body"), TRUE, base.ops[k].body, head.ops[k].body) = {f}
    BY <2>2 DEF RootFrame, Frame
  <2>. QED  BY <2>1, <2>3, <2>4
<1>3. ASSUME NEW i \in Answers(base.ops[k]), f \in ResponseFrames(k, base.ops[k].responses[i], Match(k, i))
      PROVE  /\ f.op = k /\ f.label = Root("response")
             /\ ResponseFrames(k, base.ops[k].responses[i], Match(k, i)) = {f}
  <2>1. ResponseFrames(k, base.ops[k].responses[i], Match(k, i))
          = RootFrame(k, Root("response"), FALSE, base.ops[k].responses[i], Match(k, i))
    BY <1>3 DEF ResponseFrames, Root
  <2>2. f \in RootFrame(k, Root("response"), FALSE, base.ops[k].responses[i], Match(k, i))
    BY <1>3, <2>1
  <2>3. f.op = k /\ f.label = Root("response")  BY <2>2 DEF RootFrame, Frame
  <2>4. RootFrame(k, Root("response"), FALSE, base.ops[k].responses[i], Match(k, i)) = {f}
    BY <2>2 DEF RootFrame, Frame
  <2>. QED  BY <2>1, <2>3, <2>4
<1>. QED  BY <1>1, <1>2, <1>3

LEMMA StartKeepsKinds ==
    ASSUME Start
    PROVE  KindInv'
<1>1. reported' = OperationChanges /\ todo' = RootFrames  BY DEF Start
<1>2. \A op, l : OnePlace(op, l)' <=> OnePlace(op, l)  BY DEF Start, OnePlace, Answers
<1>3. \A f \in todo' : IsPath(f.label) /\ f.label # <<>>
  BY <1>1, RootFrameForms, RootsArePaths
<1>4. \A f \in todo' : f.label = Root("request_body") \/ f.label = Root("response")
  BY <1>1, RootFrameForms
<1>5. Root("request_body")[1] = "request_body" /\ Root("response")[1] = "response"
  BY RootsArePaths
<1>6. \A c \in reported' : c.kind = "TypeChanged" => IsPath(c.label) /\ c.label # <<>>
  BY <1>1, RootsArePaths, OperationTypeChanges, ChangeFields
<1>7. ASSUME NEW f \in todo', NEW g \in todo', f.op = g.op, OnePlace(f.op, f.label),
             Under(f.label, g.label)
      PROVE  f = g
  <2>1. f.label[1] = g.label[1]  BY <1>3, <1>7, UnderHasTheRoot
  <2>2. CASE f.label = Root("request_body")
    <3>1. g.label # Root("response")  BY <1>5, <2>1, <2>2
    <3>2. f.label # Root("response")  BY <1>5, <2>2
    <3>. QED  BY <1>1, <1>7, <3>1, <3>2, RootFrameForms
  <2>3. CASE f.label = Root("response")
    <3>1. \A i, j \in Answers(base.ops[f.op]) : i = j  BY <1>5, <1>7, <2>3 DEF OnePlace
    <3>2. g.label # Root("request_body") /\ f.label # Root("request_body")  BY <1>5, <2>1, <2>3
    <3>. QED  BY <1>1, <1>7, <3>1, <3>2, RootFrameForms
  <2>. QED  BY <1>4, <2>2, <2>3
<1>8. ASSUME NEW f \in todo', NEW c \in reported', c.kind = "TypeChanged", c.op = f.op,
             Under(f.label, c.label)
      PROVE  FALSE
  <2>1. f.label[1] = c.label[1]  BY <1>3, <1>8, UnderHasTheRoot
  <2>2. f.label[1] \in {"request_body", "response"}  BY <1>4, <1>5
  <2>3. ~ \E n : c.label = Place("param", n)  BY <2>1, <2>2, RootsArePaths
  <2>4. ~ \E k, s : c = Change(k, Place("status", s), "TypeChanged", "breaking", "media")
    BY <2>1, <2>2, RootsArePaths, ChangeFields
  <2>5. PICK k \in DOMAIN base.ops \cap DOMAIN head.ops :
           /\ c = Change(k, Root("request_body"), "TypeChanged", "breaking", "media")
           /\ ~ head.ops[k].body.json
    BY <1>1, <1>8, <2>3, <2>4, OperationTypeChanges
  <2>6. c.op = k /\ c.label = Root("request_body")  BY <2>5, ChangeFields
  <2>7. f.op = k /\ f.label # Root("response")  BY <1>5, <1>8, <2>1, <2>6
  <2>. QED  BY <1>1, <2>5, <2>7, RootFrameForms
<1>9. ASSUME NEW c \in reported', NEW d \in reported', c.kind = "TypeChanged",
             d.kind = "TypeChanged", c.op = d.op, c.label = d.label, OnePlace(c.op, c.label)
      PROVE  c = d
  <2>1. ~ \E n : c.label = Place("param", n)  BY <1>9, RootsArePaths DEF OnePlace
  <2>2. \E k, l : c = Change(k, l, "TypeChanged", "breaking", "media")
    BY <1>1, <1>9, <2>1, OperationTypeChanges
  <2>3. \E k, l : d = Change(k, l, "TypeChanged", "breaking", "media")
    BY <1>1, <1>9, <2>1, OperationTypeChanges
  <2>. QED  BY <1>9, <2>2, <2>3, ChangeFields
<1>. QED  BY <1>2, <1>3, <1>6, <1>7, <1>8, <1>9 DEF KindInv, KindChangeReportedOnce

LEMMA KindInvHolds == WalkSpec => []KindInv
<1>1. WalkInit => KindInv  BY DEF WalkInit, KindInv, KindChangeReportedOnce
<1>2. ASSUME KindInv, UNCHANGED walkVars PROVE KindInv'
  <2>1. UNCHANGED <<base, todo, reported>>  BY <1>2 DEF walkVars
  <2>2. \A op, l : OnePlace(op, l)' <=> OnePlace(op, l)  BY <2>1 DEF OnePlace, Answers
  <2>3. KindChangeReportedOnce'  BY <1>2, <2>1, <2>2 DEF KindInv, KindChangeReportedOnce
  <2>. QED  BY <1>2, <2>1, <2>2, <2>3 DEF KindInv
<1>3. KindInv /\ Overflow => KindInv'
  BY DEF Overflow, KindInv, KindChangeReportedOnce
<1>4. KindInv /\ [WalkNext]_walkVars => KindInv'
  BY <1>2, <1>3, StartKeepsKinds, VisitKeepsKinds DEF WalkNext
<1>. QED  BY <1>1, <1>4, PTL DEF WalkSpec

(* For any two specifications: a change of type at one place is reported as *)
(* one change, although the property that has the schema, the position of a *)
(* variant and the schema itself all look for it.                           *)
THEOREM KindChangeReportedOnceHolds == WalkSpec => []KindChangeReportedOnce
<1>1. KindInv => KindChangeReportedOnce  BY DEF KindInv
<1>. QED  BY <1>1, KindInvHolds, PTL
=============================================================================
