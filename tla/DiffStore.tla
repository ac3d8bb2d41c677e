------------------------------ MODULE DiffStore ------------------------------
(***************************************************************************)
(* How radar-api stores diffs (radar-api/src/diffs.rs).  create_diff,      *)
(* compare_specs and batch_compare write the two spec versions of a        *)
(* transition, look for a stored diff and otherwise store the diff and its *)
(* changes in one transaction; then the webhooks are told.  get_diff mints *)
(* the share token.  Requests run concurrently, may fail at every SQL      *)
(* statement, and may be dropped by their client at every await.           *)
(*                                                                         *)
(* A version id is a hash of what the version contains, and the changes of *)
(* a diff follow from its two versions (create_diff hashes the submitted   *)
(* changes into them), so a transition is one pair of ids.                 *)
(***************************************************************************)
EXTENDS Integers, FiniteSets

CONSTANTS
    Requests,     \* requests that store a diff; each mints its own diff id
    Readers,      \* GET requests for a diff; each mints its own token
    Transitions,  \* pairs of spec version ids
    Size,         \* number of changes of a diff
    None,         \* no diff, no token
    MaxFaults     \* bound: SQL statements that fail

ASSUME SizeAssumption   == Size \in Nat
ASSUME FaultsAssumption == MaxFaults \in Nat
ASSUME NoneAssumption   == None \notin Requests \cup Readers \cup Transitions

VARIABLES
    (* the database *)
    stored,       \* stored[t]: which of its two rows spec_version has
    diff,         \* diff[t]: id of the row for transition t
    changes,      \* changes[t]: its rows in change
    share,        \* its share_token
    (* requests *)
    pc,           \* next await of a request
    kind,         \* its endpoint
    goal,         \* its transition
    written,      \* change rows in its open transaction
    answer,       \* the diff id it answers with
    announced,    \* announced[t]: dispatches of a diff.created event
    (* readers *)
    get,          \* next await of a reader
    subject,      \* the transition it reads
    token,        \* the token it has answered with
    faults

dbVars      == <<stored, diff, changes, share>>
requestVars == <<pc, kind, goal, written, answer, announced>>
readerVars  == <<get, subject, token>>
vars        == <<dbVars, requestVars, readerVars, faults>>

\* create_diff and compare_specs differ in what they parse only.
Kinds == {"single", "batch"}

InTransaction(r) == pc[r] \in {"change", "commit"}
Ended == {"answered", "gone"}

Init ==
    /\ stored = [t \in Transitions |-> {}]
    /\ diff = [t \in Transitions |-> None]
    /\ changes = [t \in Transitions |-> 0]
    /\ share = [t \in Transitions |-> None]
    /\ pc = [r \in Requests |-> "idle"]
    /\ kind = [r \in Requests |-> None]
    /\ goal = [r \in Requests |-> None]
    /\ written = [r \in Requests |-> 0]
    /\ answer = [r \in Requests |-> None]
    /\ announced = [t \in Transitions |-> 0]
    /\ get = [g \in Readers |-> "idle"]
    /\ subject = [g \in Readers |-> None]
    /\ token = [g \in Readers |-> None]
    /\ faults = 0

Goto(r, next) == pc' = [pc EXCEPT ![r] = next]

-----------------------------------------------------------------------------
(* Storing a diff *)

\* The request has been validated, the specs parse, the service row is upserted.
Arrive(r, k, t) ==
    /\ pc[r] = "idle"
    /\ kind' = [kind EXCEPT ![r] = k]
    /\ goal' = [goal EXCEPT ![r] = t]
    /\ Goto(r, "from_version")
    /\ UNCHANGED <<dbVars, written, answer, announced, readerVars, faults>>

\* INSERT INTO spec_version ... ON CONFLICT(id) DO NOTHING.
StoreVersion(r) ==
    /\ \/ /\ pc[r] = "from_version"
          /\ stored' = [stored EXCEPT ![goal[r]] = @ \cup {"from"}]
          /\ Goto(r, "to_version")
       \/ /\ pc[r] = "to_version"
          /\ stored' = [stored EXCEPT ![goal[r]] = @ \cup {"to"}]
          /\ Goto(r, "lookup")
    /\ UNCHANGED <<diff, changes, share, kind, goal, written, answer, announced,
                   readerVars, faults>>

\* The first SELECT: a stored diff is the answer.
LookUp(r) ==
    /\ pc[r] = "lookup"
    /\ IF diff[goal[r]] # None
       THEN /\ answer' = [answer EXCEPT ![r] = diff[goal[r]]]
            /\ Goto(r, "answered")
       ELSE /\ Goto(r, "insert")
            /\ UNCHANGED answer
    /\ UNCHANGED <<dbVars, kind, goal, written, announced, readerVars, faults>>

\* Mutant: the index does not see the rows of open transactions.
Reserved_Never(r) == FALSE

\* Mutant: requests that wait for the key keep each other waiting.
Reserved_Waiting(r) ==
    \E q \in Requests \ {r} : (InTransaction(q) \/ pc[q] = "insert") /\ goal[q] = goal[r]

\* The unique index makes an INSERT wait for an open transaction on the same key.
Reserved(r) == \E q \in Requests \ {r} : InTransaction(q) /\ goal[q] = goal[r]

\* persist_diff_atomic: BEGIN and the INSERT of the diff.  A violation of
\* idx_diff_transition rolls back; the diff that was there first is the answer.
InsertDiff(r) ==
    /\ pc[r] = "insert"
    /\ ~Reserved(r)
    /\ Goto(r, IF diff[goal[r]] # None THEN "existing" ELSE "change")
    /\ written' = [written EXCEPT ![r] = 0]
    /\ UNCHANGED <<dbVars, kind, goal, answer, announced, readerVars, faults>>

\* Mutant: the loser of the race answers with the id it has minted itself.
Winner_Self(r) == r

\* SELECT id FROM diff.
Winner(r) == diff[goal[r]]

AfterExisting == "answered"

SelectExisting(r) ==
    /\ pc[r] = "existing"
    /\ answer' = [answer EXCEPT ![r] = Winner(r)]
    /\ Goto(r, AfterExisting)
    /\ UNCHANGED <<dbVars, kind, goal, written, announced, readerVars, faults>>

MoreChanges(r) == written[r] < Size

\* The INSERTs of the changes, one by one, in the same transaction.
InsertChange(r) ==
    /\ pc[r] = "change"
    /\ IF MoreChanges(r)
       THEN written' = [written EXCEPT ![r] = @ + 1] /\ UNCHANGED pc
       ELSE Goto(r, "commit") /\ UNCHANGED written
    /\ UNCHANGED <<dbVars, kind, goal, answer, announced, readerVars, faults>>

Commit(r) ==
    /\ pc[r] = "commit"
    /\ diff' = [diff EXCEPT ![goal[r]] = r]
    /\ changes' = [changes EXCEPT ![goal[r]] = written[r]]
    /\ answer' = [answer EXCEPT ![r] = r]
    /\ Goto(r, "created")
    /\ UNCHANGED <<stored, share, kind, goal, written, announced, readerVars, faults>>

\* The diff is stored: all endpoints but the batch spawn dispatch_diff_event.
Announce(r) ==
    /\ pc[r] = "created"
    /\ announced' = IF kind[r] = "batch" THEN announced
                    ELSE [announced EXCEPT ![goal[r]] = @ + 1]
    /\ Goto(r, "answered")
    /\ UNCHANGED <<dbVars, kind, goal, written, answer, readerVars, faults>>

Serve(r) ==
    \/ StoreVersion(r) \/ LookUp(r) \/ InsertDiff(r) \/ SelectExisting(r)
    \/ InsertChange(r) \/ Commit(r) \/ Announce(r)

\* A transaction that is dropped before its commit leaves nothing.
RolledBack(r) == TRUE

\* The request ends early and gives up its transaction.
GiveUp(r) ==
    /\ Goto(r, "gone")
    /\ IF InTransaction(r) /\ ~RolledBack(r)
       THEN /\ diff' = [diff EXCEPT ![goal[r]] = r]
            /\ changes' = [changes EXCEPT ![goal[r]] = written[r]]
       ELSE UNCHANGED <<diff, changes>>
    /\ UNCHANGED <<stored, share, kind, goal, written, answer, announced, readerVars>>

\* A statement fails and the answer is an error.
Fail(r) ==
    /\ pc[r] \notin Ended \cup {"idle", "created"}
    /\ faults < MaxFaults
    /\ faults' = faults + 1
    /\ GiveUp(r)

\* The client goes away, or the process dies: the handler stops at its await.
Drop(r) ==
    /\ pc[r] \notin Ended \cup {"idle"}
    /\ GiveUp(r)
    /\ UNCHANGED faults

-----------------------------------------------------------------------------
(* Reading a diff *)

\* get_diff reads the row; a token that is there is the answer.
ReadDiff(g, t) ==
    /\ get[g] = "idle"
    /\ diff[t] # None
    /\ subject' = [subject EXCEPT ![g] = t]
    /\ IF share[t] # None
       THEN /\ token' = [token EXCEPT ![g] = share[t]]
            /\ get' = [get EXCEPT ![g] = "done"]
       ELSE /\ get' = [get EXCEPT ![g] = "mint"]
            /\ UNCHANGED token
    /\ UNCHANGED <<dbVars, requestVars, faults>>

\* Otherwise it stores one, and answers with it also if the UPDATE fails.
MintToken(g) ==
    /\ get[g] = "mint"
    /\ \/ share' = [share EXCEPT ![subject[g]] = g] /\ UNCHANGED faults
       \/ faults < MaxFaults /\ faults' = faults + 1 /\ UNCHANGED share
    /\ token' = [token EXCEPT ![g] = g]
    /\ get' = [get EXCEPT ![g] = "done"]
    /\ UNCHANGED <<stored, diff, changes, requestVars, subject>>

-----------------------------------------------------------------------------
Next ==
    \/ \E r \in Requests, k \in Kinds, t \in Transitions : Arrive(r, k, t)
    \/ \E r \in Requests : Serve(r) \/ Fail(r) \/ Drop(r)
    \/ \E g \in Readers, t \in Transitions : ReadDiff(g, t)
    \/ \E g \in Readers : MintToken(g)

Spec == Init /\ [][Next]_vars

\* The runtime polls the handlers it has; clients owe nothing.
FairSpec == Spec /\ \A r \in Requests : WF_vars(Serve(r))

-----------------------------------------------------------------------------
(* Properties *)

\* Every variable has its type; a transaction never holds more than its changes.
TypeOK ==
    /\ stored \in [Transitions -> SUBSET {"from", "to"}]
    /\ diff \in [Transitions -> Requests \cup {None}]
    /\ changes \in [Transitions -> 0 .. Size]
    /\ share \in [Transitions -> Readers \cup {None}]
    /\ pc \in [Requests -> {"idle", "from_version", "to_version", "lookup", "insert", "change",
                            "commit", "existing", "created"} \cup Ended]
    /\ kind \in [Requests -> Kinds \cup {None}]
    /\ goal \in [Requests -> Transitions \cup {None}]
    /\ written \in [Requests -> 0 .. Size]
    /\ answer \in [Requests -> Requests \cup {None}]
    /\ announced \in [Transitions -> Nat]
    /\ get \in [Readers -> {"idle", "mint", "done"}]
    /\ subject \in [Readers -> Transitions \cup {None}]
    /\ token \in [Readers -> Readers \cup {None}]
    /\ faults \in 0 .. MaxFaults

\* At most one open transaction per key, and none once the key is taken.
KeyIsExclusive ==
    \A r \in Requests : InTransaction(r) =>
      /\ diff[goal[r]] = None
      /\ \A q \in Requests \ {r} : InTransaction(q) => goal[q] # goal[r]

\* What a request knows at its next await.
RequestKnows(r) ==
    /\ pc[r] # "idle" => goal[r] \in Transitions
    /\ pc[r] = "to_version" => "from" \in stored[goal[r]]
    /\ pc[r] \in {"lookup", "insert", "change", "commit"} => stored[goal[r]] = {"from", "to"}
    /\ pc[r] = "commit" => written[r] = Size
    /\ pc[r] = "existing" => diff[goal[r]] # None
    /\ pc[r] = "created" => /\ diff[goal[r]] = r
                            /\ announced[goal[r]] = 0
    /\ pc[r] \in {"created", "answered"} => answer[r] = diff[goal[r]]
    /\ pc[r] = "answered" => diff[goal[r]] # None

\* "All-or-nothing": a stored diff has all its changes and both its versions, however
\* the request that stored it ended.  (A truncated one would be permanent: every retry
\* is answered with it.)
NoPartialDiff ==
    \A t \in Transitions :
      diff[t] # None => /\ changes[t] = Size
                        /\ stored[t] = {"from", "to"}

\* Submitting a transition is idempotent: all requests that succeed with it, one after
\* the other or racing, answer with the one diff that is stored for it.
SameAnswer ==
    \A r \in Requests : pc[r] = "answered" => answer[r] = diff[goal[r]]

\* A stored diff is never replaced by that of a racing request.
DiffsAreKept ==
    [][\A t \in Transitions : diff[t] # None => diff'[t] = diff[t]]_vars

\* Subscribers hear of a diff at most once, and only of one that is stored.
AnnouncedOnce ==
    \A t \in Transitions :
      announced[t] > 0 => announced[t] = 1 /\ diff[t] # None

\* A transition is stored once: whole, under one id for everybody, told once.
StoredOnce == TypeOK /\ NoPartialDiff /\ SameAnswer /\ AnnouncedOnce

\* And for good: what one request stored no other replaces, however they race.
StoredOnceForGood == []StoredOnce /\ DiffsAreKept

\* The inductive invariant: it ties every open request to what is stored.
IInv ==
    /\ TypeOK
    /\ KeyIsExclusive
    /\ \A r \in Requests : RequestKnows(r)
    /\ NoPartialDiff
    /\ AnnouncedOnce

\* No request waits forever on the key of another, also when the other is dropped.
RequestsEnd ==
    \A r \in Requests : pc[r] = "insert" ~> pc[r] \in Ended

\* radar-api/src/diffs.rs: "Mint a share token if absent, once. [...] Set only when
\* missing, then reused": the link every reader was given works.
HandedOutTokenWorks ==
    \A g \in Readers : token[g] # None => \E t \in Transitions : share[t] = token[g]
=============================================================================
