----------------------------- MODULE RateLimiter -----------------------------
(***************************************************************************)
(* The rate limiter of radar-api/src/lib.rs: one bucket per client         *)
(* address, counted in windows that a request opens, under one mutex; and  *)
(* the task that prunes buckets which are two windows old.                 *)
(*                                                                         *)
(* Only durations matter to it, so a bucket keeps its age and the clock    *)
(* has no reading; ages end at Stale, where the code cannot tell them      *)
(* apart any more.                                                         *)
(***************************************************************************)
EXTENDS Naturals, FiniteSets

CONSTANTS
    Clients,      \* records: the socket peer, and X-Forwarded-For or None
    None,         \* no bucket, no header
    Window,       \* RATE_LIMIT_WINDOW_SECS in ticks
    MaxPerMinute  \* the limit; 0 switches the limiter off and is left out

ASSUME LimiterAssumption == Window \in Nat \ {0} /\ MaxPerMinute \in Nat \ {0}
ASSUME NoneAssumption == None \notin [count : Nat, age : Nat]

Addresses == {c.peer : c \in Clients} \cup ({c.forwarded : c \in Clients} \ {None})

Stale == 2 * Window

VARIABLES
    trust,   \* RADAR_TRUST_PROXY
    bucket,  \* per address: the count and the age of its window, or None
    verdict, \* per address: what became of its last request
    recent   \* for the properties: the requests admitted within the last Window, by
             \* number, with their client and age

limiterVars == <<trust, bucket, verdict, recent>>

LimiterInit ==
    /\ trust \in BOOLEAN
    /\ bucket = [k \in Addresses |-> None]
    /\ verdict = [k \in Addresses |-> "none"]
    /\ recent = <<>>

\* Mutant: the header is never looked at.
ClientKey_Peer(c) == c.peer

ClientKey(c) == IF trust /\ c.forwarded # None THEN c.forwarded ELSE c.peer

Renewed == [count |-> 1, age |-> 0]

\* A bucket with one request more.
Counted(b) == IF b = None \/ b.age >= Window THEN Renewed
              ELSE [b EXCEPT !.count = b.count + 1]

Spent(k) == /\ bucket[k] # None /\ bucket[k].age < Window
            /\ bucket[k].count >= MaxPerMinute

\* A number that no request within the last Window has.
Fresh == CHOOSE n \in 1 .. Cardinality(DOMAIN recent) + 1 : n \notin DOMAIN recent

\* check_and_record, when there is room.
Admit(c) ==
    LET k == ClientKey(c) IN
    /\ ~ Spent(k)
    /\ bucket' = [bucket EXCEPT ![k] = Counted(bucket[k])]
    /\ verdict' = [verdict EXCEPT ![k] = "admitted"]
    /\ recent' = [n \in DOMAIN recent \cup {Fresh} |->
                    IF n = Fresh THEN [client |-> c, age |-> 0] ELSE recent[n]]
    /\ UNCHANGED trust

AfterRefusal(k) == bucket

Refuse(c) ==
    LET k == ClientKey(c) IN
    /\ Spent(k)
    /\ bucket' = AfterRefusal(k)
    /\ verdict' = [verdict EXCEPT ![k] = "refused"]
    /\ UNCHANGED <<trust, recent>>

CheckAndRecord(c) == Admit(c) \/ Refuse(c)

\* Mutant: a bucket is pruned when its window is half over.
Kept_Half(b) == b # None /\ 2 * b.age < Window

Kept(b) == b # None /\ b.age < Stale

PruneStale ==
    /\ bucket' = [k \in Addresses |-> IF Kept(bucket[k]) THEN bucket[k] ELSE None]
    /\ UNCHANGED <<trust, verdict, recent>>

Aged(b) == IF b = None \/ b.age = Stale THEN b ELSE [b EXCEPT !.age = @ + 1]

Tick ==
    /\ bucket' = [k \in Addresses |-> Aged(bucket[k])]
    /\ recent' = [n \in {m \in DOMAIN recent : recent[m].age + 1 < Window} |->
                    [recent[n] EXCEPT !.age = @ + 1]]
    /\ UNCHANGED <<trust, verdict>>

LimiterNext == Tick \/ PruneStale \/ \E c \in Clients : CheckAndRecord(c)

LimiterSpec == LimiterInit /\ [][LimiterNext]_limiterVars

-----------------------------------------------------------------------------
Buckets == [count : 0 .. MaxPerMinute, age : 0 .. Stale]

LimiterTypeOK ==
    /\ trust \in BOOLEAN
    /\ bucket \in [Addresses -> Buckets \cup {None}]
    /\ verdict \in [Addresses -> {"none", "admitted", "refused"}]

\* A pruned bucket and one whose window is over look the same from outside.
OpenWindow(b) == IF b = None \/ b.age >= Window THEN None ELSE b

Abstract == INSTANCE FixedWindow WITH
    Keys <- Addresses, Max <- MaxPerMinute, Closed <- None,
    open <- [k \in Addresses |-> OpenWindow(bucket[k])]

(* No request is answered otherwise because of pruning, of requests that   *)
(* were refused, or of requests under other keys: the limiter implements   *)
(* the fixed window.                                                       *)
ImplementsFixedWindow == Abstract!Spec
=============================================================================
