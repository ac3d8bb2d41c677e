------------------------------- MODULE Digest -------------------------------
(***************************************************************************)
(* The weekly digest of radar-api/src/notifications.rs.  Every replica     *)
(* sleeps an hour, looks whether it is Monday between 8 and 9, and if the  *)
(* week is not marked as sent, mails the digest and marks it.              *)
(*                                                                         *)
(* The mark is INSERT INTO settings ... ON CONFLICT(key).  Migration 035   *)
(* made (org_id, key) the key of that table, so the statement is an error, *)
(* which is dropped; only weeks marked before the migration stay marked.   *)
(***************************************************************************)
EXTENDS Naturals, FiniteSets

CONSTANTS
    Replicas,
    Hour,      \* ticks of the clock in an hour
    WeekTicks, \* ticks in a week
    OpensAt,   \* tick of the week at which it is Monday 8:00
    MaxTick    \* bound on the time

ASSUME DigestAssumption ==
    /\ Hour \in Nat \ {0} /\ MaxTick \in Nat
    /\ OpensAt \in Nat /\ WeekTicks \in Nat
    /\ OpensAt + Hour < WeekTicks

VARIABLES
    now,    \* the time
    loop,   \* per replica: at, its next wake-up, the week it is sending
    mailed, \* per replica and week, how often it mailed the digest
    marked  \* weeks with a row in settings

digestVars == <<now, loop, mailed, marked>>

Weeks == 0 .. MaxTick \div WeekTicks
WeekOf(t) == t \div WeekTicks

\* now.weekday() == Mon && now.hour() == 8
DigestHour(t) == (t % WeekTicks) \in OpensAt .. OpensAt + Hour - 1

Sleeping(t) == [at |-> "sleep", wake |-> t + Hour, week |-> 0]

DigestInit ==
    /\ now = 0
    /\ loop = [r \in Replicas |-> Sleeping(0)]
    /\ mailed = [r \in Replicas |-> [w \in Weeks |-> 0]]
    /\ marked \in SUBSET {0}

Tick ==
    /\ now < MaxTick
    /\ now' = now + 1
    /\ UNCHANGED <<loop, mailed, marked>>

\* The sleep is over, now or some time ago.  A failing SELECT counts as not sent.
CheckHour(r) ==
    /\ loop[r].at = "sleep" /\ now >= loop[r].wake
    /\ \E selected \in BOOLEAN :
          LET sends == DigestHour(now) /\ ~ (selected /\ WeekOf(now) \in marked)
          IN  loop' = [loop EXCEPT ![r] =
                 IF sends THEN [Sleeping(now) EXCEPT !.at = "send", !.week = WeekOf(now)]
                 ELSE Sleeping(now)]
    /\ UNCHANGED <<now, mailed, marked>>

\* send_digest: to every recipient once, or to none when the counts cannot be
\* read or SMTP is not configured; a mail that fails is not sent again.
SendDigest(r) ==
    /\ loop[r].at = "send"
    /\ \E sent \in {0, 1} : mailed' = [mailed EXCEPT ![r][loop[r].week] = @ + sent]
    /\ loop' = [loop EXCEPT ![r].at = "mark"]
    /\ UNCHANGED <<now, marked>>

\* The mark that is never written, and the next sleep.
MarkWeek(r) ==
    /\ loop[r].at = "mark"
    /\ loop' = [loop EXCEPT ![r] = Sleeping(now)]
    /\ UNCHANGED <<now, mailed, marked>>

\* Mutant: the loop looks at the clock before it sleeps.
AfterStart_ChecksFirst(t) == [Sleeping(t) EXCEPT !.wake = t]

\* A new process sleeps first.
AfterStart(t) == Sleeping(t)

DigestCrash(r) ==
    /\ loop' = [loop EXCEPT ![r] = AfterStart(now)]
    /\ UNCHANGED <<now, mailed, marked>>

DigestNext ==
    \/ Tick
    \/ \E r \in Replicas : CheckHour(r) \/ SendDigest(r) \/ MarkWeek(r)

-----------------------------------------------------------------------------
DigestTypeOK ==
    /\ now \in 0 .. MaxTick
    /\ loop \in [Replicas -> [at : {"sleep", "send", "mark"}, wake : Nat, week : Weeks]]
    /\ mailed \in [Replicas -> [Weeks -> Nat]]
    /\ marked \subseteq Weeks

(* A replica mails the digest of a week once, however often it restarts:   *)
(* not because the week is marked, which fails, but because a process      *)
(* sleeps for as long as the digest hour lasts before it looks.            *)
NoSecondDigest == \A r \in Replicas, w \in Weeks : mailed[r][w] <= 1
=============================================================================
