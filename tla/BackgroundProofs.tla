-------------------------- MODULE BackgroundProofs --------------------------
(***************************************************************************)
(* Proofs about what runs unattended: the background work of the API       *)
(* process (Housekeeping.tla) and the main process of the desktop shell    *)
(* (DesktopShell.tla).  Each part of Housekeeping has an inductive         *)
(* invariant of its own, over its own variables; the specification of the  *)
(* whole takes a step of one part at a time.                               *)
(***************************************************************************)
EXTENDS Housekeeping, DesktopShell, Integers, SequenceTheorems, FiniteSetTheorems, TLAPS

-----------------------------------------------------------------------------
(* The weekly digest.                                                      *)

\* A time so far at which the digest of week w was due.
Due(u, w) == u \in 0 .. now /\ DigestHour(u) /\ WeekOf(u) = w

\* What a replica has mailed it mailed in that week's digest hour, and it sleeps
\* until an hour after that.
SleepsThroughTheHour(r) ==
    /\ loop[r].at = "send" => \E u \in 0 .. now : Due(u, loop[r].week)
    /\ \A w \in Weeks :
         /\ mailed[r][w] \in {0, 1}
         /\ mailed[r][w] = 1 =>
              \E u \in 0 .. now :
                 /\ Due(u, w)
                 /\ loop[r].at = "sleep" => loop[r].wake >= u + Hour
                 /\ loop[r].at = "send" => loop[r].week # w

DigestInv == DigestTypeOK /\ \A r \in Replicas : SleepsThroughTheHour(r)

\* A time is its week and its tick of the week.
LEMMA TimeSplits ==
    \A t \in Nat : /\ WeekOf(t) \in Nat /\ t % WeekTicks \in 0 .. WeekTicks - 1
                   /\ t = WeekTicks * WeekOf(t) + (t % WeekTicks)
BY DigestAssumption, Z3 DEF WeekOf

\* Two times of one digest hour are less than an hour apart.
LEMMA OneHourAWeek ==
    ASSUME NEW t \in Nat, NEW u \in Nat, DigestHour(t), DigestHour(u), WeekOf(t) = WeekOf(u)
    PROVE  t < u + Hour
<1> DEFINE base == WeekTicks * WeekOf(u)
<1>1. t = base + (t % WeekTicks) /\ u = base + (u % WeekTicks)  BY TimeSplits
<1>2. base \in Int  BY TimeSplits, DigestAssumption
<1>3. /\ t % WeekTicks \in OpensAt .. OpensAt + Hour - 1
      /\ u % WeekTicks \in OpensAt .. OpensAt + Hour - 1
  BY DEF DigestHour
<1> HIDE DEF base
<1>. QED  BY <1>1, <1>2, <1>3, DigestAssumption

LEMMA WeeksGoOn ==
    ASSUME NEW t \in 0 .. MaxTick PROVE WeekOf(t) \in Weeks
<1>1. t \in Nat /\ MaxTick \in Nat /\ t <= MaxTick /\ WeekTicks \in Nat \ {0}
  BY DigestAssumption
<1> DEFINE a == WeekOf(t)
           b == WeekOf(MaxTick)
<1>2. /\ a \in Nat /\ b \in Nat
      /\ t = WeekTicks * a + (t % WeekTicks) /\ t % WeekTicks \in 0 .. WeekTicks - 1
      /\ MaxTick = WeekTicks * b + (MaxTick % WeekTicks)
      /\ MaxTick % WeekTicks \in 0 .. WeekTicks - 1
  BY <1>1, TimeSplits
<1>3. Weeks = 0 .. b  BY DEF Weeks, WeekOf
<1> HIDE DEF a, b
<1>4. a <= b
  <2>1. SUFFICES ASSUME a >= b + 1 PROVE FALSE  BY <1>2
  <2>2. PICK k \in Nat : a = b + 1 + k
    <3>1. a - b - 1 \in Nat /\ a = b + 1 + (a - b - 1)  BY <1>2, <2>1
    <3>. QED  BY <3>1
  <2>3. WeekTicks * a = WeekTicks * b + WeekTicks + WeekTicks * k
    BY <1>1, <1>2, <2>2
  <2>4. WeekTicks * k \in Nat /\ WeekTicks * b \in Nat  BY <1>1, <1>2, <2>2
  <2>. QED  BY <1>1, <1>2, <2>3, <2>4
<1>. QED  BY <1>2, <1>3, <1>4 DEF a

LEMMA DigestStarts == DigestInit => DigestInv
<1> SUFFICES ASSUME DigestInit PROVE DigestInv  OBVIOUS
<1>1. 0 \in Weeks
  <2>1. WeekOf(0) \in Weeks /\ WeekOf(0) \in Nat  BY WeeksGoOn, TimeSplits, DigestAssumption
  <2>2. Weeks = 0 .. WeekOf(MaxTick) /\ WeekOf(MaxTick) \in Nat
    BY TimeSplits, DigestAssumption DEF Weeks, WeekOf
  <2>. QED  BY <2>2
<1>2. DigestTypeOK
  <2>1. loop \in [Replicas -> [at : {"sleep", "send", "mark"}, wake : Nat, week : Weeks]]
    BY <1>1, DigestAssumption DEF DigestInit, Sleeping
  <2>. QED  BY <1>1, <2>1, DigestAssumption DEF DigestInit, DigestTypeOK
<1>3. ASSUME NEW r \in Replicas PROVE SleepsThroughTheHour(r)
  BY DEF DigestInit, SleepsThroughTheHour, Sleeping
<1>. QED  BY <1>2, <1>3 DEF DigestInv

\* A replica the step leaves alone stays as it was: time only goes on.
LEMMA OthersSleep ==
    ASSUME NEW r \in Replicas, SleepsThroughTheHour(r), now \in Nat, now' \in Nat, now' >= now,
           loop'[r] = loop[r], mailed'[r] = mailed[r]
    PROVE  SleepsThroughTheHour(r)'
<1>1. 0 .. now \subseteq 0 .. now'  OBVIOUS
<1>. QED  BY <1>1 DEF SleepsThroughTheHour, Due

LEMMA DigestStep ==
    DigestInv /\ (DigestNext \/ (\E r \in Replicas : DigestCrash(r)) \/ UNCHANGED digestVars)
        => DigestInv'
<1> SUFFICES ASSUME DigestInv,
                    DigestNext \/ (\E r \in Replicas : DigestCrash(r)) \/ UNCHANGED digestVars
             PROVE  DigestInv'
  OBVIOUS
<1> DEFINE Loops == [at : {"sleep", "send", "mark"}, wake : Nat, week : Weeks]
<1>1. /\ now \in 0 .. MaxTick /\ now \in Nat /\ marked \subseteq Weeks
      /\ loop \in [Replicas -> Loops] /\ mailed \in [Replicas -> [Weeks -> Nat]]
      /\ \A r \in Replicas : SleepsThroughTheHour(r)
      /\ MaxTick \in Nat /\ Hour \in Nat \ {0}
  BY DigestAssumption DEF DigestInv, DigestTypeOK
<1>2. Sleeping(now) \in Loops /\ Sleeping(now).at = "sleep" /\ Sleeping(now).wake = now + Hour
  <2>1. 0 \in Weeks
    <3>1. Weeks = 0 .. WeekOf(MaxTick) /\ WeekOf(MaxTick) \in Nat
      BY TimeSplits, DigestAssumption DEF Weeks, WeekOf
    <3>. QED  BY <3>1
  <2>. QED  BY <1>1, <2>1 DEF Sleeping
<1>3. ASSUME now' = now + 1, now < MaxTick, loop' = loop, mailed' = mailed, marked' = marked
      PROVE  DigestInv'
  <2>1. DigestTypeOK'  BY <1>1, <1>3 DEF DigestTypeOK
  <2>2. \A r \in Replicas : SleepsThroughTheHour(r)'  BY <1>1, <1>3, OthersSleep
  <2>. QED  BY <2>1, <2>2 DEF DigestInv
<1>4. ASSUME UNCHANGED digestVars PROVE DigestInv'
  <2>1. DigestTypeOK'  BY <1>1, <1>4 DEF DigestTypeOK, digestVars
  <2>2. \A r \in Replicas : SleepsThroughTheHour(r)'  BY <1>1, <1>4, OthersSleep DEF digestVars
  <2>. QED  BY <2>1, <2>2 DEF DigestInv
<1>5. ASSUME NEW r \in Replicas, NEW x \in Loops, loop' = [loop EXCEPT ![r] = x],
             UNCHANGED <<now, mailed, marked>>,
             x.at = "send" => \E u \in 0 .. now : Due(u, x.week),
             \A w \in Weeks, u \in 0 .. now :
                /\ mailed[r][w] = 1 /\ Due(u, w)
                /\ loop[r].at = "sleep" => loop[r].wake >= u + Hour
                => /\ x.at = "sleep" => x.wake >= u + Hour
                   /\ x.at = "send" => x.week # w
      PROVE  DigestInv'
  <2>1. loop' \in [Replicas -> Loops] /\ loop'[r] = x
        /\ \A q \in Replicas \ {r} : loop'[q] = loop[q]
    BY <1>1, <1>5
  <2>2. DigestTypeOK'  BY <1>1, <1>5, <2>1 DEF DigestTypeOK
  <2>3. SleepsThroughTheHour(r)'
    <3>1. SleepsThroughTheHour(r)  BY <1>1
    <3>2. \A u, w : Due(u, w)' <=> Due(u, w)  BY <1>5 DEF Due
    <3>3. (loop[r].at = "send" => \E u \in 0 .. now : Due(u, loop[r].week))'
      BY <1>5, <2>1 DEF Due
    <3>4. ASSUME NEW w \in Weeks, mailed[r][w] = 1
          PROVE  \E u \in 0 .. now :
                    /\ Due(u, w)
                    /\ x.at = "sleep" => x.wake >= u + Hour
                    /\ x.at = "send" => x.week # w
      <4>1. PICK u \in 0 .. now :
                 Due(u, w) /\ (loop[r].at = "sleep" => loop[r].wake >= u + Hour)
        BY <3>1, <3>4 DEF SleepsThroughTheHour
      <4>. QED  BY <1>5, <3>4, <4>1
    <3>. QED  BY <1>5, <2>1, <3>1, <3>2, <3>3, <3>4 DEF SleepsThroughTheHour
  <2>4. \A q \in Replicas \ {r} : SleepsThroughTheHour(q)'  BY <1>1, <1>5, <2>1, OthersSleep
  <2>. QED  BY <2>2, <2>3, <2>4 DEF DigestInv
<1>6. ASSUME NEW r \in Replicas, CheckHour(r) PROVE DigestInv'
  <2>1. /\ loop[r] \in Loops /\ loop[r].at = "sleep" /\ now >= loop[r].wake
        /\ UNCHANGED <<now, mailed, marked>>
    BY <1>1, <1>6 DEF CheckHour
  <2>2. CASE loop' = [loop EXCEPT ![r] = Sleeping(now)]
    <3>1. \A u \in 0 .. now : now + Hour >= u + Hour  BY <1>1
    <3>2. Sleeping(now).at # "send"  BY <1>2
    <3> HIDE DEF Loops
    <3>3. UNCHANGED <<now, mailed, marked>>  BY <2>1
    <3>. QED  BY <1>2, <1>5, <2>2, <3>1, <3>2, <3>3
  <2>3. CASE /\ DigestHour(now)
             /\ loop' = [loop EXCEPT ![r] = [Sleeping(now) EXCEPT !.at = "send",
                                                                  !.week = WeekOf(now)]]
    <3> DEFINE x == [Sleeping(now) EXCEPT !.at = "send", !.week = WeekOf(now)]
    <3>1. x \in Loops /\ x.at = "send" /\ x.week = WeekOf(now)
      BY <1>1, <1>2, WeeksGoOn
    <3> HIDE DEF x
    <3>2. Due(now, WeekOf(now)) /\ now \in 0 .. now  BY <1>1, <2>3 DEF Due
    <3>3. ASSUME NEW w \in Weeks, NEW u \in 0 .. now, mailed[r][w] = 1, Due(u, w),
                 loop[r].at = "sleep" => loop[r].wake >= u + Hour
          PROVE  x.week # w
      <4>1. loop[r].wake \in Nat /\ u \in Nat /\ now >= u + Hour  BY <1>1, <2>1, <3>3
      <4>2. WeekOf(now) = w => now < u + Hour
        BY <1>1, <2>3, <3>3, <4>1, OneHourAWeek DEF Due
      <4>. QED  BY <1>1, <3>1, <4>1, <4>2
    <3>4. loop' = [loop EXCEPT ![r] = x]  BY <2>3 DEF x
    <3>5. x.at = "send" => \E u \in 0 .. now : Due(u, x.week)  BY <3>1, <3>2
    <3>6. UNCHANGED <<now, mailed, marked>> /\ x.at # "sleep"  BY <2>1, <3>1
    <3> HIDE DEF Loops
    <3>. QED  BY <1>5, <3>1, <3>3, <3>4, <3>5, <3>6
  <2>. QED  BY <1>6, <2>2, <2>3 DEF CheckHour
<1>7. ASSUME NEW r \in Replicas, SendDigest(r) PROVE DigestInv'
  <2> DEFINE week == loop[r].week
  <2>1. PICK sent \in {0, 1} :
             /\ loop[r].at = "send" /\ UNCHANGED <<now, marked>>
             /\ mailed' = [mailed EXCEPT ![r][week] = @ + sent]
             /\ loop' = [loop EXCEPT ![r].at = "mark"]
    BY <1>7 DEF SendDigest
  <2>2. loop[r] \in Loops /\ week \in Weeks  BY <1>1
  <2>3. SleepsThroughTheHour(r)  BY <1>1
  <2>4. mailed[r][week] = 0  BY <2>1, <2>2, <2>3 DEF SleepsThroughTheHour
  <2>5. /\ loop' \in [Replicas -> Loops] /\ loop'[r].at = "mark"
        /\ mailed' \in [Replicas -> [Weeks -> Nat]]
        /\ mailed'[r][week] = sent /\ \A w \in Weeks \ {week} : mailed'[r][w] = mailed[r][w]
        /\ \A q \in Replicas \ {r} : loop'[q] = loop[q] /\ mailed'[q] = mailed[q]
    BY <1>1, <2>1, <2>2, <2>4
  <2>6. DigestTypeOK'  BY <1>1, <2>1, <2>5 DEF DigestTypeOK
  <2>7. PICK u \in 0 .. now : Due(u, week)  BY <2>1, <2>3 DEF SleepsThroughTheHour
  <2>8. \A v, w : Due(v, w)' <=> Due(v, w)  BY <2>1 DEF Due
  <2>9. ASSUME NEW w \in Weeks
        PROVE  mailed'[r][w] \in {0, 1} /\ (mailed'[r][w] = 1 => \E v \in 0 .. now : Due(v, w))
    <3>1. CASE w = week  BY <2>5, <2>7, <3>1
    <3>2. CASE w # week  BY <2>3, <2>5, <3>2 DEF SleepsThroughTheHour
    <3>. QED  BY <3>1, <3>2
  <2> HIDE DEF week
  <2>10. SleepsThroughTheHour(r)'  BY <2>1, <2>5, <2>8, <2>9 DEF SleepsThroughTheHour
  <2>11. \A q \in Replicas \ {r} : SleepsThroughTheHour(q)'  BY <1>1, <2>1, <2>5, OthersSleep
  <2>. QED  BY <2>6, <2>10, <2>11 DEF DigestInv
<1>8. ASSUME NEW r \in Replicas, MarkWeek(r) \/ DigestCrash(r) PROVE DigestInv'
  <2>1. loop' = [loop EXCEPT ![r] = Sleeping(now)] /\ UNCHANGED <<now, mailed, marked>>
    BY <1>8 DEF MarkWeek, DigestCrash, AfterStart
  <2>2. \A u \in 0 .. now : now + Hour >= u + Hour  BY <1>1
  <2>. QED  BY <1>2, <1>5, <2>1, <2>2
<1>. QED  BY <1>3, <1>4, <1>6, <1>7, <1>8 DEF DigestNext, Tick

\* Hence no week's digest is mailed twice.
LEMMA DigestsAreSingle == DigestInv => NoSecondDigest
BY DEF DigestInv, SleepsThroughTheHour, NoSecondDigest

-----------------------------------------------------------------------------
(* The bundle of the documentation viewer.                                 *)

Requests == [at : {"none", "loading", "js", "written", "version"},
             brings : Versions, met : BOOLEAN, mixed : BOOLEAN]

\* Two requests that write at a time know of each other.
WritersHaveMet ==
    \A u, w \in Updates : u # w /\ Writing(u) /\ Writing(w) => update[u].met /\ update[w].met

\* A writer that has met nobody has the first file to itself.
AloneIsWhole ==
    \A u \in Updates : Writing(u) /\ ~ update[u].met =>
        /\ ~ update[u].mixed
        /\ update[u].at \in {"written", "version"} => js = update[u].brings

\* Unless something was disturbed, the files agree when nobody writes.
Undisturbed ==
    ~ disturbed =>
        /\ \A u \in Updates : Writing(u) => ~ update[u].met
        /\ (\A u \in Updates : ~ Writing(u)) => js = version /\ js \in Versions \cup {NoFile}

ScalarInv == ScalarTypeOK /\ WritersHaveMet /\ AloneIsWhole /\ Undisturbed

LEMMA ScalarStarts == ScalarInit => ScalarInv
<1> SUFFICES ASSUME ScalarInit PROVE ScalarInv  OBVIOUS
<1>1. \A u \in Updates : ~ Writing(u)  BY DEF ScalarInit, Writing, NoUpdate
<1>2. 0 \in Versions  BY ScalarAssumption DEF Versions
<1>3. ScalarTypeOK
  <2>1. NoUpdate \in Requests  BY <1>2 DEF NoUpdate, Requests
  <2>2. update \in [Updates -> Requests]  BY <2>1 DEF ScalarInit
  <2>3. hasDir \in BOOLEAN /\ disturbed \in BOOLEAN  BY DEF ScalarInit
  <2>. QED  BY <1>2, <2>2, <2>3 DEF ScalarInit, ScalarTypeOK, Requests
<1>. QED
  BY <1>1, <1>3 DEF ScalarInit, ScalarInv, WritersHaveMet, AloneIsWhole, Undisturbed

\* A request that writes nothing before and after a step.
LEMMA QuietUpdate ==
    ASSUME ScalarInv, ScalarTypeOK', disturbed' = disturbed, UNCHANGED <<js, version>>,
           NEW u \in Updates, NEW x \in Requests, update' = [update EXCEPT ![u] = x],
           ~ Writing(u), x.at \in {"none", "loading"}
    PROVE  ScalarInv'
<1>1. \A w \in Updates : /\ Writing(w)' <=> Writing(w)
                         /\ Writing(w) => update'[w] = update[w]
  BY DEF ScalarInv, ScalarTypeOK, Writing
<1>. QED  BY <1>1 DEF ScalarInv, WritersHaveMet, AloneIsWhole, Undisturbed

LEMMA BeginJsInv == ASSUME ScalarInv, NEW u \in Updates, BeginJs(u) PROVE ScalarInv'
<1>1. /\ update \in [Updates -> Requests] /\ update[u].at = "loading" /\ js' = Torn
      /\ disturbed \in BOOLEAN
      /\ disturbed' = (disturbed \/ \E x \in Updates : Writing(x))
      /\ UNCHANGED <<hasDir, bundled, latest, version>>
  BY DEF BeginJs, ScalarInv, ScalarTypeOK, Requests
<1>2. \A w \in Updates \ {u} :
          update'[w] = [update[w] EXCEPT !.met = @ \/ Writing(w), !.mixed = @ \/ Mixes(u, w)]
  BY DEF BeginJs
<1>3. update'[u] = [update[u] EXCEPT !.at = "js", !.met = (\E x \in Updates : Writing(x)),
                                     !.mixed = (\E x \in Updates : Mixes(u, x))]
  BY DEF BeginJs
<1>4. update' \in [Updates -> Requests]
  <2>1. ASSUME NEW w \in Updates \ {u} PROVE update'[w] \in Requests
    <3> DEFINE met == update[w].met \/ Writing(w)
               mixed == update[w].mixed \/ Mixes(u, w)
    <3>1. update'[w] = [update[w] EXCEPT !.met = met, !.mixed = mixed]  BY <1>2
    <3>2. met \in BOOLEAN /\ mixed \in BOOLEAN  OBVIOUS
    <3> HIDE DEF met, mixed
    <3>3. update[w] \in Requests  BY <1>1
    <3>. QED  BY <3>1, <3>2, <3>3 DEF Requests
  <2>2. update'[u] \in Requests  BY <1>1, <1>3 DEF Requests
  <2>3. update' = [w \in Updates |-> update'[w]]  BY DEF BeginJs
  <2>. QED  BY <2>1, <2>2, <2>3
<1>5. \A w \in Updates \ {u} : Writing(w)' <=> Writing(w)
  <2>1. \A w \in Updates \ {u} : update'[w].at = update[w].at  BY <1>1, <1>2 DEF Requests
  <2>. QED  BY <2>1 DEF Writing
<1>6. ASSUME NEW w \in Updates \ {u}, Writing(w) PROVE update'[w].met
  <2>1. update'[w].met = (update[w].met \/ Writing(w))  BY <1>1, <1>2 DEF Requests
  <2>. QED  BY <1>6, <2>1
<1>7. /\ update'[u].at = "js"
      /\ update'[u].met = (\E x \in Updates : Writing(x))
      /\ update'[u].mixed = (\E x \in Updates : Mixes(u, x))
  BY <1>1, <1>3 DEF Requests
<1>8. Writing(u)' /\ ~ Writing(u)  BY <1>1, <1>7 DEF Writing
<1>9. ScalarTypeOK'
  <2>1. disturbed' \in BOOLEAN  BY <1>1
  <2>. QED  BY <1>1, <1>4, <2>1 DEF ScalarInv, ScalarTypeOK, Requests
<1>10. WritersHaveMet'
  <2>1. ASSUME NEW w \in Updates \ {u}, Writing(w)' PROVE update'[w].met /\ update'[u].met
    BY <1>5, <1>6, <1>7, <2>1
  <2>. QED  BY <1>5, <1>6, <2>1 DEF WritersHaveMet
<1>11. AloneIsWhole'
  <2>1. ~ update'[u].met => ~ update'[u].mixed
    BY <1>7 DEF Mixes, Writing
  <2>. QED  BY <1>5, <1>6, <1>7, <2>1 DEF AloneIsWhole
<1>12. Undisturbed'
  BY <1>1, <1>5, <1>7, <1>8 DEF Undisturbed
<1>. QED  BY <1>9, <1>10, <1>11, <1>12 DEF ScalarInv

LEMMA EndJsInv == ASSUME ScalarInv, NEW u \in Updates, EndJs(u) PROVE ScalarInv'
<1>1. /\ update \in [Updates -> Requests] /\ update[u].at = "js"
      /\ update' = [update EXCEPT ![u].at = "written"]
      /\ UNCHANGED <<hasDir, bundled, latest, version, disturbed>>
  BY DEF EndJs, ScalarInv, ScalarTypeOK, Requests
<1>2. /\ update' \in [Updates -> Requests] /\ update'[u] = [update[u] EXCEPT !.at = "written"]
      /\ \A w \in Updates \ {u} : update'[w] = update[w]
  BY <1>1 DEF Requests
<1>3. /\ update'[u].at = "written" /\ update'[u].met = update[u].met
      /\ update'[u].mixed = update[u].mixed /\ update'[u].brings = update[u].brings
      /\ update[u].brings \in Versions
  BY <1>1, <1>2 DEF Requests
<1>4. js' \in {Torn, update[u].brings}  BY DEF EndJs
<1>5. \A w \in Updates : Writing(w)' <=> Writing(w)  BY <1>1, <1>2, <1>3 DEF Writing
<1>6. Writing(u)  BY <1>1 DEF Writing
<1>7. ~ update[u].met => js' = update[u].brings
  <2>1. SUFFICES ASSUME ~ update[u].met PROVE js' = update[u].brings  OBVIOUS
  <2>2. ~ update[u].mixed  BY <1>6, <2>1 DEF ScalarInv, AloneIsWhole
  <2>3. \A w \in Updates \ {u} : update[w].at # "js"
    BY <1>6, <2>1 DEF ScalarInv, WritersHaveMet, Writing
  <2>. QED  BY <2>2, <2>3 DEF EndJs
<1>8. \A w \in Updates \ {u} : Writing(w) => update[w].met  BY <1>6 DEF ScalarInv, WritersHaveMet
<1>9. ScalarTypeOK'
  BY <1>1, <1>2, <1>3, <1>4 DEF ScalarInv, ScalarTypeOK, Requests
<1>10. WritersHaveMet'  BY <1>2, <1>3, <1>5 DEF ScalarInv, WritersHaveMet
<1>11. AloneIsWhole'
  <2>1. ~ update[u].met => ~ update[u].mixed  BY <1>6 DEF ScalarInv, AloneIsWhole
  <2>. QED  BY <1>2, <1>3, <1>5, <1>7, <1>8, <2>1 DEF AloneIsWhole
<1>12. Undisturbed'  BY <1>1, <1>2, <1>3, <1>5, <1>6 DEF ScalarInv, Undisturbed
<1>. QED  BY <1>9, <1>10, <1>11, <1>12 DEF ScalarInv

LEMMA BeginVersionInv == ASSUME ScalarInv, NEW u \in Updates, BeginVersion(u) PROVE ScalarInv'
<1>1. /\ update \in [Updates -> Requests] /\ update[u].at = "written"
      /\ update' = [update EXCEPT ![u].at = "version"] /\ version' = Torn
      /\ UNCHANGED <<hasDir, bundled, latest, js, disturbed>>
  BY DEF BeginVersion, ScalarInv, ScalarTypeOK, Requests
<1>2. /\ update' \in [Updates -> Requests] /\ update'[u] = [update[u] EXCEPT !.at = "version"]
      /\ \A w \in Updates \ {u} : update'[w] = update[w]
  BY <1>1 DEF Requests
<1>3. /\ update'[u].at = "version" /\ update'[u].met = update[u].met
      /\ update'[u].mixed = update[u].mixed /\ update'[u].brings = update[u].brings
  BY <1>1, <1>2 DEF Requests
<1>4. \A w \in Updates : Writing(w)' <=> Writing(w)  BY <1>1, <1>2, <1>3 DEF Writing
<1>5. Writing(u)  BY <1>1 DEF Writing
<1>6. ScalarTypeOK'  BY <1>1, <1>2 DEF ScalarInv, ScalarTypeOK, Requests
<1>7. WritersHaveMet'  BY <1>2, <1>3, <1>4 DEF ScalarInv, WritersHaveMet
<1>8. AloneIsWhole'
  <2>1. ~ update[u].met => ~ update[u].mixed /\ js = update[u].brings
    BY <1>1, <1>5 DEF ScalarInv, AloneIsWhole
  <2>2. \A w \in Updates \ {u} : Writing(w) /\ ~ update[w].met =>
            /\ ~ update[w].mixed
            /\ update[w].at \in {"written", "version"} => js = update[w].brings
    BY DEF ScalarInv, AloneIsWhole
  <2>. QED  BY <1>1, <1>2, <1>3, <1>4, <2>1, <2>2 DEF AloneIsWhole
<1>9. Undisturbed'  BY <1>1, <1>2, <1>3, <1>4, <1>5 DEF ScalarInv, Undisturbed
<1>. QED  BY <1>6, <1>7, <1>8, <1>9 DEF ScalarInv

\* A request ends: with its second file, or with a failed write.
LEMMA WriterEndsInv ==
    ASSUME ScalarInv, NEW u \in Updates, EndVersion(u) \/ WriteFails(u) PROVE ScalarInv'
<1>1. /\ update \in [Updates -> Requests] /\ Writing(u)
      /\ update' = [update EXCEPT ![u] = NoUpdate]
      /\ UNCHANGED <<hasDir, bundled, latest, js>> /\ disturbed \in BOOLEAN
  BY DEF EndVersion, WriteFails, Writing, ScalarInv, ScalarTypeOK, Requests
<1>2. NoUpdate \in Requests
  BY ScalarAssumption DEF NoUpdate, Requests, Versions
<1>3. /\ update' \in [Updates -> Requests] /\ update'[u] = NoUpdate
      /\ \A w \in Updates \ {u} : update'[w] = update[w]
  BY <1>1, <1>2
<1>4. ~ Writing(u)' /\ \A w \in Updates \ {u} : Writing(w)' <=> Writing(w)
  BY <1>3 DEF Writing, NoUpdate
<1>5. version' \in Versions \cup {NoFile, Torn} /\ disturbed' \in BOOLEAN
  <2>1. CASE EndVersion(u)
    <3>1. update[u].brings \in Versions  BY <1>1 DEF Requests
    <3>2. version' = update[u].brings /\ disturbed' = (disturbed /\ update[u].met)
      BY <2>1 DEF EndVersion
    <3>3. disturbed' \in BOOLEAN  BY <3>2
    <3>. QED  BY <3>1, <3>2, <3>3
  <2>2. CASE WriteFails(u)  BY <2>2 DEF WriteFails, ScalarInv, ScalarTypeOK
  <2>. QED  BY <2>1, <2>2
<1>6. ScalarTypeOK'  BY <1>1, <1>3, <1>5 DEF ScalarInv, ScalarTypeOK, Requests
<1>7. WritersHaveMet'  BY <1>3, <1>4 DEF ScalarInv, WritersHaveMet
<1>8. AloneIsWhole'  BY <1>1, <1>3, <1>4 DEF ScalarInv, AloneIsWhole
<1>9. Undisturbed'
  <2>1. CASE WriteFails(u)
    <3>1. disturbed'  BY <2>1 DEF WriteFails
    <3>. QED  BY <3>1 DEF Undisturbed
  <2>2. CASE EndVersion(u) /\ update[u].met
    <3>1. disturbed  BY <1>1, <2>2 DEF ScalarInv, Undisturbed
    <3>2. disturbed'  BY <2>2, <3>1 DEF EndVersion
    <3>. QED  BY <3>2 DEF Undisturbed
  <2>3. CASE EndVersion(u) /\ ~ update[u].met
    <3>1. /\ \A w \in Updates \ {u} : ~ Writing(w)
          /\ js = update[u].brings /\ version' = update[u].brings
          /\ update[u].brings \in Versions
      BY <1>1, <2>3 DEF EndVersion, ScalarInv, WritersHaveMet, AloneIsWhole, Requests
    <3>. QED  BY <1>1, <1>3, <1>4, <3>1 DEF Undisturbed
  <2>. QED  BY <2>1, <2>2, <2>3
<1>. QED  BY <1>6, <1>7, <1>8, <1>9 DEF ScalarInv

LEMMA ScalarCrashInv == ScalarInv /\ ScalarCrash => ScalarInv'
<1> SUFFICES ASSUME ScalarInv, ScalarCrash PROVE ScalarInv'  OBVIOUS
<1>1. /\ update' = [u \in Updates |-> NoUpdate] /\ bundled' \in bundled .. MaxVersion
      /\ bundled \in Versions
      /\ disturbed' = (disturbed \/ \E u \in Updates : Writing(u))
      /\ UNCHANGED <<hasDir, latest, js, version>>
  BY DEF ScalarCrash, ScalarInv, ScalarTypeOK
<1>2. NoUpdate \in Requests
  BY ScalarAssumption DEF NoUpdate, Requests, Versions
<1>3. \A u \in Updates : ~ Writing(u)'  BY <1>1 DEF Writing, NoUpdate
<1>4. ScalarTypeOK'
  <2>1. bundled' \in Versions  BY <1>1, ScalarAssumption DEF Versions
  <2>2. disturbed' \in BOOLEAN  BY <1>1
  <2>3. update' \in [Updates -> Requests]  BY <1>1, <1>2
  <2>. QED  BY <1>1, <2>1, <2>2, <2>3 DEF ScalarInv, ScalarTypeOK, Requests
<1>5. WritersHaveMet' /\ AloneIsWhole'  BY <1>3 DEF WritersHaveMet, AloneIsWhole
<1>6. Undisturbed'  BY <1>1, <1>3 DEF ScalarInv, Undisturbed
<1>. QED  BY <1>4, <1>5, <1>6 DEF ScalarInv

LEMMA ScalarStep ==
    ScalarInv /\ (ScalarNext \/ ScalarCrash \/ UNCHANGED scalarVars) => ScalarInv'
<1> SUFFICES ASSUME ScalarInv, ScalarNext \/ ScalarCrash \/ UNCHANGED scalarVars
             PROVE  ScalarInv'
  OBVIOUS
<1>1. /\ update \in [Updates -> Requests] /\ latest \in Versions
      /\ NoUpdate \in Requests
  BY ScalarAssumption DEF ScalarInv, ScalarTypeOK, NoUpdate, Requests, Versions
<1>2. ASSUME NEW u \in Updates, Ask(u) \/ DownloadFails(u) PROVE ScalarInv'
  <2> DEFINE x == IF Ask(u) THEN [NoUpdate EXCEPT !.at = "loading", !.brings = latest]
                  ELSE NoUpdate
  <2>1. x \in Requests /\ x.at \in {"none", "loading"}  BY <1>1 DEF NoUpdate, Requests
  <2>2. /\ update' = [update EXCEPT ![u] = x] /\ update[u].at \in {"none", "loading"}
        /\ UNCHANGED <<hasDir, bundled, latest, js, version, disturbed>>
    BY <1>2 DEF Ask, DownloadFails
  <2> HIDE DEF x
  <2>3. ScalarTypeOK'  BY <1>1, <2>1, <2>2 DEF ScalarInv, ScalarTypeOK, Requests
  <2>4. ~ Writing(u)  BY <2>2 DEF Writing
  <2>. QED  BY <2>1, <2>2, <2>3, <2>4, QuietUpdate
<1>3. ASSUME Publish \/ UNCHANGED scalarVars PROVE ScalarInv'
  <2>1. latest' \in Versions /\ UNCHANGED <<hasDir, bundled, js, version, update, disturbed>>
    BY <1>1, <1>3 DEF Publish, scalarVars
  <2>. QED
    BY <2>1 DEF ScalarInv, ScalarTypeOK, WritersHaveMet, AloneIsWhole, Undisturbed, Writing
<1>. QED
  BY <1>2, <1>3, BeginJsInv, EndJsInv, BeginVersionInv, WriterEndsInv, ScalarCrashInv
     DEF ScalarNext

LEMMA BundlesAreNamed == ScalarInv => BundleIsNamed
BY ScalarAssumption
   DEF ScalarInv, Undisturbed, BundleIsNamed, ActiveJs, ActiveVersion, OverrideVersion,
       UpdateAvailable, ScalarTypeOK, Versions

-----------------------------------------------------------------------------
(* Release notes.                                                          *)

\* What a task has built, and what a completed row shows, is the whole diff; a
\* task has a row to write to.
ContentIsWhole ==
    /\ \A n \in Notes : note[n] # Absent /\ note[n].generation = "completed" =>
          note[n].content = BuildContent
    /\ \A n \in Notes : task[n] # Absent =>
          /\ note[n] # Absent
          /\ task[n].at = "built" => task[n].content = BuildContent

\* A PATCH that no other has overtaken still sees the status it has checked.
FreshIsAllowed ==
    \A p \in Patches : patch[p] # Absent =>
        /\ note[patch[p].note] # Absent
        /\ patch[p].at = "update" /\ ~ patch[p].stale =>
             patch[p].to \in AllowedNext(note[patch[p].note].status)

NotesInv == NotesTypeOK /\ ContentIsWhole /\ FreshIsAllowed

LEMMA NotesStart == NotesInit => NotesInv
BY DEF NotesInit, NotesInv, NotesTypeOK, ContentIsWhole, FreshIsAllowed

LEMMA NotesTyped ==
    NotesInv => /\ \A n \in Notes : note[n] # Absent => note[n] \in NoteRows
                /\ \A n \in Notes : task[n] # Absent => task[n] \in Tasks
                /\ \A p \in Patches : patch[p] # Absent => patch[p] \in Patched
BY DEF NotesInv, NotesTypeOK

LEMMA BuildsContents == BuildContent \in Contents
BY DEF BuildContent, Contents, Of, Present

\* A step that gives a row x and a task y to one note.  The status of a row stays,
\* and what it shows and what the task has built is the whole diff.
LEMMA NoteStep ==
    ASSUME NotesInv, NEW n \in Notes, NEW x \in NoteRows, NEW y \in Tasks \cup {Absent},
           note' = [note EXCEPT ![n] = x], task' = [task EXCEPT ![n] = y],
           UNCHANGED <<change, patch>>, lost' \subseteq Notes,
           note[n] # Absent => x.status = note[n].status,
           x.generation = "completed" => x.content = BuildContent,
           y # Absent /\ y.at = "built" => y.content = BuildContent
    PROVE  NotesInv'
<1>1. /\ note \in [Notes -> NoteRows \cup {Absent}] /\ task \in [Notes -> Tasks \cup {Absent}]
      /\ x # Absent
  BY NotesAssumption DEF NotesInv, NotesTypeOK
<1>2. NotesTypeOK'  BY <1>1 DEF NotesInv, NotesTypeOK
<1>3. BuildContent' = BuildContent  BY DEF BuildContent, Of, Present
<1>4. ContentIsWhole'  BY <1>1, <1>3 DEF NotesInv, ContentIsWhole
<1>5. FreshIsAllowed'
  <2>1. ASSUME NEW p \in Patches, patch[p] # Absent
        PROVE  /\ note[patch[p].note] # Absent /\ note'[patch[p].note] # Absent
               /\ note'[patch[p].note].status = note[patch[p].note].status
    <3>1. note[patch[p].note] # Absent  BY <2>1 DEF NotesInv, FreshIsAllowed
    <3>2. patch[p].note \in Notes  BY <2>1, NotesTyped DEF Patched
    <3>. QED  BY <1>1, <3>1, <3>2
  <2>. QED  BY <2>1 DEF NotesInv, FreshIsAllowed
<1>. QED  BY <1>2, <1>4, <1>5 DEF NotesInv

LEMMA TaskInv ==
    ASSUME NotesInv, NEW n \in Notes,
           \/ CreateNote(n) \/ GenerateNote(n) \/ Build(n) \/ StoreResult(n) \/ StoreFails(n)
    PROVE  NotesInv'
<1>1. /\ note \in [Notes -> NoteRows \cup {Absent}] /\ task \in [Notes -> Tasks \cup {Absent}]
      /\ lost \subseteq Notes
  BY DEF NotesInv, NotesTypeOK
<1>2. CASE CreateNote(n)
  <2> DEFINE x == [status |-> "draft", generation |-> Absent, content |-> ByHand]
  <2>1. x \in NoteRows /\ x.generation # "completed"
    BY NotesAssumption DEF NoteRows, Statuses
  <2>2. /\ note' = [note EXCEPT ![n] = x] /\ task' = task /\ note[n] = Absent
        /\ UNCHANGED <<change, patch, lost>>
    BY <1>2 DEF CreateNote
  <2>3. task[n] = Absent  BY <2>2 DEF NotesInv, ContentIsWhole
  <2>4. task' = [task EXCEPT ![n] = Absent]  BY <1>1, <2>2, <2>3
  <2> HIDE DEF x
  <2>. QED  BY <1>1, <2>1, <2>2, <2>4, NoteStep
<1>3. CASE GenerateNote(n)
  <2> DEFINE x == [status |-> "draft", generation |-> "pending", content |-> Empty]
             y == [at |-> "build", content |-> Empty]
  <2>1. x \in NoteRows /\ x.generation # "completed"  BY DEF NoteRows, Statuses
  <2>2. y \in Tasks /\ y.at # "built"  BY DEF Tasks
  <2>3. note' = [note EXCEPT ![n] = x] /\ note[n] = Absent /\ UNCHANGED <<change, patch>>
        /\ lost' \subseteq Notes
    BY <1>1, <1>3 DEF GenerateNote
  <2>4. task' = [task EXCEPT ![n] = y] \/ task' = [task EXCEPT ![n] = Absent]
    <3>1. task[n] = Absent  BY <2>3 DEF NotesInv, ContentIsWhole
    <3>. QED  BY <1>1, <1>3, <3>1 DEF GenerateNote
  <2> HIDE DEF x, y
  <2>. QED  BY <1>1, <2>1, <2>2, <2>3, <2>4, NoteStep
<1>4. CASE Build(n)
  <2>1. task[n] \in Tasks /\ note[n] # Absent /\ note[n] \in NoteRows
    BY <1>4, NotesTyped DEF Build, NotesInv, ContentIsWhole
  <2>2. note' = [note EXCEPT ![n] = note[n]] /\ UNCHANGED <<change, patch, lost>>
    BY <1>1, <1>4 DEF Build
  <2>3. note[n].generation = "completed" => note[n].content = BuildContent
    BY <2>1 DEF NotesInv, ContentIsWhole
  <2>4. \E y \in Tasks : /\ task' = [task EXCEPT ![n] = y]
                         /\ y.at = "built" => y.content = BuildContent
    <3>1. CASE task' = [task EXCEPT ![n] = [at |-> "built", content |-> BuildContent]]
      <4> DEFINE y == [at |-> "built", content |-> BuildContent]
      <4>1. y \in Tasks /\ y.content = BuildContent  BY BuildsContents DEF Tasks
      <4>. QED  BY <3>1, <4>1
    <3>2. CASE task' = [task EXCEPT ![n].at = "failed"]
      <4> DEFINE y == [task[n] EXCEPT !.at = "failed"]
      <4>1. y \in Tasks /\ y.at # "built"  BY <2>1 DEF Tasks
      <4>2. task' = [task EXCEPT ![n] = y]  BY <3>2
      <4>. QED  BY <4>1, <4>2
    <3>. QED  BY <1>4, <3>1, <3>2 DEF Build
  <2>. QED  BY <1>1, <2>1, <2>2, <2>3, <2>4, NoteStep
<1>5. CASE StoreResult(n)
  <2>1. task[n] \in Tasks /\ task[n].at \in {"built", "failed"} /\ task[n] # Absent
        /\ note[n] # Absent /\ note[n] \in NoteRows
    BY <1>5, NotesTyped DEF StoreResult, NotesInv, ContentIsWhole, Tasks
  <2>2. task[n].at = "built" => task[n].content = BuildContent
    BY <2>1 DEF NotesInv, ContentIsWhole
  <2>3. /\ Generated(n) \in NoteRows /\ Generated(n).status = note[n].status
        /\ Generated(n).generation = "completed" => Generated(n).content = BuildContent
    <3>1. CASE task[n].at = "failed"
      BY <2>1, <3>1 DEF Generated, NoteRows
    <3>2. CASE task[n].at = "built"
      BY <2>1, <2>2, <3>2, BuildsContents DEF Generated, NoteRows
    <3>. QED  BY <2>1, <3>1, <3>2
  <2>4. /\ note' = [note EXCEPT ![n] = Generated(n)] /\ task' = [task EXCEPT ![n] = Absent]
        /\ UNCHANGED <<change, patch, lost>>
    BY <1>5 DEF StoreResult
  <2>. QED  BY <1>1, <2>3, <2>4, NoteStep
<1>6. CASE StoreFails(n)
  <2>1. note[n] # Absent /\ note[n] \in NoteRows
    BY <1>6, NotesTyped DEF StoreFails, NotesInv, ContentIsWhole
  <2>2. /\ note' = [note EXCEPT ![n] = note[n]] /\ task' = [task EXCEPT ![n] = Absent]
        /\ UNCHANGED <<change, patch>> /\ lost' \subseteq Notes
    BY <1>1, <1>6 DEF StoreFails
  <2>3. note[n].generation = "completed" => note[n].content = BuildContent
    BY <2>1 DEF NotesInv, ContentIsWhole
  <2>. QED  BY <1>1, <2>1, <2>2, <2>3, NoteStep
<1>. QED  BY <1>2, <1>3, <1>4, <1>5, <1>6

LEMMA PatchSelectInv == ASSUME NotesInv, NEW p \in Patches, PatchSelect(p) PROVE NotesInv'
<1>1. PICK n \in Notes : \E to \in Transitions(n) :
           /\ note[n] # Absent
           /\ patch' = [patch EXCEPT ![p] =
                           [note |-> n, to |-> to, at |-> "update", stale |-> FALSE]]
           /\ UNCHANGED <<change, note, task, lost>>
  BY DEF PatchSelect
<1>a. PICK to \in Transitions(n) :
           patch' = [patch EXCEPT ![p] =
                        [note |-> n, to |-> to, at |-> "update", stale |-> FALSE]]
  BY <1>1
<1> DEFINE x == [note |-> n, to |-> to, at |-> "update", stale |-> FALSE]
<1>2. note[n].status \in Statuses /\ to \in AllowedNext(note[n].status)
  BY <1>a, <1>1, NotesTyped DEF NoteRows, Transitions
<1>3. to \in Statuses  BY <1>2 DEF AllowedNext, Statuses
<1>4. /\ x \in Patched /\ x.note = n /\ x.to = to /\ ~ x.stale
      /\ patch \in [Patches -> Patched \cup {Absent}]
  BY <1>3 DEF Patched, NotesInv, NotesTypeOK
<1>5. patch' = [patch EXCEPT ![p] = x]  BY <1>a
<1> HIDE DEF x
<1>6. NotesTypeOK'  BY <1>1, <1>4, <1>5 DEF NotesInv, NotesTypeOK
<1>7. ContentIsWhole'  BY <1>1 DEF NotesInv, ContentIsWhole, BuildContent, Of, Present
<1>8. FreshIsAllowed'  BY <1>1, <1>2, <1>4, <1>5 DEF NotesInv, FreshIsAllowed
<1>. QED  BY <1>6, <1>7, <1>8 DEF NotesInv

LEMMA PatchUpdateInv == ASSUME NotesInv, NEW p \in Patches, PatchUpdate(p) PROVE NotesInv'
<1> DEFINE n == patch[p].note
           x == [note[n] EXCEPT !.status = patch[p].to]
<1>1. /\ patch[p] # Absent /\ patch[p] \in Patched /\ patch[p].at = "update"
      /\ n \in Notes /\ note[n] # Absent /\ note[n] \in NoteRows
  BY NotesTyped DEF PatchUpdate, Patched, NotesInv, FreshIsAllowed
<1>2. x \in NoteRows /\ x.generation = note[n].generation /\ x.content = note[n].content
      /\ x # Absent
  <2>1. patch[p].to \in Statuses  BY <1>1 DEF Patched
  <2>. QED  BY <1>1, <2>1, NotesAssumption DEF NoteRows
<1>3. /\ note' = [note EXCEPT ![n] = x] /\ UNCHANGED <<change, task, lost>>
      /\ note \in [Notes -> NoteRows \cup {Absent}]
  BY DEF PatchUpdate, NotesInv, NotesTypeOK
<1>4. \A q \in Patches :
         \/ q = p /\ patch'[q] = [patch[q] EXCEPT !.at = "done"]
         \/ q # p /\ patch[q] # Absent /\ patch[q].note = n
                  /\ patch'[q] = [patch[q] EXCEPT !.stale = TRUE]
         \/ q # p /\ ~ (patch[q] # Absent /\ patch[q].note = n) /\ patch'[q] = patch[q]
  BY DEF PatchUpdate
<1>5. ASSUME NEW q \in Patches
      PROVE  /\ patch'[q] \in Patched \cup {Absent}
             /\ patch'[q] # Absent => patch[q] # Absent /\ patch'[q].note = patch[q].note
             /\ patch'[q] # Absent /\ patch'[q].at = "update" /\ ~ patch'[q].stale =>
                   /\ patch[q].note # n /\ patch[q].at = "update" /\ ~ patch[q].stale
                   /\ patch'[q].to = patch[q].to
  <2>1. patch[q] # Absent => patch[q] \in Patched  BY NotesTyped
  <2>2. CASE q = p
    <3>1. patch'[q] = [patch[q] EXCEPT !.at = "done"]  BY <1>4, <2>2
    <3>2. patch[q] \in Patched /\ patch[q] # Absent  BY <1>1, <2>2
    <3>3. patch'[q] \in Patched /\ patch'[q].at = "done" /\ patch'[q].note = patch[q].note
      BY <3>1, <3>2 DEF Patched
    <3>. QED  BY <3>2, <3>3
  <2>3. CASE patch'[q] = [patch[q] EXCEPT !.stale = TRUE] /\ patch[q] # Absent
    <3>1. patch'[q] \in Patched /\ patch'[q].stale /\ patch'[q].note = patch[q].note
      BY <2>1, <2>3 DEF Patched
    <3>. QED  BY <2>3, <3>1
  <2>4. CASE ~ (patch[q] # Absent /\ patch[q].note = n) /\ patch'[q] = patch[q]
    BY <2>1, <2>4
  <2>. QED  BY <1>4, <2>2, <2>3, <2>4
<1> HIDE DEF x, n
<1>6. NotesTypeOK'
  <2>1. patch' = [q \in Patches |-> patch'[q]]  BY DEF PatchUpdate
  <2>2. patch' \in [Patches -> Patched \cup {Absent}]  BY <1>5, <2>1
  <2>. QED  BY <1>1, <1>2, <1>3, <2>2 DEF NotesInv, NotesTypeOK
<1>7. BuildContent' = BuildContent  BY <1>3 DEF BuildContent, Of, Present
<1>8. ContentIsWhole'  BY <1>1, <1>2, <1>3, <1>7 DEF NotesInv, ContentIsWhole
<1>9. FreshIsAllowed'
  <2>1. ASSUME NEW q \in Patches, patch'[q] # Absent
        PROVE  note'[patch'[q].note] # Absent
    <3>1. patch[q].note \in Notes /\ patch'[q].note = patch[q].note /\ note[patch[q].note] # Absent
      BY <1>5, <2>1, NotesTyped DEF NotesInv, FreshIsAllowed, Patched
    <3>. QED  BY <1>1, <1>2, <1>3, <3>1
  <2>2. ASSUME NEW q \in Patches, patch'[q] # Absent, patch'[q].at = "update", ~ patch'[q].stale
        PROVE  patch'[q].to \in AllowedNext(note'[patch'[q].note].status)
    <3>1. /\ patch[q] # Absent /\ patch[q].note # n /\ patch[q].at = "update" /\ ~ patch[q].stale
          /\ patch'[q].to = patch[q].to /\ patch'[q].note = patch[q].note
      BY <1>5, <2>2
    <3>2. note'[patch[q].note] = note[patch[q].note]  BY <1>3, <3>1
    <3>3. patch[q].to \in AllowedNext(note[patch[q].note].status)
      BY <3>1 DEF NotesInv, FreshIsAllowed
    <3>. QED  BY <3>1, <3>2, <3>3
  <2>3. \A s : AllowedNext(s)' = AllowedNext(s)  BY DEF AllowedNext
  <2>. QED  BY <2>1, <2>2 DEF FreshIsAllowed
<1>. QED  BY <1>6, <1>8, <1>9 DEF NotesInv

LEMMA NotesCrashInv == NotesInv /\ NotesCrash => NotesInv'
<1> SUFFICES ASSUME NotesInv, NotesCrash PROVE NotesInv'  OBVIOUS
<1>1. /\ task' = [n \in Notes |-> Absent] /\ UNCHANGED <<change, note>>
      /\ lost' = lost \cup {n \in Notes : task[n] # Absent}
      /\ patch' = [p \in Patches |->
                      IF patch[p] = Absent THEN Absent ELSE [patch[p] EXCEPT !.at = "done"]]
  BY DEF NotesCrash
<1>2. ASSUME NEW p \in Patches
      PROVE  \/ patch[p] = Absent /\ patch'[p] = Absent
             \/ /\ patch[p] # Absent /\ patch'[p] \in Patched /\ patch'[p].at = "done"
                /\ patch'[p].note = patch[p].note
  <2>1. patch[p] # Absent => patch[p] \in Patched  BY NotesTyped
  <2>2. patch[p] # Absent => patch'[p] = [patch[p] EXCEPT !.at = "done"]  BY <1>1
  <2>3. patch[p] = Absent => patch'[p] = Absent  BY <1>1
  <2>. QED  BY <2>1, <2>2, <2>3 DEF Patched
<1>3. NotesTypeOK'
  <2>1. patch' \in [Patches -> Patched \cup {Absent}]  BY <1>1, <1>2
  <2>. QED  BY <1>1, <2>1 DEF NotesInv, NotesTypeOK
<1>4. ContentIsWhole'  BY <1>1 DEF NotesInv, ContentIsWhole, BuildContent, Of, Present
<1>5. FreshIsAllowed'  BY <1>1, <1>2 DEF NotesInv, FreshIsAllowed
<1>. QED  BY <1>3, <1>4, <1>5 DEF NotesInv

LEMMA NotesStep == NotesInv /\ (NotesNext \/ NotesCrash \/ UNCHANGED noteVars) => NotesInv'
<1>1. NotesInv /\ UNCHANGED noteVars => NotesInv'
  BY DEF noteVars, NotesInv, NotesTypeOK, ContentIsWhole, FreshIsAllowed, BuildContent, Of, Present
<1>. QED  BY <1>1, TaskInv, PatchSelectInv, PatchUpdateInv, NotesCrashInv DEF NotesNext

LEMMA PolledAreWhole == NotesInv => PolledNotesAreWhole
<1> SUFFICES ASSUME NotesInv, NEW n \in Notes, note[n] # Absent, Polled(n) # Absent
             PROVE  LET c == Polled(n)
                    IN  /\ c.breaking \cup c.risky \cup c.safe = Present
                        /\ c.breaking \cap c.risky = {}
                        /\ c.safe \cap (c.breaking \cup c.risky) = {}
                        /\ c.breaking = MigrationGuide
  BY DEF PolledNotesAreWhole
<1>1. Polled(n) = BuildContent  BY DEF Polled, NotesInv, ContentIsWhole
<1>2. /\ BuildContent.breaking = Of("breaking") /\ BuildContent.risky = Of("non_breaking_risky")
      /\ BuildContent.safe = Of("safe")
  BY DEF BuildContent
<1>3. \A c \in Present : change[c] \in Severities
  BY DEF Present, NotesInv, NotesTypeOK
<1>4. Of("breaking") \cup Of("non_breaking_risky") \cup Of("safe") = Present
  BY <1>3 DEF Of, Severities
<1>5. Of("breaking") \cap Of("non_breaking_risky") = {}
      /\ Of("safe") \cap (Of("breaking") \cup Of("non_breaking_risky")) = {}
  BY DEF Of
<1>6. Of("breaking") = MigrationGuide  BY DEF Of, MigrationGuide
<1>. QED  BY <1>1, <1>2, <1>4, <1>5, <1>6

LEMMA StatusStep ==
    NotesInv => \A p \in Patches : (PatchUpdate(p) /\ ~ patch[p].stale) =>
        note'[patch[p].note].status \in AllowedNext(note[patch[p].note].status)
<1> SUFFICES ASSUME NotesInv, NEW p \in Patches, PatchUpdate(p), ~ patch[p].stale
             PROVE  note'[patch[p].note].status \in AllowedNext(note[patch[p].note].status)
  OBVIOUS
<1>1. /\ patch[p] # Absent /\ patch[p] \in Patched /\ patch[p].at = "update"
      /\ patch[p].note \in Notes /\ note[patch[p].note] \in NoteRows
  BY NotesTyped DEF PatchUpdate, Patched, NotesInv, FreshIsAllowed
<1>2. patch[p].to \in AllowedNext(note[patch[p].note].status)
  BY <1>1 DEF NotesInv, FreshIsAllowed
<1>3. note'[patch[p].note].status = patch[p].to
  BY <1>1 DEF PatchUpdate, NotesInv, NotesTypeOK, NoteRows
<1>. QED  BY <1>2, <1>3

-----------------------------------------------------------------------------
(* Settings and retention.                                                 *)

\* Who wrote a setting is a PUT that has begun.
WritersHaveBegun ==
    \A o \in Tenants, k \in KeySet : setting[o][k] # Unset => put[setting[o][k]] \in Requested

\* A PUT that has met nobody finds its keys as it wrote them.
AloneIsKept ==
    /\ \A p, q \in Puts : p # q /\ InFlight(p) /\ InFlight(q) /\ put[p].org = put[q].org
          => ~ put[p].alone
    /\ \A p \in Puts : InFlight(p) /\ put[p].alone =>
          \A k \in 1 .. put[p].next - 1 : setting[put[p].org][Keys[k]] = p

\* A pass deletes by the windows that were promised.
PassIsPromised ==
    pass # Asleep =>
        /\ pass = [read |-> pass.read, statements |-> pass.statements]
        /\ DOMAIN pass.read \subseteq Tenants
        /\ pass.statements \in Seq([kind : {"usage", "csv", "evidence"},
                                    scope : DOMAIN pass.read \cup {Rest}])
        /\ \A o \in Tenants :
              promised[o] = IF o \in DOMAIN pass.read THEN pass.read[o] ELSE DefaultDays

RetentionInv == RetentionTypeOK /\ WritersHaveBegun /\ AloneIsKept /\ PassIsPromised

LEMMA FourKeys == Len(Keys) = 4 /\ KeySet = {Keys[1], Keys[2], Keys[3], Keys[4]}
                  /\ "retention.days" \in KeySet
BY DEF Keys, KeySet

LEMMA RetentionStarts == RetentionInit => RetentionInv
<1> SUFFICES ASSUME RetentionInit PROVE RetentionInv  OBVIOUS
<1>1. RetentionTypeOK  BY RetentionAssumption DEF RetentionInit, RetentionTypeOK, NoPass
<1>2. WritersHaveBegun  BY DEF RetentionInit, WritersHaveBegun
<1>3. AloneIsKept  BY DEF RetentionInit, AloneIsKept, InFlight
<1>4. PassIsPromised  BY DEF RetentionInit, PassIsPromised
<1>. QED  BY <1>1, <1>2, <1>3, <1>4 DEF RetentionInv

LEMMA RetentionTyped ==
    RetentionInv => /\ put \in [Puts -> Requested \cup {Unset}]
                    /\ \A p \in Puts : put[p] # Unset => put[p] \in Requested
                    /\ setting \in [Tenants -> [KeySet -> Puts \cup {Unset}]]
BY DEF RetentionInv, RetentionTypeOK

\* A statement of the pass names its rows.
LEMMA StatementsTyped ==
    ASSUME NEW S, IsFiniteSet(S), NEW order \in SetToSeqs(S)
    PROVE  Statements(order) \in Seq([kind : {"usage", "csv", "evidence"}, scope : S \cup {Rest}])
<1> DEFINE T == [kind : {"usage", "csv", "evidence"}, scope : S \cup {Rest}]
           n == Cardinality(S)
           at(i) == Statement(IF i % 2 = 1 THEN "usage" ELSE "csv", order[(i + 1) \div 2])
           front == [i \in 1 .. 2 * Len(order) |-> at(i)]
           rest == <<Statement("usage", Rest), Statement("evidence", Rest), Statement("csv", Rest)>>
<1>1. n \in Nat  BY FS_CardinalityType
<1>2. order \in [1 .. n -> S]  BY DEF SetToSeqs
<1>3. Len(order) = n /\ \A i \in 1 .. n : order[i] \in S  BY <1>1, <1>2
<1>4. \A i \in 1 .. 2 * n : (i + 1) \div 2 \in 1 .. n  BY <1>1
<1>5. \A i \in 1 .. 2 * n : at(i) \in T  BY <1>3, <1>4 DEF Statement
<1> HIDE DEF at, T
<1>6. 2 * n \in Nat /\ front \in [1 .. 2 * n -> T]  BY <1>1, <1>3, <1>5
<1>7. front \in Seq(T)  BY <1>6
<1>8. rest \in Seq(T)  BY DEF Statement, T
<1> HIDE DEF front, rest
<1>9. front \o rest \in Seq(T)  BY <1>7, <1>8
<1>. QED  BY <1>9 DEF Statements, front, rest, at, T

-----------------------------------------------------------------------------

LEMMA BeginPutInv == ASSUME RetentionInv, NEW p \in Puts, BeginPut(p) PROVE RetentionInv'
<1>1. PICK o \in Tenants : \E w \in Windows :
        LET met == {x \in Puts : InFlight(x) /\ put[x].org = o}
        IN  put' = [x \in Puts |->
                      IF x = p THEN [org |-> o, days |-> w, next |-> 1, alone |-> met = {}]
                      ELSE IF x \in met THEN [put[x] EXCEPT !.alone = FALSE]
                      ELSE put[x]]
  BY DEF BeginPut
<1> DEFINE met == {x \in Puts : InFlight(x) /\ put[x].org = o}
<1>2. PICK w \in Windows :
        put' = [x \in Puts |->
                      IF x = p THEN [org |-> o, days |-> w, next |-> 1, alone |-> met = {}]
                      ELSE IF x \in met THEN [put[x] EXCEPT !.alone = FALSE]
                      ELSE put[x]]
  BY <1>1
<1>3. /\ put[p] = Unset /\ UNCHANGED <<day, setting, row, pass, promised, faults>>
      /\ ~ InFlight(p) /\ p \notin met
  BY DEF BeginPut, InFlight
<1>4. /\ put'[p].org = o /\ put'[p].next = 1 /\ put'[p].alone = (met = {})
      /\ put'[p] \in Requested
  <2>1. put'[p] = [org |-> o, days |-> w, next |-> 1, alone |-> met = {}]  BY <1>2
  <2>. QED  BY <2>1, FourKeys DEF Requested
<1>5. ASSUME NEW x \in Puts \ {p}
      PROVE  /\ put[x] # Unset => put'[x] \in Requested
             /\ put[x] # Unset => /\ put'[x].org = put[x].org /\ put'[x].next = put[x].next
                                  /\ put'[x].days = put[x].days
                                  /\ x \in met => ~ put'[x].alone
                                  /\ x \notin met => put'[x] = put[x]
             /\ put[x] = Unset => put'[x] = Unset
  <2>1. CASE x \in met
    <3>1. put'[x] = [put[x] EXCEPT !.alone = FALSE]  BY <1>2, <2>1
    <3>2. put[x] # Unset /\ put[x] \in Requested  BY <2>1, RetentionTyped DEF InFlight
    <3>. QED  BY <2>1, <3>1, <3>2 DEF Requested
  <2>2. CASE x \notin met
    <3>1. put'[x] = put[x]  BY <1>2, <2>2
    <3>. QED  BY <2>2, <3>1, RetentionTyped
  <2>. QED  BY <2>1, <2>2
<1> HIDE DEF met
<1>6. RetentionTypeOK'
  <2>1. \A x \in Puts : put'[x] \in Requested \cup {Unset}  BY <1>4, <1>5
  <2>2. put' = [x \in Puts |-> put'[x]]  BY <1>2
  <2>3. put' \in [Puts -> Requested \cup {Unset}]  BY <2>1, <2>2
  <2>. QED  BY <1>3, <2>3 DEF RetentionInv, RetentionTypeOK
<1>7. WritersHaveBegun'
  <2>1. ASSUME NEW x \in Puts, put[x] \in Requested PROVE put'[x] \in Requested
    BY <1>4, <1>5, <2>1, <1>3
  <2>. QED  BY <1>3, <2>1, RetentionTyped DEF RetentionInv, WritersHaveBegun
<1>8. ASSUME NEW x \in Puts \ {p}, InFlight(x)'
      PROVE  /\ InFlight(x) /\ put'[x].org = put[x].org /\ put'[x].next = put[x].next
             /\ put'[x].alone => put[x].alone
             /\ x \in met => ~ put'[x].alone
  <2>1. put[x] # Unset  BY <1>5, <1>8 DEF InFlight
  <2>2. InFlight(x)  BY <1>5, <1>8, <2>1 DEF InFlight
  <2>3. put'[x].alone => put[x].alone  BY <1>5, <2>1
  <2>. QED  BY <1>5, <2>1, <2>2, <2>3
<1>9. AloneIsKept'
  <2>1. ASSUME NEW x \in Puts \ {p}, InFlight(x)', put'[x].org = o
        PROVE  ~ put'[x].alone /\ ~ put'[p].alone
    <3>1. x \in met  BY <1>8, <2>1 DEF met
    <3>. QED  BY <1>4, <1>8, <2>1, <3>1
  <2>2. ASSUME NEW x \in Puts \ {p}, NEW y \in Puts \ {p}, x # y, InFlight(x)', InFlight(y)',
               put'[x].org = put'[y].org
        PROVE  ~ put'[x].alone
    <3>1. InFlight(x) /\ InFlight(y) /\ put[x].org = put[y].org  BY <1>8, <2>2
    <3>2. ~ put[x].alone  BY <2>2, <3>1 DEF RetentionInv, AloneIsKept
    <3>. QED  BY <1>8, <2>2, <3>2
  <2>3. ASSUME NEW x \in Puts, InFlight(x)', put'[x].alone, NEW k \in 1 .. put'[x].next - 1
        PROVE  setting'[put'[x].org][Keys[k]] = x
    <3>1. x # p  BY <1>4, <2>3
    <3>2. InFlight(x) /\ put[x].alone /\ k \in 1 .. put[x].next - 1
          /\ put'[x].org = put[x].org
      BY <1>8, <2>3, <3>1
    <3>. QED  BY <1>3, <3>2 DEF RetentionInv, AloneIsKept
  <2>4. ASSUME NEW x \in Puts, NEW y \in Puts, x # y, InFlight(x)', InFlight(y)',
               put'[x].org = put'[y].org
        PROVE  ~ put'[x].alone
    <3>1. CASE x = p  BY <1>4, <2>1, <2>4, <3>1
    <3>2. CASE y = p  BY <1>4, <2>1, <2>4, <3>2
    <3>3. CASE x # p /\ y # p  BY <2>2, <2>4, <3>3
    <3>. QED  BY <3>1, <3>2, <3>3
  <2>. QED  BY <2>3, <2>4 DEF AloneIsKept
<1>10. PassIsPromised'  BY <1>3 DEF RetentionInv, PassIsPromised
<1>. QED  BY <1>6, <1>7, <1>9, <1>10 DEF RetentionInv

LEMMA UpsertKeyInv == ASSUME RetentionInv, NEW p \in Puts, UpsertKey(p) PROVE RetentionInv'
<1> DEFINE o == put[p].org
           key == Keys[put[p].next]
<1>1. /\ put[p] \in Requested /\ o \in Tenants /\ key \in KeySet /\ InFlight(p)
      /\ put[p].next \in 1 .. 4
  <2>1. put[p] \in Requested /\ InFlight(p) /\ put[p].next \in 1 .. 4
    BY RetentionTyped, FourKeys DEF UpsertKey, InFlight
  <2>2. key \in KeySet  BY <2>1, FourKeys
  <2>. QED  BY <2>1, <2>2 DEF Requested
<1>2. /\ setting \in [Tenants -> [KeySet -> Puts \cup {Unset}]]
      /\ put \in [Puts -> Requested \cup {Unset}]
  BY RetentionTyped
<1>3. /\ setting' = [setting EXCEPT ![o][key] = p]
      /\ put' = [put EXCEPT ![p].next = @ + 1]
      /\ UNCHANGED <<day, row, pass, promised, faults>>
  BY DEF UpsertKey, Upserted
<1> HIDE DEF key, o
<1>4. /\ setting' \in [Tenants -> [KeySet -> Puts \cup {Unset}]]
      /\ setting'[o][key] = p
      /\ \A k \in KeySet \ {key} : setting'[o][k] = setting[o][k]
      /\ \A x \in Tenants \ {o} : setting'[x] = setting[x]
  BY <1>1, <1>2, <1>3
<1>5. /\ put'[p] \in Requested /\ put'[p].org = put[p].org /\ put'[p].next = put[p].next + 1
      /\ put'[p].alone = put[p].alone
      /\ \A x \in Puts \ {p} : put'[x] = put[x]
      /\ put' \in [Puts -> Requested \cup {Unset}]
  <2> DEFINE y == [put[p] EXCEPT !.next = @ + 1]
  <2>1. /\ y \in Requested /\ y.org = put[p].org /\ y.next = put[p].next + 1
        /\ y.alone = put[p].alone
    BY <1>1, FourKeys DEF Requested
  <2>2. put' = [put EXCEPT ![p] = y]  BY <1>3
  <2> HIDE DEF y
  <2>. QED  BY <1>2, <2>1, <2>2
<1>6. RetentionTypeOK'  BY <1>3, <1>4, <1>5 DEF RetentionInv, RetentionTypeOK
<1>7. WritersHaveBegun'
  <2>1. \A x \in Puts : put[x] \in Requested => put'[x] \in Requested  BY <1>5
  <2>2. ASSUME NEW x \in Tenants, NEW k \in KeySet, setting'[x][k] # Unset
        PROVE  put'[setting'[x][k]] \in Requested
    <3>1. CASE x = o /\ k = key  BY <1>4, <1>5, <3>1
    <3>2. CASE ~ (x = o /\ k = key)
      <4>1. setting'[x][k] = setting[x][k]  BY <1>4, <3>2
      <4>2. put[setting[x][k]] \in Requested /\ setting[x][k] \in Puts
        BY <1>2, <2>2, <4>1 DEF RetentionInv, WritersHaveBegun
      <4>. QED  BY <2>1, <4>1, <4>2
    <3>. QED  BY <3>1, <3>2
  <2>. QED  BY <2>2 DEF WritersHaveBegun
<1>8. \A x \in Puts : InFlight(x)' => InFlight(x)
  BY <1>1, <1>5 DEF InFlight
<1>9. AloneIsKept'
  <2>1. \A x \in Puts : put'[x].org = put[x].org /\ put'[x].alone = put[x].alone
    BY <1>5
  <2>2. ASSUME NEW x \in Puts, InFlight(x)', put'[x].alone, NEW k \in 1 .. put'[x].next - 1
        PROVE  setting'[put'[x].org][Keys[k]] = x
    <3>1. InFlight(x) /\ put[x].alone  BY <1>8, <2>1, <2>2
    <3>2. x # p => put[x].org # o
      BY <1>1, <3>1 DEF RetentionInv, AloneIsKept, o
    <3>3. put[x] \in Requested /\ put[x].org \in Tenants /\ put'[x].next \in 1 .. 4
      BY <2>2, <3>1, RetentionTyped, FourKeys DEF InFlight, Requested
    <3>4. Keys[k] \in KeySet  BY <2>2, <3>3, FourKeys
    <3>5. CASE x # p
      <4>1. setting[put[x].org][Keys[k]] = x
        BY <1>5, <2>2, <3>1, <3>5 DEF RetentionInv, AloneIsKept
      <4>. QED  BY <1>4, <2>1, <3>2, <3>3, <3>5, <4>1
    <3>6. CASE x = p
      <4>1. CASE k = put[p].next  BY <1>4, <2>1, <3>6, <4>1 DEF key, o
      <4>2. CASE k \in 1 .. put[p].next - 1
        <5>1. setting[o][Keys[k]] = p
          BY <3>1, <3>6, <4>2 DEF RetentionInv, AloneIsKept, o
        <5>2. setting'[o][Keys[k]] = p  BY <1>4, <3>4, <5>1
        <5>. QED  BY <2>1, <3>6, <5>2 DEF o
      <4>. QED  BY <1>1, <1>5, <2>2, <3>6, <4>1, <4>2
    <3>. QED  BY <3>5, <3>6
  <2>3. ASSUME NEW x \in Puts, NEW y \in Puts, x # y, InFlight(x)', InFlight(y)',
               put'[x].org = put'[y].org
        PROVE  ~ put'[x].alone
    BY <1>8, <2>1, <2>3 DEF RetentionInv, AloneIsKept
  <2>. QED  BY <2>2, <2>3 DEF AloneIsKept
<1>10. PassIsPromised'  BY <1>3 DEF RetentionInv, PassIsPromised
<1>. QED  BY <1>6, <1>7, <1>9, <1>10 DEF RetentionInv

\* PUTs that break off are in flight no more.
LEMMA BrokenOffInv ==
    ASSUME RetentionInv, UNCHANGED setting,
           \A x \in Puts : put'[x] = put[x] \/ (InFlight(x) /\ put'[x] = [put[x] EXCEPT !.next = 0]),
           put' = [x \in Puts |-> put'[x]]
    PROVE  /\ put' \in [Puts -> Requested \cup {Unset}] /\ WritersHaveBegun' /\ AloneIsKept'
<1>1. ASSUME NEW x \in Puts
      PROVE  /\ put[x] \in Requested => put'[x] \in Requested
             /\ put'[x] \in Requested \cup {Unset}
             /\ InFlight(x)' => InFlight(x) /\ put'[x] = put[x]
  <2>1. CASE put'[x] = put[x]  BY <2>1, RetentionTyped DEF InFlight
  <2>2. CASE InFlight(x) /\ put'[x] = [put[x] EXCEPT !.next = 0]
    <3>1. put[x] \in Requested  BY <2>2, RetentionTyped DEF InFlight
    <3>2. put'[x] \in Requested /\ put'[x].next = 0  BY <2>2, <3>1, FourKeys DEF Requested
    <3>. QED  BY <3>2 DEF InFlight
  <2>. QED  BY <2>1, <2>2
<1>2. put' \in [Puts -> Requested \cup {Unset}]  BY <1>1
<1>3. WritersHaveBegun'  BY <1>1, RetentionTyped DEF RetentionInv, WritersHaveBegun
<1>4. AloneIsKept'  BY <1>1 DEF RetentionInv, AloneIsKept
<1>. QED  BY <1>2, <1>3, <1>4

LEMMA PutBreaksOffInv == ASSUME RetentionInv, NEW p \in Puts, PutBreaksOff(p) PROVE RetentionInv'
<1>1. /\ InFlight(p) /\ put' = [put EXCEPT ![p].next = 0]
      /\ UNCHANGED <<day, setting, row, pass, promised, faults>>
  BY DEF PutBreaksOff
<1>2. /\ \A x \in Puts : put'[x] = put[x] \/ (InFlight(x) /\ put'[x] = [put[x] EXCEPT !.next = 0])
      /\ put' = [x \in Puts |-> put'[x]]
  BY <1>1, RetentionTyped
<1>3. put' \in [Puts -> Requested \cup {Unset}] /\ WritersHaveBegun' /\ AloneIsKept'
  BY <1>1, <1>2, BrokenOffInv
<1>4. RetentionTypeOK'  BY <1>1, <1>3 DEF RetentionInv, RetentionTypeOK
<1>5. PassIsPromised'  BY <1>1 DEF RetentionInv, PassIsPromised
<1>. QED  BY <1>3, <1>4, <1>5 DEF RetentionInv

\* The window in force is one that somebody chose.
LEMMA WindowsTyped ==
    RetentionInv => \A o \in Tenants : WindowOf(o) \in Windows \cup {DefaultDays}
<1> SUFFICES ASSUME RetentionInv, NEW o \in Tenants
             PROVE  WindowOf(o) \in Windows \cup {DefaultDays}
  OBVIOUS
<1>1. CASE setting[o]["retention.days"] # Unset
  <2>1. put[setting[o]["retention.days"]] \in Requested
    BY <1>1, FourKeys DEF RetentionInv, WritersHaveBegun
  <2>. QED  BY <1>1, <2>1 DEF WindowOf, Requested
<1>2. CASE setting[o]["retention.days"] = Unset  BY <1>2 DEF WindowOf
<1>. QED  BY <1>1, <1>2

LEMMA ReadWindowsInv == RetentionInv /\ ReadWindows => RetentionInv'
<1> SUFFICES ASSUME RetentionInv, ReadWindows PROVE RetentionInv'  OBVIOUS
<1>1. PICK ok \in BOOLEAN :
        LET read == IF ok THEN ConfiguredRetentionDays ELSE <<>>
        IN  /\ ok \/ faults < MaxFaults
            /\ faults' = IF ok THEN faults ELSE faults + 1
            /\ promised' = [o \in Tenants |-> IF ok THEN WindowOf(o) ELSE DefaultDays]
            /\ \E order \in SetToSeqs(DOMAIN read) :
                  pass' = [read |-> read, statements |-> Statements(order)]
  BY DEF ReadWindows
<1> DEFINE read == IF ok THEN ConfiguredRetentionDays ELSE <<>>
<1>2. PICK order \in SetToSeqs(DOMAIN read) :
         pass' = [read |-> read, statements |-> Statements(order)]
  BY <1>1
<1>3. UNCHANGED <<day, setting, put, row>>  BY DEF ReadWindows
<1>4. /\ DOMAIN read \subseteq Tenants
      /\ \A o \in Tenants : promised'[o] = IF o \in DOMAIN read THEN read[o] ELSE DefaultDays
  <2>1. CASE ok
    <3>1. read = ConfiguredRetentionDays  BY <2>1
    <3>2. promised' = [o \in Tenants |-> WindowOf(o)]  BY <1>1, <2>1
    <3>. QED  BY <3>1, <3>2 DEF ConfiguredRetentionDays, WindowOf
  <2>2. CASE ~ ok
    <3>1. read = <<>>  BY <2>2
    <3>2. promised' = [o \in Tenants |-> DefaultDays]  BY <1>1, <2>2
    <3>. QED  BY <3>1, <3>2
  <2>. QED  BY <2>1, <2>2
<1>5. promised' \in [Tenants -> Windows \cup {DefaultDays}]  BY <1>1, WindowsTyped
<1>6. faults' \in 0 .. MaxFaults
  BY <1>1, RetentionAssumption DEF RetentionInv, RetentionTypeOK
<1> HIDE DEF read
<1>7. IsFiniteSet(DOMAIN read)  BY <1>4, RetentionAssumption, FS_Subset
<1>8. pass'.read = read /\ pass'.statements = Statements(order)  BY <1>2
<1>9. Statements(order) \in Seq([kind : {"usage", "csv", "evidence"},
                                 scope : DOMAIN read \cup {Rest}])
  BY <1>7, StatementsTyped
<1>10. PassIsPromised'  BY <1>2, <1>4, <1>8, <1>9 DEF PassIsPromised
<1>11. RetentionTypeOK'
  BY <1>3, <1>4, <1>5, <1>6, <1>8 DEF RetentionInv, RetentionTypeOK
<1>12. WritersHaveBegun' /\ AloneIsKept'
  BY <1>3 DEF RetentionInv, WritersHaveBegun, AloneIsKept, InFlight
<1>. QED  BY <1>10, <1>11, <1>12 DEF RetentionInv

\* The pass goes on to its next statement, or ends.
LEMMA ProceedInv ==
    ASSUME RetentionInv, pass.statements # <<>>, pass' = Proceed,
           promised' = IF pass' = Asleep THEN NoPass ELSE promised,
           UNCHANGED <<day, setting, put>>,
           row' \in [Items -> 0 .. MaxDay \cup {Unset, Purged}], faults' \in 0 .. MaxFaults
    PROVE  RetentionInv'
<1>1. pass # Asleep  BY DEF Asleep
<1>2. PassIsPromised'
  <2>1. SUFFICES ASSUME pass' # Asleep PROVE PassIsPromised'  BY DEF PassIsPromised
  <2>2. /\ pass' = [pass EXCEPT !.statements = Tail(@)] /\ promised' = promised
        /\ pass = [read |-> pass.read, statements |-> pass.statements]
    BY <1>1, <2>1 DEF Proceed, RetentionInv, PassIsPromised
  <2>3. pass' = [read |-> pass.read, statements |-> Tail(pass.statements)]  BY <2>2
  <2>4. pass'.read = pass.read /\ pass'.statements = Tail(pass.statements)  BY <2>3
  <2>5. \A T : pass.statements \in Seq(T) => Tail(pass.statements) \in Seq(T)
    BY HeadTailProperties
  <2>. QED  BY <1>1, <2>2, <2>3, <2>4, <2>5 DEF RetentionInv, PassIsPromised
<1>3. promised' \in [Tenants -> Windows \cup {DefaultDays}]
  BY DEF RetentionInv, RetentionTypeOK, NoPass
<1>4. RetentionTypeOK'  BY <1>2, <1>3 DEF RetentionInv, RetentionTypeOK, PassIsPromised
<1>5. WritersHaveBegun' /\ AloneIsKept'
  BY DEF RetentionInv, WritersHaveBegun, AloneIsKept, InFlight
<1>. QED  BY <1>2, <1>4, <1>5 DEF RetentionInv

LEMMA RetentionKeeps ==
    RetentionInv /\ (RetentionNext \/ RetentionCrash \/ UNCHANGED retentionVars) => RetentionInv'
<1> SUFFICES ASSUME RetentionInv, RetentionNext \/ RetentionCrash \/ UNCHANGED retentionVars
             PROVE  RetentionInv'
  OBVIOUS
<1>1. /\ row \in [Items -> 0 .. MaxDay \cup {Unset, Purged}] /\ faults \in 0 .. MaxFaults
      /\ day \in 0 .. MaxDay
      /\ MaxFaults \in Nat /\ MaxDay \in Nat
  BY RetentionAssumption DEF RetentionInv, RetentionTypeOK
<1>2. CASE RunStatement
  <2>1. row' \in [Items -> 0 .. MaxDay \cup {Unset, Purged}] /\ faults' \in 0 .. MaxFaults
    BY <1>1, <1>2 DEF RunStatement
  <2>. QED  BY <1>2, <2>1, ProceedInv DEF RunStatement
<1>3. CASE StatementFails
  <2>1. row' \in [Items -> 0 .. MaxDay \cup {Unset, Purged}] /\ faults' \in 0 .. MaxFaults
    BY <1>1, <1>3 DEF StatementFails
  <2>. QED  BY <1>3, <2>1, ProceedInv DEF StatementFails, AfterFault
<1>4. CASE RetentionCrash
  <2>1. /\ pass' = Asleep /\ promised' = NoPass /\ UNCHANGED <<day, setting, row>>
        /\ put' = [p \in Puts |-> IF InFlight(p) THEN [put[p] EXCEPT !.next = 0] ELSE put[p]]
        /\ faults' \in 0 .. MaxFaults
    BY <1>1, <1>4 DEF RetentionCrash
  <2>2. /\ \A x \in Puts : put'[x] = put[x] \/ (InFlight(x) /\ put'[x] = [put[x] EXCEPT !.next = 0])
        /\ put' = [x \in Puts |-> put'[x]]
    BY <2>1
  <2>3. put' \in [Puts -> Requested \cup {Unset}] /\ WritersHaveBegun' /\ AloneIsKept'
    BY <2>1, <2>2, BrokenOffInv
  <2>4. RetentionTypeOK'  BY <2>1, <2>3 DEF RetentionInv, RetentionTypeOK, NoPass
  <2>. QED  BY <2>1, <2>3, <2>4 DEF RetentionInv, PassIsPromised
<1>5. CASE (\E i \in Items : Record(i)) \/ NextDay \/ UNCHANGED retentionVars
  <2>1. /\ row' \in [Items -> 0 .. MaxDay \cup {Unset, Purged}] /\ day' \in 0 .. MaxDay
        /\ UNCHANGED <<setting, put, pass, promised, faults>>
    BY <1>1, <1>5 DEF Record, NextDay, retentionVars
  <2>2. RetentionTypeOK'  BY <2>1 DEF RetentionInv, RetentionTypeOK
  <2>. QED
    BY <2>1, <2>2 DEF RetentionInv, WritersHaveBegun, AloneIsKept, InFlight, PassIsPromised
<1>. QED
  BY <1>2, <1>3, <1>4, <1>5, BeginPutInv, UpsertKeyInv, PutBreaksOffInv, ReadWindowsInv
     DEF RetentionNext, RetentionStep

-----------------------------------------------------------------------------

\* A PUT that has met nobody is in force when it has written its last key.
LEMMA PutStep ==
    RetentionInv => \A p \in Puts :
        (UpsertKey(p) /\ put[p].next = Len(Keys) /\ put[p].alone)
            => \A k \in KeySet : setting'[put[p].org][k] = p
<1> SUFFICES ASSUME RetentionInv, NEW p \in Puts, UpsertKey(p), put[p].next = Len(Keys),
                    put[p].alone, NEW k \in KeySet
             PROVE  setting'[put[p].org][k] = p
  OBVIOUS
<1> DEFINE o == put[p].org
<1>1. /\ put[p] \in Requested /\ o \in Tenants /\ InFlight(p) /\ put[p].next = 4
      /\ setting \in [Tenants -> [KeySet -> Puts \cup {Unset}]]
  BY RetentionTyped, FourKeys DEF UpsertKey, InFlight, Requested
<1>2. setting' = [setting EXCEPT ![o][Keys[4]] = p]  BY <1>1 DEF UpsertKey, Upserted
<1>3. \A n \in 1 .. 3 : setting[o][Keys[n]] = p
  BY <1>1 DEF RetentionInv, AloneIsKept
<1> HIDE DEF o
<1>4. /\ setting'[o][Keys[4]] = p
      /\ \A x \in KeySet \ {Keys[4]} : setting'[o][x] = setting[o][x]
  BY <1>1, <1>2, FourKeys
<1>5. setting'[o][k] = p
  <2>1. CASE k = Keys[4]  BY <1>4, <2>1
  <2>2. CASE k # Keys[4]
    <3>1. PICK n \in 1 .. 3 : k = Keys[n]  BY <2>2, FourKeys
    <3>. QED  BY <1>3, <1>4, <2>2, <3>1
  <2>. QED  BY <2>1, <2>2
<1>. QED  BY <1>5 DEF o

\* A step deletes what is older than the window that was promised.
LEMMA DeletionStep ==
    RetentionInv /\ [RetentionNext \/ RetentionCrash]_retentionVars =>
        \A i \in Items : (row'[i] = Purged /\ row[i] # Purged) =>
            i.kind # "evidence" /\ day - row[i] > promised[i.org]
<1> SUFFICES ASSUME RetentionInv, [RetentionNext \/ RetentionCrash]_retentionVars,
                    NEW i \in Items, row'[i] = Purged, row[i] # Purged
             PROVE  i.kind # "evidence" /\ day - row[i] > promised[i.org]
  OBVIOUS
<1>1. row \in [Items -> 0 .. MaxDay \cup {Unset, Purged}] /\ day \in Nat /\ i.org \in Tenants
  BY RetentionAssumption DEF RetentionInv, RetentionTypeOK
<1>2. ASSUME NEW j \in Items, Record(j) PROVE FALSE
  BY <1>1, <1>2, RetentionAssumption DEF Record
<1>3. ASSUME NEW p \in Puts, BeginPut(p) \/ UpsertKey(p) \/ PutBreaksOff(p) PROVE FALSE
  BY <1>3 DEF BeginPut, UpsertKey, PutBreaksOff
<1>4. ~ (ReadWindows \/ StatementFails \/ RetentionCrash \/ NextDay \/ UNCHANGED retentionVars)
  BY DEF ReadWindows, StatementFails, RetentionCrash, NextDay, retentionVars
<1>5. RunStatement  BY <1>2, <1>3, <1>4 DEF RetentionNext, RetentionStep
<1> DEFINE s == Head(pass.statements)
<1>6. i \in Doomed(s)  BY <1>5 DEF RunStatement
<1>7. pass # Asleep /\ pass.statements # <<>>  BY <1>5 DEF RunStatement, Asleep
<1>8. s.scope \in DOMAIN pass.read \cup {Rest}
  <2> DEFINE T == [kind : {"usage", "csv", "evidence"}, scope : DOMAIN pass.read \cup {Rest}]
             q == pass.statements
  <2>1. q \in Seq(T) /\ q # <<>>  BY <1>7 DEF RetentionInv, PassIsPromised
  <2>2. s = Head(q)  OBVIOUS
  <2> HIDE DEF T, q, s
  <2>3. s \in T  BY <2>1, <2>2
  <2>. QED  BY <2>3 DEF T
<1>9. promised[i.org] = IF i.org \in DOMAIN pass.read THEN pass.read[i.org] ELSE DefaultDays
  BY <1>1, <1>7 DEF RetentionInv, PassIsPromised
<1>10. DaysFor(s.scope) = promised[i.org]
  BY <1>1, <1>6, <1>8, <1>9, RetentionAssumption DEF Doomed, InScope, DaysFor
<1>. QED  BY <1>6, <1>10 DEF Doomed

-----------------------------------------------------------------------------
(* The background work as a whole.                                         *)

HousekeepingInv == area \in Areas /\ RetentionInv /\ DigestInv /\ NotesInv /\ ScalarInv

\* A step of the whole is a step of each part, or leaves it alone.
LEMMA EveryPartSteps ==
    [Next]_vars =>
        /\ [RetentionNext \/ RetentionCrash]_retentionVars
        /\ [DigestNext \/ \E r \in Replicas : DigestCrash(r)]_digestVars
        /\ [NotesNext \/ NotesCrash]_noteVars
        /\ [ScalarNext \/ ScalarCrash]_scalarVars
        /\ UNCHANGED area
<1> SUFFICES ASSUME [Next]_vars
             PROVE  /\ [RetentionNext \/ RetentionCrash]_retentionVars
                    /\ [DigestNext \/ \E r \in Replicas : DigestCrash(r)]_digestVars
                    /\ [NotesNext \/ NotesCrash]_noteVars
                    /\ [ScalarNext \/ ScalarCrash]_scalarVars
                    /\ UNCHANGED area
  OBVIOUS
<1>1. CASE UNCHANGED vars  BY <1>1 DEF vars
<1>2. CASE Crash  BY <1>2 DEF Crash
<1>3. CASE Next /\ ~ Crash  BY <1>3 DEF Next
<1>. QED  BY <1>1, <1>2, <1>3

\* The inductive invariant of the background work: the four invariants of its
\* parts.  It holds initially, and every step of Next keeps it.
THEOREM HousekeepingHolds == Spec => []HousekeepingInv
<1>1. Init => HousekeepingInv
  BY RetentionStarts, DigestStarts, NotesStart, ScalarStarts DEF Init, HousekeepingInv
<1>2. HousekeepingInv /\ [Next]_vars => HousekeepingInv'
  <2> SUFFICES ASSUME HousekeepingInv, [Next]_vars PROVE HousekeepingInv'  OBVIOUS
  <2>1. RetentionInv'  BY EveryPartSteps, RetentionKeeps DEF HousekeepingInv
  <2>2. DigestInv'  BY EveryPartSteps, DigestStep DEF HousekeepingInv
  <2>3. NotesInv'  BY EveryPartSteps, NotesStep DEF HousekeepingInv
  <2>4. ScalarInv'  BY EveryPartSteps, ScalarStep DEF HousekeepingInv
  <2>5. area' \in Areas  BY EveryPartSteps DEF HousekeepingInv
  <2>. QED  BY <2>1, <2>2, <2>3, <2>4, <2>5 DEF HousekeepingInv
<1>. QED  BY <1>1, <1>2, PTL DEF Spec

\* No replica mails a week's digest twice, a polled note lists the whole diff,
\* and the bundle served is of the version shown, however many replicas, notes
\* and updates there are.
THEOREM NoticesHold == Spec => []NoticesAreRight
<1>1. HousekeepingInv => NoticesAreRight
  BY DigestsAreSingle, PolledAreWhole, BundlesAreNamed
     DEF HousekeepingInv, NoticesAreRight, TypeOK, RetentionInv, DigestInv, NotesInv, ScalarInv
<1>. QED  BY <1>1, HousekeepingHolds, PTL

\* PutTakesEffect and WindowsAreHonoured, of one step.
PutIsInForce ==
    \A p \in Puts :
        (UpsertKey(p) /\ put[p].next = Len(Keys) /\ put[p].alone)
            => \A k \in KeySet : setting'[put[p].org][k] = p

DeletedAreOld ==
    \A i \in Items :
        (row'[i] = Purged /\ row[i] # Purged) =>
            i.kind # "evidence" /\ day - row[i] > promised[i.org]

\* A PUT of the settings that met no other is in force as a whole when it has
\* ended, and the retention pass deletes no evidence and no row before the window
\* its organisation had when the pass began is over.
THEOREM WindowsHold == Spec => WindowsArePromises
<1>1. HousekeepingInv /\ [Next]_vars => [PutIsInForce]_retentionVars
  BY PutStep DEF HousekeepingInv, PutIsInForce
<1>2. HousekeepingInv /\ [Next]_vars => [DeletedAreOld]_retentionVars
  BY DeletionStep, EveryPartSteps DEF HousekeepingInv, DeletedAreOld
<1>3. Spec => [][PutIsInForce]_retentionVars  BY <1>1, HousekeepingHolds, PTL DEF Spec
<1>4. Spec => [][DeletedAreOld]_retentionVars  BY <1>2, HousekeepingHolds, PTL DEF Spec
<1>. QED
  BY <1>3, <1>4 DEF WindowsArePromises, PutTakesEffect, WindowsAreHonoured, PutIsInForce, DeletedAreOld

\* StatusFollowsWorkflow, of one step.
StatusIsAllowed ==
    \A p \in Patches :
        (PatchUpdate(p) /\ ~ patch[p].stale) =>
            note'[patch[p].note].status \in AllowedNext(note[patch[p].note].status)

\* A PATCH that no other overtook moves a note only along the workflow.
THEOREM StatusHolds == Spec => StatusFollowsWorkflow
<1>1. HousekeepingInv /\ [Next]_vars => [StatusIsAllowed]_noteVars
  BY StatusStep DEF HousekeepingInv, StatusIsAllowed
<1>2. Spec => [][StatusIsAllowed]_noteVars  BY <1>1, HousekeepingHolds, PTL DEF Spec
<1>. QED  BY <1>2 DEF StatusFollowsWorkflow, StatusIsAllowed

-----------------------------------------------------------------------------
(* The desktop shell.                                                      *)

Sidecars == [state : {"starting", "serving", "failed", "exited", "gone"},
             launch : 1 .. MaxLaunches, served : BOOLEAN]

\* A live sidecar has a process, a PID file and, while the shell runs, its token.
LiveIsOwn ==
    \A p \in Spawned : Alive(p) =>
        /\ pidFile = p
        /\ app # "off" => apiProcess = p /\ sidecars[p].launch = launch

\* During a boot the checksum error is from a sidecar that has died of the
\* database of this boot.
ErrorIsOfThisBoot ==
    /\ app = "off" => ~ unwritten
    /\ app = "booting" /\ (log \/ unwritten) =>
          /\ ~ (log /\ unwritten)
          /\ \A p \in Spawned : ~ Alive(p)
          /\ secondTry \/ db = "old"

\* The one-shot flag stands for the restart since a sidecar served.
FlagCounts ==
    /\ restarts <= Len(sidecars) + 1 /\ (apiProcess # NoProc => restarts <= Len(sidecars))
    /\ app \in {"booting", "asking"} => restarts = 0 /\ watched = {} /\ ~ restartAttempted
    /\ restarts = 0 \/ restarts = 1 \/ misled
    /\ app # "off" /\ restarts = 1 /\ ~ misled => restartAttempted
    /\ app = "up" /\ attempts # NotWaiting => restartAttempted
    /\ attempts # NotWaiting /\ Served(waiting) => restarts = 0 \/ misled

ReusedAreGone == \A p \in reused : sidecars[p].state = "gone"

DesktopInv ==
    /\ DesktopTypeOK /\ LiveIsOwn /\ ErrorIsOfThisBoot /\ FlagCounts /\ ReusedAreGone
    /\ app # "off" => launch # 0

USE DesktopAssumption

\* What startApiSidecar may leave.
LEMMA StartLeaves ==
    ASSUME NEW s \in Seq(Sidecars), NEW f, NEW n \in 1 .. MaxLaunches, Len(s) <= MaxSpawns,
           Start(s, f, n)
    PROVE  /\ sidecars' \in Seq(Sidecars) /\ Len(sidecars') <= MaxSpawns /\ log' = FALSE
           /\ Len(s) \in Nat
           /\ \A p \in 1 .. Len(s) : sidecars'[p] = s[p]
           /\ \/ /\ Len(sidecars') = Len(s) + 1 /\ apiProcess' = Len(s) + 1
                 /\ sidecars'[Len(s) + 1].launch = n /\ ~ sidecars'[Len(s) + 1].served
                 /\ \/ sidecars'[Len(s) + 1].state = "failed" /\ pidFile' = f
                    \/ sidecars'[Len(s) + 1].state = "starting" /\ pidFile' = Len(s) + 1
              \/ sidecars' = s /\ apiProcess' = NoProc /\ pidFile' = f
<1>1. log' = FALSE  BY DEF Start, OpenedLog
<1>2. CASE sidecars' = s /\ apiProcess' = NoProc /\ pidFile' = f  BY <1>1, <1>2
<1>3. ASSUME NEW state \in {"starting", "failed"}, Len(s) < MaxSpawns,
             sidecars' = Append(s, [state |-> state, launch |-> n, served |-> FALSE]),
             apiProcess' = Len(s) + 1,
             pidFile' = IF state = "failed" THEN f ELSE Len(s) + 1
      PROVE  /\ sidecars' \in Seq(Sidecars) /\ Len(sidecars') <= MaxSpawns
             /\ \A p \in 1 .. Len(s) : sidecars'[p] = s[p]
             /\ Len(sidecars') = Len(s) + 1 /\ apiProcess' = Len(s) + 1
             /\ sidecars'[Len(s) + 1].launch = n /\ ~ sidecars'[Len(s) + 1].served
             /\ \/ sidecars'[Len(s) + 1].state = "failed" /\ pidFile' = f
                \/ sidecars'[Len(s) + 1].state = "starting" /\ pidFile' = Len(s) + 1
  <2> DEFINE x == [state |-> state, launch |-> n, served |-> FALSE]
  <2>1. x \in Sidecars /\ x.launch = n /\ ~ x.served /\ x.state = state  BY <1>3 DEF Sidecars
  <2> HIDE DEF x
  <2>2. sidecars' = Append(s, x)  BY <1>3 DEF x
  <2>3. /\ sidecars' \in Seq(Sidecars) /\ Len(sidecars') = Len(s) + 1
        /\ \A p \in 1 .. Len(s) : sidecars'[p] = s[p]
        /\ sidecars'[Len(s) + 1] = x
    BY <2>1, <2>2
  <2>. QED  BY <1>3, <2>1, <2>3
<1>. QED  BY <1>1, <1>2, <1>3 DEF Start

\* What a kill leaves of a list.
LEMMA KilledLeaves ==
    ASSUME sidecars \in Seq(Sidecars), NEW p, NEW n
    PROVE  /\ Killed(p, n) \in Seq(Sidecars) /\ Len(Killed(p, n)) = Len(sidecars)
           /\ \A q \in Spawned :
                /\ Killed(p, n)[q].launch = sidecars[q].launch
                /\ Killed(p, n)[q].served = sidecars[q].served
                /\ q # p \/ ~ Alive(q) => Killed(p, n)[q] = sidecars[q]
                /\ q = p /\ Alive(q) => Killed(p, n)[q].state \in {"exited", "gone"}
<1>1. CASE ~ Alive(p)  BY <1>1 DEF Killed, Spawned
<1>2. CASE Alive(p)
  <2> DEFINE x == IF sidecars[p].launch = n THEN "exited" ELSE "gone"
  <2>1. Killed(p, n) = [sidecars EXCEPT ![p].state = x]  BY <1>2 DEF Killed
  <2>2. p \in 1 .. Len(sidecars) /\ x \in {"exited", "gone"} /\ sidecars[p] \in Sidecars
    BY <1>2 DEF Alive, Spawned
  <2> HIDE DEF x
  <2>3. [sidecars[p] EXCEPT !.state = x] \in Sidecars  BY <2>2 DEF Sidecars
  <2>4. /\ Killed(p, n) \in Seq(Sidecars) /\ Len(Killed(p, n)) = Len(sidecars)
        /\ Killed(p, n)[p] = [sidecars[p] EXCEPT !.state = x]
        /\ \A q \in Spawned : q # p => Killed(p, n)[q] = sidecars[q]
    BY <2>1, <2>2, <2>3 DEF Spawned
  <2>. QED  BY <1>2, <2>2, <2>4 DEF Sidecars
<1>. QED  BY <1>1, <1>2

LEMMA HandledLeaves ==
    ASSUME sidecars \in Seq(Sidecars), NEW p \in Spawned
    PROVE  /\ Handled(p) \in Seq(Sidecars) /\ Len(Handled(p)) = Len(sidecars)
           /\ Handled(p)[p] = [sidecars[p] EXCEPT !.state = "gone"]
           /\ Handled(p)[p].state = "gone" /\ Handled(p)[p].served = sidecars[p].served
           /\ \A q \in Spawned \ {p} : Handled(p)[q] = sidecars[q]
<1>1. p \in 1 .. Len(sidecars) /\ sidecars[p] \in Sidecars  BY DEF Spawned
<1>2. [sidecars[p] EXCEPT !.state = "gone"] \in Sidecars  BY <1>1 DEF Sidecars
<1>3. /\ Handled(p) \in Seq(Sidecars) /\ Len(Handled(p)) = Len(sidecars)
      /\ Handled(p)[p] = [sidecars[p] EXCEPT !.state = "gone"]
      /\ \A q \in Spawned \ {p} : Handled(p)[q] = sidecars[q]
  BY <1>1, <1>2 DEF Handled, Spawned
<1>. QED  BY <1>1, <1>3 DEF Sidecars

\* The start-up kill takes every live sidecar.
LEMMA StaleKillTakesAll ==
    ASSUME sidecars \in Seq(Sidecars), LiveIsOwn, NEW n, pidFile \in Spawned \cup {NoProc}
    PROVE  /\ StaleKilled(n) \in Seq(Sidecars) /\ Len(StaleKilled(n)) = Len(sidecars)
           /\ \A q \in Spawned :
                /\ StaleKilled(n)[q].state \notin {"starting", "serving"}
                /\ ~ Alive(q) => StaleKilled(n)[q] = sidecars[q]
<1>1. CASE pidFile # NoProc /\ LooksLikeOurSidecar(pidFile)
  <2>1. StaleKilled(n) = Killed(pidFile, n)  BY <1>1 DEF StaleKilled
  <2>. QED  BY <2>1, KilledLeaves DEF LiveIsOwn, Alive
<1>2. CASE ~ (pidFile # NoProc /\ LooksLikeOurSidecar(pidFile))
  <2>1. StaleKilled(n) = sidecars  BY <1>2 DEF StaleKilled
  <2>2. \A q \in Spawned : ~ Alive(q)
    BY <1>2 DEF LiveIsOwn, LooksLikeOurSidecar, NoProc, Spawned
  <2>. QED  BY <2>1, <2>2 DEF Alive
<1>. QED  BY <1>1, <1>2

\* Where the first sidecar of a boot, or of its second try, leaves things: s is the
\* list behind the kills, in which nobody lives.
LEMMA BootStarts ==
    ASSUME NEW s \in Seq(Sidecars), Len(s) = Len(sidecars), Len(s) <= MaxSpawns,
           \A q \in 1 .. Len(s) : s[q].state \notin {"starting", "serving"},
           \A p \in reused' : p \in 1 .. Len(s) /\ s[p].state = "gone",
           NEW f \in 0 .. Len(s), launch' \in 1 .. MaxLaunches, Start(s, f, launch'),
           WaitFor(apiProcess'),
           UNION {watched', declared', reused', hurt'} \subseteq 1 .. Len(s),
           app' = "booting", restarts' = 0, watched' = {}, restartAttempted' = FALSE,
           unwritten' = FALSE,
           deaths' \in 0 .. MaxDeaths, db' \in {"none", "good", "old"},
           {secondTry', isQuitting', splash', fading', window', foreign', win32', misled', told'}
              \subseteq BOOLEAN
    PROVE  DesktopInv'
<1>1. /\ sidecars' \in Seq(Sidecars) /\ Len(sidecars') <= MaxSpawns /\ log' = FALSE
      /\ Len(s) \in Nat
      /\ \A p \in 1 .. Len(s) : sidecars'[p] = s[p]
      /\ \/ /\ Len(sidecars') = Len(s) + 1 /\ apiProcess' = Len(s) + 1
            /\ sidecars'[Len(s) + 1].launch = launch' /\ ~ sidecars'[Len(s) + 1].served
            /\ \/ sidecars'[Len(s) + 1].state = "failed" /\ pidFile' = f
               \/ sidecars'[Len(s) + 1].state = "starting" /\ pidFile' = Len(s) + 1
         \/ sidecars' = s /\ apiProcess' = NoProc /\ pidFile' = f
  BY StartLeaves
<1>2. waiting' = apiProcess' /\ attempts' = 0  BY DEF WaitFor
<1>3. DesktopTypeOK'
  <2>1. {apiProcess, waiting, pidFile}' \subseteq Spawned' \cup {NoProc}
    BY <1>1, <1>2 DEF Spawned, NoProc
  <2>2. attempts' \in (0 .. MaxRetries - 1) \cup {NotWaiting}  BY <1>2
  <2>3. UNION {watched, declared, reused, hurt}' \subseteq Spawned'
    <3>1. 1 .. Len(s) \subseteq Spawned'  BY <1>1 DEF Spawned
    <3>. QED  BY <3>1
  <2>4. log' \in BOOLEAN /\ unwritten' \in BOOLEAN /\ restartAttempted' \in BOOLEAN  BY <1>1
  <2>5. {secondTry, isQuitting, restartAttempted, splash, fading, window, log, unwritten,
         foreign, win32, misled, told}' \subseteq BOOLEAN  BY <2>4
  <2>6. restarts' \in 0 .. MaxSpawns + 1 /\ launch' \in 0 .. MaxLaunches  OBVIOUS
  <2>. QED  BY <1>1, <2>1, <2>2, <2>3, <2>5, <2>6 DEF DesktopTypeOK, Sidecars
<1>4. LiveIsOwn'  BY <1>1 DEF LiveIsOwn, Alive, Spawned, NoProc
<1>5. ErrorIsOfThisBoot'  BY <1>1 DEF ErrorIsOfThisBoot
<1>6. FlagCounts'  BY <1>1 DEF FlagCounts, Served
<1>7. ReusedAreGone' /\ launch' # 0  BY <1>1 DEF ReusedAreGone
<1>. QED  BY <1>3, <1>4, <1>5, <1>6, <1>7 DEF DesktopInv

LEMMA LaunchInv == DesktopInv /\ Launch => DesktopInv'
<1> SUFFICES ASSUME DesktopInv, Launch PROVE DesktopInv'  OBVIOUS
<1> DEFINE s == StaleKilled(launch + 1)
<1>1. DesktopTypeOK /\ LiveIsOwn /\ ErrorIsOfThisBoot /\ ReusedAreGone  BY DEF DesktopInv
<1>2. sidecars \in Seq(Sidecars) /\ Len(sidecars) \in Nat  BY <1>1 DEF DesktopTypeOK, Sidecars
<1>3. /\ s \in Seq(Sidecars) /\ Len(s) = Len(sidecars)
      /\ \A q \in Spawned : /\ s[q].state \notin {"starting", "serving"}
                            /\ ~ Alive(q) => s[q] = sidecars[q]
  BY <1>1, <1>2, StaleKillTakesAll DEF DesktopTypeOK
<1>4. /\ app = "off" /\ launch < MaxLaunches /\ launch' = launch + 1
      /\ isQuitting' = FALSE /\ restartAttempted' = FALSE /\ watched' = {}
      /\ fading' = FALSE /\ window' = FALSE
      /\ restarts' = 0 /\ misled' = FALSE /\ told' = FALSE
      /\ app' = "booting" /\ secondTry' = FALSE /\ splash' = TRUE
      /\ hurt' = hurt \cup StaleStrangers
      /\ Start(s, NoProc, launch') /\ WaitFor(apiProcess')
      /\ UNCHANGED <<declared, unwritten, db, foreign, win32, reused, deaths>>
  BY DEF Launch, Locked, Boot
<1>5. StaleStrangers \subseteq reused  BY DEF StaleStrangers, StrangersOf
<1>6. \A p \in reused' : p \in 1 .. Len(s) /\ s[p].state = "gone"
  BY <1>1, <1>3, <1>4 DEF ReusedAreGone, DesktopTypeOK, Spawned, Alive
<1>7. UNION {watched', declared', reused', hurt'} \subseteq 1 .. Len(s)
  BY <1>1, <1>3, <1>4, <1>5 DEF DesktopTypeOK, Spawned
<1>8. launch' \in 1 .. MaxLaunches /\ Len(s) <= MaxSpawns /\ NoProc \in 0 .. Len(s)
      /\ unwritten' = FALSE
  BY <1>1, <1>2, <1>3, <1>4 DEF DesktopTypeOK, ErrorIsOfThisBoot, NoProc
<1>9. /\ deaths' \in 0 .. MaxDeaths /\ db' \in {"none", "good", "old"}
      /\ {secondTry', isQuitting', splash', fading', window', foreign', win32', misled', told'}
              \subseteq BOOLEAN
  BY <1>1, <1>4 DEF DesktopTypeOK
<1> HIDE DEF s
<1>. QED  BY <1>3, <1>4, <1>6, <1>7, <1>8, <1>9, BootStarts DEF Spawned

LEMMA RetryInv == DesktopInv /\ Retry => DesktopInv'
<1> SUFFICES ASSUME DesktopInv, Retry PROVE DesktopInv'  OBVIOUS
<1> DEFINE s == StaleKilled(launch)
<1>1. /\ DesktopTypeOK /\ LiveIsOwn /\ FlagCounts /\ ReusedAreGone
      /\ app # "off" => launch # 0
  BY DEF DesktopInv
<1>2. sidecars \in Seq(Sidecars) /\ Len(sidecars) \in Nat  BY <1>1 DEF DesktopTypeOK, Sidecars
<1>3. /\ s \in Seq(Sidecars) /\ Len(s) = Len(sidecars)
      /\ \A q \in Spawned : /\ s[q].state \notin {"starting", "serving"}
                            /\ ~ Alive(q) => s[q] = sidecars[q]
  BY <1>1, <1>2, StaleKillTakesAll DEF DesktopTypeOK
<1>4. /\ app = "asking" /\ ~ unwritten /\ app' = "booting" /\ secondTry' = FALSE /\ splash' = TRUE
      /\ hurt' = hurt \cup StaleStrangers
      /\ Start(s, NoProc, launch) /\ WaitFor(apiProcess')
      /\ UNCHANGED <<isQuitting, restartAttempted, watched, fading, window, launch,
                     unwritten, db, foreign, win32, reused, deaths, restarts, misled, told,
                     declared>>
  BY DEF Retry, RetryKills, Boot
<1>5. StaleStrangers \subseteq reused  BY DEF StaleStrangers, StrangersOf
<1>6. \A p \in reused' : p \in 1 .. Len(s) /\ s[p].state = "gone"
  BY <1>1, <1>3, <1>4 DEF ReusedAreGone, DesktopTypeOK, Spawned, Alive
<1>7. UNION {watched', declared', reused', hurt'} \subseteq 1 .. Len(s)
  BY <1>1, <1>3, <1>4, <1>5 DEF DesktopTypeOK, Spawned
<1>8. /\ Len(s) <= MaxSpawns /\ NoProc \in 0 .. Len(s) /\ unwritten' = FALSE
      /\ launch \in 1 .. MaxLaunches
      /\ restarts' = 0 /\ watched' = {} /\ restartAttempted' = FALSE
  BY <1>1, <1>2, <1>3, <1>4 DEF DesktopTypeOK, FlagCounts, NoProc
<1>9. /\ deaths' \in 0 .. MaxDeaths /\ db' \in {"none", "good", "old"}
      /\ {secondTry', isQuitting', splash', fading', window', foreign', win32', misled', told'}
              \subseteq BOOLEAN
  BY <1>1, <1>4 DEF DesktopTypeOK
<1> HIDE DEF s
<1>. QED  BY <1>3, <1>4, <1>6, <1>7, <1>8, <1>9, BootStarts DEF Spawned

\* A list that differs from the sidecars in the states of dead ones.
AsGoodAs(s) ==
    /\ s \in Seq(Sidecars) /\ Len(s) = Len(sidecars)
    /\ \A q \in Spawned :
          /\ s[q].launch = sidecars[q].launch /\ s[q].served = sidecars[q].served
          /\ s[q].state \in {"starting", "serving"} => Alive(q) /\ s[q] = sidecars[q]
          /\ sidecars[q].state = "gone" => s[q].state = "gone"

LEMMA SidecarsTyped ==
    DesktopInv => /\ sidecars \in Seq(Sidecars) /\ Len(sidecars) \in Nat
                  /\ Len(sidecars) <= MaxSpawns /\ Spawned = 1 .. Len(sidecars)
                  /\ \A p \in Spawned : sidecars[p] \in Sidecars
<1> SUFFICES ASSUME DesktopInv
             PROVE  /\ sidecars \in Seq(Sidecars) /\ Len(sidecars) \in Nat
                    /\ Len(sidecars) <= MaxSpawns /\ Spawned = 1 .. Len(sidecars)
                    /\ \A p \in Spawned : sidecars[p] \in Sidecars
  OBVIOUS
<1>1. sidecars \in Seq(Sidecars) /\ Len(sidecars) <= MaxSpawns
  BY DEF DesktopInv, DesktopTypeOK, Sidecars
<1>. QED  BY <1>1 DEF Spawned

LEMMA HandledIsAsGood ==
    ASSUME DesktopInv, NEW p \in Spawned, ~ Alive(p) PROVE AsGoodAs(Handled(p))
<1>1. sidecars \in Seq(Sidecars) /\ sidecars[p] \in Sidecars  BY SidecarsTyped
<1>2. \A q \in Spawned : sidecars[q].state \in {"starting", "serving"} => Alive(q)  BY DEF Alive
<1>3. Handled(p)[p].launch = sidecars[p].launch  BY <1>1, HandledLeaves DEF Sidecars
<1>. QED  BY <1>1, <1>2, <1>3, HandledLeaves DEF AsGoodAs

LEMMA ItselfIsAsGood == DesktopInv => AsGoodAs(sidecars)
BY SidecarsTyped DEF AsGoodAs, Alive

\* A step that only changes states of dead sidecars and what the other parts of the
\* invariant do not read.
LEMMA QuietStep ==
    ASSUME DesktopInv, NEW s, AsGoodAs(s), sidecars' = s,
           UNCHANGED <<app, apiProcess, restartAttempted, watched, pidFile, log, unwritten, db,
                       reused, restarts, misled, launch, secondTry, deaths, declared, hurt,
                       isQuitting, win32>>,
           \/ UNCHANGED <<waiting, attempts>>
           \/ waiting' = NoProc /\ attempts' = NotWaiting
           \/ attempts # NotWaiting /\ waiting' = waiting /\ attempts' \in 0 .. MaxRetries - 1,
           {splash', fading', window', told', foreign'} \subseteq BOOLEAN
    PROVE  DesktopInv'
<1>1. /\ DesktopTypeOK /\ LiveIsOwn /\ ErrorIsOfThisBoot /\ FlagCounts /\ ReusedAreGone
      /\ app # "off" => launch # 0
  BY DEF DesktopInv
<1>2. Spawned' = Spawned /\ Len(sidecars') = Len(sidecars)  BY DEF Spawned, AsGoodAs
<1>3. DesktopTypeOK'
  <2>1. sidecars' \in Seq(Sidecars)  BY DEF AsGoodAs
  <2>2. {apiProcess, waiting, pidFile}' \subseteq Spawned' \cup {NoProc}
        /\ attempts' \in (0 .. MaxRetries - 1) \cup {NotWaiting}
    BY <1>1, <1>2 DEF DesktopTypeOK
  <2>3. {secondTry, isQuitting, restartAttempted, splash, fading, window, log, unwritten,
         foreign, win32, misled, told}' \subseteq BOOLEAN
    BY <1>1 DEF DesktopTypeOK
  <2>. QED  BY <1>1, <1>2, <2>1, <2>2, <2>3 DEF DesktopTypeOK, Sidecars
<1>4. \A q \in Spawned : Alive(q)' => Alive(q) /\ sidecars'[q] = sidecars[q]
  BY <1>2 DEF Alive, AsGoodAs
<1>5. LiveIsOwn'  BY <1>1, <1>2, <1>4 DEF LiveIsOwn
<1>6. ErrorIsOfThisBoot'  BY <1>1, <1>2, <1>4 DEF ErrorIsOfThisBoot
<1>7. FlagCounts'
  <2>1. Served(waiting)' => Served(waiting) \/ attempts' = NotWaiting
    BY <1>2 DEF Served, AsGoodAs, NoProc, NotWaiting
  <2>2. attempts' # NotWaiting => attempts # NotWaiting  BY <1>1 DEF DesktopTypeOK
  <2>3. Served(waiting)' /\ attempts' # NotWaiting => Served(waiting) /\ attempts # NotWaiting
    BY <2>1, <2>2
  <2>. QED  BY <1>1, <1>2, <2>2, <2>3 DEF FlagCounts
<1>8. ReusedAreGone'  BY <1>1, <1>2 DEF ReusedAreGone, AsGoodAs, DesktopTypeOK
<1>. QED  BY <1>1, <1>3, <1>5, <1>6, <1>7, <1>8 DEF DesktopInv

\* A wait is rejected.
LEMMA RejectInv ==
    ASSUME DesktopInv, NEW s, AsGoodAs(s), Reject(s),
           UNCHANGED <<isQuitting, restartAttempted, watched, window, unwritten, foreign,
                       win32, reused, deaths, restarts, misled, declared, hurt, launch>>
    PROVE  DesktopInv'
<1>1. /\ DesktopTypeOK /\ LiveIsOwn /\ ErrorIsOfThisBoot /\ FlagCounts /\ ReusedAreGone
      /\ app # "off" => launch # 0
  BY DEF DesktopInv
<1>2. CASE app # "booting"
  <2>1. /\ told' = TRUE /\ waiting' = NoProc /\ attempts' = NotWaiting /\ sidecars' = s
        /\ UNCHANGED <<app, splash, fading, db, secondTry, apiProcess, pidFile, log>>
    BY <1>2 DEF Reject, Notify, StopWaiting
  <2>2. {splash', fading', window', told', foreign'} \subseteq BOOLEAN
    BY <1>1, <2>1 DEF DesktopTypeOK
  <2>. QED  BY <2>1, <2>2, QuietStep
<1>3. CASE app = "booting" /\ BackUp /\ secondTry' = TRUE
           /\ db' = "none" /\ Start(s, pidFile, launch) /\ WaitFor(apiProcess')
           /\ UNCHANGED <<app, splash, fading, told>>
  <2>1. \A q \in 1 .. Len(s) : s[q].state \notin {"starting", "serving"}
    BY <1>1, <1>3 DEF ErrorIsOfThisBoot, BackUp, AsGoodAs, Spawned
  <2>2. \A p \in reused' : p \in 1 .. Len(s) /\ s[p].state = "gone"
    BY <1>1 DEF ReusedAreGone, DesktopTypeOK, AsGoodAs, Spawned
  <2>3. /\ unwritten' = FALSE /\ restarts' = 0 /\ watched' = {} /\ restartAttempted' = FALSE
        /\ app' = "booting"
    BY <1>1, <1>3 DEF ErrorIsOfThisBoot, BackUp, FlagCounts, DesktopTypeOK
  <2>4. UNION {watched', declared', reused', hurt'} \subseteq 1 .. Len(s)
    BY <1>1 DEF DesktopTypeOK, Spawned, AsGoodAs
  <2>5. /\ launch' \in 1 .. MaxLaunches /\ pidFile \in 0 .. Len(s)
        /\ Len(s) <= MaxSpawns /\ Len(s) = Len(sidecars) /\ s \in Seq(Sidecars)
    BY <1>1, <1>3, SidecarsTyped DEF DesktopTypeOK, AsGoodAs, NoProc
  <2>6. {secondTry', isQuitting', splash', fading', window', foreign', win32', misled', told'}
              \subseteq BOOLEAN
    BY <1>1, <1>3 DEF DesktopTypeOK
  <2>7. deaths' \in 0 .. MaxDeaths /\ db' \in {"none", "good", "old"} /\ launch' = launch
    BY <1>1, <1>3 DEF DesktopTypeOK
  <2>. QED  BY <1>3, <2>1, <2>2, <2>3, <2>4, <2>5, <2>6, <2>7, BootStarts
<1>4. CASE app = "booting" /\ app' = "asking" /\ splash' = FALSE /\ fading' = (fading \/ splash)
           /\ StopWaiting /\ sidecars' = s
           /\ UNCHANGED <<db, secondTry, apiProcess, pidFile, log, told>>
  <2>1. waiting' = NoProc /\ attempts' = NotWaiting  BY <1>4 DEF StopWaiting
  <2>2. Spawned' = Spawned /\ Len(sidecars') = Len(sidecars)  BY <1>4 DEF Spawned, AsGoodAs
  <2>3. \A q \in Spawned : Alive(q)' => Alive(q) /\ sidecars'[q] = sidecars[q]
    BY <1>4, <2>2 DEF Alive, AsGoodAs
  <2>4. DesktopTypeOK'
    <3>1. sidecars' \in Seq(Sidecars)  BY <1>4 DEF AsGoodAs
    <3>2. {apiProcess, waiting, pidFile}' \subseteq Spawned' \cup {NoProc}
      BY <1>1, <1>4, <2>1, <2>2 DEF DesktopTypeOK
    <3>3. {secondTry, isQuitting, restartAttempted, splash, fading, window, log, unwritten,
           foreign, win32, misled, told}' \subseteq BOOLEAN
      <4>1. fading' \in BOOLEAN  BY <1>4
      <4>. QED  BY <1>1, <1>4, <4>1 DEF DesktopTypeOK
    <3>. QED  BY <1>1, <1>4, <2>1, <2>2, <3>1, <3>2, <3>3 DEF DesktopTypeOK, Sidecars
  <2>5. LiveIsOwn'  BY <1>1, <1>4, <2>2, <2>3 DEF LiveIsOwn
  <2>6. ErrorIsOfThisBoot'  BY <1>4 DEF ErrorIsOfThisBoot
  <2>7. FlagCounts'  BY <1>1, <1>4, <2>1, <2>2 DEF FlagCounts
  <2>8. ReusedAreGone'  BY <1>1, <1>4, <2>2 DEF ReusedAreGone, AsGoodAs, DesktopTypeOK
  <2>. QED  BY <1>1, <1>4, <2>4, <2>5, <2>6, <2>7, <2>8 DEF DesktopInv
<1>. QED  BY <1>2, <1>3, <1>4 DEF Reject, BootFails

LEMMA AttemptsInv == DesktopInv /\ (AttemptPasses \/ AttemptFails) => DesktopInv'
<1> SUFFICES ASSUME DesktopInv, AttemptPasses \/ AttemptFails PROVE DesktopInv'  OBVIOUS
<1>1. /\ DesktopTypeOK /\ LiveIsOwn /\ ErrorIsOfThisBoot /\ FlagCounts /\ ReusedAreGone
      /\ app # "off" => launch # 0
  BY DEF DesktopInv
<1>2. CASE AttemptPasses
  <2>1. /\ attempts # NotWaiting /\ waiting' = NoProc /\ attempts' = NotWaiting
        /\ misled' = (misled \/ ~Served(waiting))
        /\ declared' = declared \cup ({waiting} \ {NoProc})
        /\ UNCHANGED <<secondTry, apiProcess, isQuitting, splash, fading, sidecars, log, unwritten,
                       db, foreign, win32, reused, deaths, restarts, told, hurt, launch, pidFile>>
    BY <1>2 DEF AttemptPasses, StopWaiting, world
  <2>2. \/ /\ app = "booting" /\ app' = "up" /\ window' = TRUE
           /\ watched' = watched \cup ({apiProcess} \ {NoProc})
           /\ UNCHANGED restartAttempted
        \/ app # "booting" /\ restartAttempted' = FALSE /\ UNCHANGED <<app, window, watched>>
    BY <1>2 DEF AttemptPasses, BootPasses, Rearmed
  <2>3. Spawned' = Spawned /\ \A q : Alive(q)' <=> Alive(q)  BY <2>1 DEF Spawned, Alive
  <2>4. DesktopTypeOK'
    <3>1. /\ {apiProcess, waiting, pidFile}' \subseteq Spawned' \cup {NoProc}
          /\ UNION {watched, declared, reused, hurt}' \subseteq Spawned'
      BY <1>1, <2>1, <2>2, <2>3 DEF DesktopTypeOK
    <3>2. {secondTry, isQuitting, restartAttempted, splash, fading, window, log, unwritten,
           foreign, win32, misled, told}' \subseteq BOOLEAN
      <4>1. misled' \in BOOLEAN  BY <2>1
      <4>. QED  BY <1>1, <2>1, <2>2, <4>1, ZenonT(40) DEF DesktopTypeOK
    <3>. QED  BY <1>1, <2>1, <2>2, <2>3, <3>1, <3>2 DEF DesktopTypeOK
  <2>5. app = "booting" \/ app = "up" \/ app = "asking" \/ app = "off"
    BY <1>1 DEF DesktopTypeOK
  <2>6. LiveIsOwn' /\ ReusedAreGone' /\ (app' # "off" => launch' # 0)
    BY <1>1, <2>1, <2>2, <2>3 DEF LiveIsOwn, ReusedAreGone
  <2>7. ErrorIsOfThisBoot'  BY <1>1, <2>1, <2>2, <2>3 DEF ErrorIsOfThisBoot
  <2>8. FlagCounts'
    <3>1. restarts = 0 \/ misled'  BY <1>1, <2>1 DEF FlagCounts
    <3>2. app' = "up" \/ (app' = app /\ restartAttempted' = FALSE /\ watched' = watched)
      BY <2>2
    <3>3. /\ restarts' = restarts /\ attempts' = NotWaiting /\ apiProcess' = apiProcess
          /\ sidecars' = sidecars
      BY <2>1
    <3>. QED  BY <1>1, <3>1, <3>2, <3>3 DEF FlagCounts
  <2>. QED  BY <2>4, <2>6, <2>7, <2>8 DEF DesktopInv
<1>3. CASE AttemptFails
  <2>1. /\ attempts # NotWaiting
        /\ UNCHANGED <<isQuitting, restartAttempted, watched, window, unwritten, foreign,
                       win32, reused, deaths, restarts, misled, declared, hurt, launch>>
    BY <1>3 DEF AttemptFails
  <2>2. CASE Exhausted(Counted) /\ Reject(sidecars)
    BY <2>1, <2>2, ItselfIsAsGood, RejectInv
  <2>3. CASE /\ ~ Exhausted(Counted) /\ attempts' = Counted
             /\ UNCHANGED <<app, splash, fading, db, secondTry, apiProcess, pidFile, log,
                            sidecars, waiting, told>>
    <3>1. attempts' \in 0 .. MaxRetries - 1
      BY <1>1, <2>1, <2>3 DEF DesktopTypeOK, Exhausted, Counted
    <3>2. {splash', fading', window', told', foreign'} \subseteq BOOLEAN
      BY <1>1, <2>1, <2>3 DEF DesktopTypeOK
    <3>. QED  BY <2>1, <2>3, <3>1, <3>2, ItselfIsAsGood, QuietStep
  <2>. QED  BY <1>3, <2>2, <2>3 DEF AttemptFails
<1>. QED  BY <1>2, <1>3

\* The restart of a crashed sidecar, while it is handled.
LEMMA RestartInv ==
    ASSUME DesktopInv, NEW p \in Spawned, app # "off", sidecars[p].state = "exited", Crashed(p),
           FirstCrash, Restart(p),
           UNCHANGED <<isQuitting, window, unwritten, foreign, win32, reused, deaths,
                       misled, declared, hurt, launch>>
    PROVE  DesktopInv'
<1> DEFINE s == Handled(p)
<1>1. /\ DesktopTypeOK /\ LiveIsOwn /\ ErrorIsOfThisBoot /\ FlagCounts /\ ReusedAreGone
      /\ app # "off" => launch # 0
  BY DEF DesktopInv
<1>2. /\ AsGoodAs(s) /\ s \in Seq(Sidecars) /\ Len(s) = Len(sidecars) /\ Len(s) <= MaxSpawns
      /\ Spawned = 1 .. Len(s) /\ Len(s) \in Nat
  <2>1. ~ Alive(p)  BY DEF Alive
  <2>. QED  BY <2>1, HandledIsAsGood, SidecarsTyped DEF AsGoodAs
<1>3. p \in watched /\ p = apiProcess /\ app = "up" /\ ~ restartAttempted /\ apiProcess # NoProc
  BY <1>1 DEF Crashed, FirstCrash, FlagCounts, DesktopTypeOK, Spawned, NoProc
<1>4. /\ restartAttempted' = TRUE /\ restarts' = restarts + 1
      /\ Start(s, pidFile, launch)
      /\ UNCHANGED <<app, splash, fading, db, secondTry>>
      /\ \/ apiProcess' = NoProc /\ told' = TRUE /\ waiting' = NoProc /\ attempts' = NotWaiting
            /\ UNCHANGED watched
         \/ apiProcess' # NoProc /\ waiting' = apiProcess' /\ attempts' = 0
            /\ watched' = watched \cup {apiProcess'} /\ UNCHANGED told
  BY DEF Restart, Notify, StopWaiting, WaitFor
<1>5. launch \in 1 .. MaxLaunches  BY <1>1 DEF DesktopTypeOK
<1> HIDE DEF s
<1>6. /\ sidecars' \in Seq(Sidecars) /\ Len(sidecars') <= MaxSpawns /\ log' = FALSE
      /\ \A q \in 1 .. Len(s) : sidecars'[q] = s[q]
      /\ \/ /\ Len(sidecars') = Len(s) + 1 /\ apiProcess' = Len(s) + 1
            /\ sidecars'[Len(s) + 1].launch = launch /\ ~ sidecars'[Len(s) + 1].served
            /\ \/ sidecars'[Len(s) + 1].state = "failed" /\ pidFile' = pidFile
               \/ sidecars'[Len(s) + 1].state = "starting" /\ pidFile' = Len(s) + 1
         \/ sidecars' = s /\ apiProcess' = NoProc /\ pidFile' = pidFile
  BY <1>2, <1>4, <1>5, StartLeaves
<1>7. \A q \in 1 .. Len(s) : s[q].state \notin {"starting", "serving"}
  <2>1. \A q \in Spawned : ~ Alive(q)  BY <1>1, <1>3 DEF LiveIsOwn, Alive
  <2>. QED  BY <1>2, <2>1 DEF AsGoodAs
<1>8. DesktopTypeOK'
  <2>1. {apiProcess, waiting, pidFile}' \subseteq Spawned' \cup {NoProc}
    BY <1>1, <1>2, <1>4, <1>6 DEF DesktopTypeOK, Spawned, NoProc
  <2>2. attempts' \in (0 .. MaxRetries - 1) \cup {NotWaiting}  BY <1>4
  <2>3. UNION {watched, declared, reused, hurt}' \subseteq Spawned'
    <3>1. Spawned \subseteq Spawned'  BY <1>2, <1>6 DEF Spawned
    <3>2. apiProcess' # NoProc => apiProcess' \in Spawned'  BY <1>2, <1>6 DEF Spawned
    <3>. QED  BY <1>1, <1>4, <3>1, <3>2 DEF DesktopTypeOK
  <2>4. {secondTry, isQuitting, restartAttempted, splash, fading, window, log, unwritten,
         foreign, win32, misled, told}' \subseteq BOOLEAN
    <3>1. log' \in BOOLEAN /\ restartAttempted' \in BOOLEAN  BY <1>4, <1>6
    <3>2. told' \in BOOLEAN  BY <1>1, <1>4 DEF DesktopTypeOK
    <3>. QED  BY <1>1, <1>4, <3>1, <3>2 DEF DesktopTypeOK
  <2>5. restarts' \in 0 .. MaxSpawns + 1
    BY <1>1, <1>2, <1>3, <1>4 DEF FlagCounts, DesktopTypeOK
  <2>. QED  BY <1>1, <1>4, <1>6, <2>1, <2>2, <2>3, <2>4, <2>5 DEF DesktopTypeOK, Sidecars
<1>9. LiveIsOwn'  BY <1>2, <1>6, <1>7 DEF LiveIsOwn, Alive, Spawned, NoProc
<1>10. ErrorIsOfThisBoot'  BY <1>3, <1>4 DEF ErrorIsOfThisBoot
<1>11. FlagCounts'
  <2>1. restarts \in Nat /\ restarts <= Len(s)  BY <1>1, <1>2, <1>3 DEF FlagCounts, DesktopTypeOK
  <2>2. restarts = 0 \/ misled  BY <1>1, <1>3 DEF FlagCounts
  <2>3. restarts' <= Len(sidecars') + 1 /\ (apiProcess' # NoProc => restarts' <= Len(sidecars'))
    BY <1>2, <1>4, <1>6, <2>1
  <2>4. ~ (attempts' # NotWaiting /\ Served(waiting)')
    BY <1>2, <1>4, <1>6 DEF Served
  <2>. QED  BY <1>3, <1>4, <2>1, <2>2, <2>3, <2>4 DEF FlagCounts
<1>12. ReusedAreGone'
  <2>1. \A q \in reused : q \in 1 .. Len(s) /\ s[q].state = "gone"
    BY <1>1, <1>2 DEF ReusedAreGone, DesktopTypeOK, AsGoodAs
  <2>. QED  BY <1>6, <2>1 DEF ReusedAreGone
<1>. QED  BY <1>1, <1>4, <1>8, <1>9, <1>10, <1>11, <1>12 DEF DesktopInv

LEMMA EventsInv ==
    ASSUME DesktopInv, NEW p \in Spawned, ExitEvent(p) \/ ErrorEvent(p) PROVE DesktopInv'
<1>1. /\ app # "off" /\ sidecars[p].state \in {"exited", "failed"}
      /\ UNCHANGED <<isQuitting, window, unwritten, foreign, win32, reused, deaths,
                     misled, declared, hurt, launch>>
  BY DEF ExitEvent, ErrorEvent
<1>2. AsGoodAs(Handled(p))  BY <1>1, HandledIsAsGood DEF Alive
<1>3. CASE Crashed(p) /\ FirstCrash /\ Restart(p) /\ sidecars[p].state = "exited"
  BY <1>1, <1>3, RestartInv
<1>4. CASE Reject(Handled(p)) /\ UNCHANGED <<restartAttempted, restarts, watched>>
  BY <1>1, <1>2, <1>4, RejectInv
<1>5. CASE /\ sidecars' = Handled(p) /\ (told' = TRUE \/ UNCHANGED told)
           /\ UNCHANGED <<app, splash, fading, db, secondTry, apiProcess, pidFile, log, waiting,
                          attempts, restartAttempted, restarts, watched>>
  <2>1. {splash', fading', window', told', foreign'} \subseteq BOOLEAN
    BY <1>1, <1>5 DEF DesktopInv, DesktopTypeOK
  <2>. QED  BY <1>1, <1>2, <1>5, <2>1, QuietStep
<1>. QED
  BY <1>3, <1>4, <1>5 DEF ExitEvent, ErrorEvent, GiveUp, Notify

LEMMA BeforeQuitInv ==
    ASSUME DesktopInv, app # "off", BeforeQuit, {splash', fading', window'} \subseteq BOOLEAN
    PROVE  DesktopInv'
<1>1. /\ DesktopTypeOK /\ LiveIsOwn /\ ErrorIsOfThisBoot /\ FlagCounts /\ ReusedAreGone
      /\ app # "off" => launch # 0
  BY DEF DesktopInv
<1>2. /\ isQuitting' = TRUE /\ apiProcess' = NoProc /\ pidFile' = NoProc
      /\ sidecars' = Stopped(apiProcess)
      /\ hurt' = hurt \cup IF HasPid(apiProcess) THEN StrangersOf(apiProcess) ELSE {}
      /\ UNCHANGED <<app, secondTry, restartAttempted, waiting, attempts, watched, log,
                     unwritten, db, foreign, win32, reused, deaths, restarts, misled,
                     told, declared, launch>>
  BY DEF BeforeQuit
<1>3. sidecars \in Seq(Sidecars) /\ Len(sidecars) <= MaxSpawns
  BY SidecarsTyped
<1>4. /\ sidecars' \in Seq(Sidecars) /\ Len(sidecars') = Len(sidecars)
      /\ \A q \in Spawned :
           /\ sidecars'[q].state \notin {"starting", "serving"}
           /\ sidecars'[q].served = sidecars[q].served
           /\ ~ Alive(q) => sidecars'[q] = sidecars[q]
  <2>1. CASE apiProcess = NoProc
    <3>1. sidecars' = sidecars  BY <1>2, <2>1 DEF Stopped
    <3>2. \A q \in Spawned : ~ Alive(q)  BY <1>1, <2>1 DEF LiveIsOwn, NoProc, Spawned
    <3>. QED  BY <1>3, <3>1, <3>2 DEF Alive
  <2>2. CASE apiProcess # NoProc
    <3>1. sidecars' = Killed(apiProcess, launch)  BY <1>2, <2>2 DEF Stopped
    <3>2. \A q \in Spawned : Alive(q) => q = apiProcess  BY <1>1 DEF LiveIsOwn
    <3>. QED  BY <1>3, <3>1, <3>2, KilledLeaves DEF Alive
  <2>. QED  BY <2>1, <2>2
<1>5. Spawned' = Spawned  BY <1>4 DEF Spawned
<1>6. DesktopTypeOK'
  <2>1. {apiProcess, waiting, pidFile}' \subseteq Spawned' \cup {NoProc}
    BY <1>1, <1>2, <1>5 DEF DesktopTypeOK
  <2>2. UNION {watched, declared, reused, hurt}' \subseteq Spawned'
    <3>1. hurt' \subseteq hurt \cup reused  BY <1>2 DEF StrangersOf
    <3>. QED  BY <1>1, <1>2, <1>5, <3>1 DEF DesktopTypeOK
  <2>3. {secondTry, isQuitting, restartAttempted, splash, fading, window, log, unwritten,
         foreign, win32, misled, told}' \subseteq BOOLEAN
    <3>1. isQuitting' \in BOOLEAN  BY <1>2
    <3>. QED  BY <1>1, <1>2, <3>1 DEF DesktopTypeOK
  <2>. QED  BY <1>1, <1>2, <1>4, <2>1, <2>2, <2>3 DEF DesktopTypeOK, Sidecars
<1>7. \A q \in Spawned : ~ Alive(q)'  BY <1>4 DEF Alive
<1>8. LiveIsOwn'  BY <1>5, <1>7 DEF LiveIsOwn
<1>9. ErrorIsOfThisBoot'  BY <1>1, <1>2, <1>5, <1>7 DEF ErrorIsOfThisBoot
<1>10. FlagCounts'
  <2>1. Served(waiting)' <=> Served(waiting)  BY <1>2, <1>4, <1>5 DEF Served
  <2>. QED  BY <1>1, <1>2, <1>4, <2>1 DEF FlagCounts
<1>11. ReusedAreGone'
  BY <1>1, <1>2, <1>4 DEF ReusedAreGone, DesktopTypeOK, Alive
<1>. QED  BY <1>1, <1>2, <1>6, <1>8, <1>9, <1>10, <1>11 DEF DesktopInv

\* The shell is gone, and s is what is left of its sidecars.
LEMMA EndsInv ==
    ASSUME DesktopInv, Forgets, sidecars' \in Seq(Sidecars),
           Len(sidecars') = Len(sidecars),
           \A q \in Spawned : /\ Alive(q)' => Alive(q)
                              /\ sidecars[q].state = "gone" => sidecars'[q].state = "gone",
           reused' \subseteq Spawned, \A q \in reused' : sidecars'[q].state = "gone"
    PROVE  DesktopInv'
<1>1. /\ DesktopTypeOK /\ LiveIsOwn /\ ErrorIsOfThisBoot /\ FlagCounts /\ ReusedAreGone
  BY DEF DesktopInv
<1>2. /\ app' = "off" /\ secondTry' = FALSE /\ apiProcess' = NoProc
      /\ isQuitting' = FALSE /\ restartAttempted' = FALSE
      /\ waiting' = NoProc /\ attempts' = NotWaiting
      /\ watched' = {} /\ splash' = FALSE /\ fading' = FALSE /\ window' = FALSE
      /\ unwritten' = FALSE
      /\ UNCHANGED <<log, db, foreign, win32, deaths, restarts, misled, told, declared, hurt,
                     launch, pidFile>>
  BY DEF Forgets, StopWaiting, history
<1>3. Spawned' = Spawned  BY DEF Spawned
<1>4. DesktopTypeOK'
  <2>1. /\ {apiProcess, waiting, pidFile}' \subseteq Spawned' \cup {NoProc}
        /\ UNION {watched, declared, reused, hurt}' \subseteq Spawned'
    BY <1>1, <1>2, <1>3 DEF DesktopTypeOK
  <2>2. {secondTry, isQuitting, restartAttempted, splash, fading, window, log, unwritten,
         foreign, win32, misled, told}' \subseteq BOOLEAN
    <3>1. {secondTry', isQuitting', restartAttempted', splash', fading', window', unwritten'}
            \subseteq BOOLEAN
      BY <1>2
    <3>. QED  BY <1>1, <1>2, <3>1 DEF DesktopTypeOK
  <2>. QED  BY <1>1, <1>2, <2>1, <2>2 DEF DesktopTypeOK, Sidecars
<1>5. LiveIsOwn'  BY <1>1, <1>2, <1>3 DEF LiveIsOwn
<1>6. ErrorIsOfThisBoot'  BY <1>2 DEF ErrorIsOfThisBoot
<1>7. FlagCounts'  BY <1>1, <1>2 DEF FlagCounts
<1>8. ReusedAreGone'  BY DEF ReusedAreGone
<1>. QED  BY <1>2, <1>4, <1>5, <1>6, <1>7, <1>8 DEF DesktopInv

LEMMA ShellEndsInv == DesktopInv /\ (QuitEnds \/ ShellKilled \/ Reboot) => DesktopInv'
<1> SUFFICES ASSUME DesktopInv, QuitEnds \/ ShellKilled \/ Reboot PROVE DesktopInv'  OBVIOUS
<1>1. /\ DesktopTypeOK /\ LiveIsOwn /\ ErrorIsOfThisBoot /\ FlagCounts /\ ReusedAreGone
      /\ app # "off" => launch # 0
  BY DEF DesktopInv
<1>2. /\ sidecars \in Seq(Sidecars) /\ Len(sidecars) \in Nat /\ Spawned = 1 .. Len(sidecars)
      /\ \A p \in Spawned : sidecars[p] \in Sidecars
  BY SidecarsTyped
<1>3. \A p \in Spawned : [sidecars[p] EXCEPT !.state = "gone"] \in Sidecars
                         /\ [sidecars[p] EXCEPT !.state = "gone"].state = "gone"
  BY <1>2 DEF Sidecars
<1>4. ASSUME sidecars' = Orphaned, reused' = reused, Forgets PROVE DesktopInv'
  <2>1. \A p \in Spawned : Orphaned[p] \in Sidecars  BY <1>2, <1>3 DEF Orphaned
  <2>2. Orphaned = [p \in 1 .. Len(sidecars) |-> Orphaned[p]]  BY <1>2 DEF Orphaned
  <2>3. Orphaned \in Seq(Sidecars) /\ Len(Orphaned) = Len(sidecars)
    <3> HIDE DEF Orphaned
    <3>. QED  BY <1>2, <2>1, <2>2
  <2>4. \A p \in Spawned : \/ sidecars'[p] = sidecars[p]
                           \/ sidecars'[p].state = "gone"
    BY <1>3, <1>4 DEF Orphaned
  <2>5. Spawned' = Spawned  BY <1>4, <2>3 DEF Spawned
  <2>. QED  BY <1>1, <1>4, <2>3, <2>4, <2>5, EndsInv DEF Alive, ReusedAreGone, DesktopTypeOK
<1>5. CASE Reboot
  <2> DEFINE s == [p \in Spawned |-> [sidecars[p] EXCEPT !.state = "gone"]]
  <2>1. \A p \in Spawned : s[p] \in Sidecars /\ s[p].state = "gone"  BY <1>3
  <2>2. s = [p \in 1 .. Len(sidecars) |-> s[p]]  BY <1>2
  <2>3. s \in Seq(Sidecars) /\ Len(s) = Len(sidecars)
    <3> HIDE DEF s
    <3>. QED  BY <1>2, <2>1, <2>2
  <2>4. sidecars' = s /\ reused' = Spawned \cap {pidFile} /\ Forgets
    BY <1>5 DEF Reboot
  <2> HIDE DEF s
  <2>. QED  BY <1>2, <2>1, <2>3, <2>4, EndsInv DEF Alive
<1>6. CASE QuitEnds  BY <1>4, <1>6 DEF QuitEnds
<1>7. CASE ShellKilled  BY <1>4, <1>7 DEF ShellKilled
<1>. QED  BY <1>5, <1>6, <1>7

\* A sidecar binds its port, or ends.
LEMMA SidecarStartsInv ==
    ASSUME DesktopInv, NEW p \in Spawned, SidecarStarts(p) PROVE DesktopInv'
<1> DEFINE binds == db # "old" /\ ~foreign /\ Serving = {}
           state == IF binds THEN "serving"
                    ELSE IF sidecars[p].launch = launch /\ app # "off" THEN "exited" ELSE "gone"
           x == [sidecars[p] EXCEPT !.served = binds, !.state = state]
<1>1. /\ DesktopTypeOK /\ LiveIsOwn /\ ErrorIsOfThisBoot /\ FlagCounts /\ ReusedAreGone
      /\ app # "off" => launch # 0
  BY DEF DesktopInv
<1>2. /\ sidecars \in Seq(Sidecars) /\ Len(sidecars) \in Nat /\ Spawned = 1 .. Len(sidecars)
      /\ sidecars[p] \in Sidecars /\ sidecars[p].state = "starting"
  BY SidecarsTyped DEF SidecarStarts
<1>3. /\ unwritten' = (unwritten \/ (db = "old" /\ app # "off"))
      /\ db' = IF db = "none" THEN "good" ELSE db
      /\ IF binds THEN restarts' = 0 /\ told' = FALSE ELSE UNCHANGED <<restarts, told>>
      /\ UNCHANGED <<app, secondTry, apiProcess, isQuitting, restartAttempted, waiting, attempts,
                     watched, splash, fading, window, log, foreign, win32, reused, deaths, misled,
                     declared, hurt, launch, pidFile>>
  BY DEF SidecarStarts, memory
<1>4. sidecars' = [sidecars EXCEPT ![p] = x]
  BY <1>2 DEF SidecarStarts
<1>5. x \in Sidecars /\ x.served = binds /\ x.state = state
  BY <1>2 DEF Sidecars
<1>6. binds \in BOOLEAN /\ (binds => db # "old")  OBVIOUS
<1>7. state \in {"serving", "exited", "gone"} /\ (state = "serving" => binds)  OBVIOUS
<1> HIDE DEF x, state, binds
<1>8. /\ sidecars' \in Seq(Sidecars) /\ Len(sidecars') = Len(sidecars) /\ sidecars'[p] = x
      /\ Spawned' = Spawned
      /\ \A q \in Spawned : q # p => sidecars'[q] = sidecars[q]
  BY <1>2, <1>4, <1>5 DEF Spawned
<1>9. Alive(p) /\ \A q : Alive(q)' => Alive(q)
  BY <1>2, <1>8 DEF Alive
<1>10. DesktopTypeOK'
  <2>4. restarts' \in 0 .. MaxSpawns + 1
    <3>1. restarts \in 0 .. MaxSpawns + 1  BY <1>1 DEF DesktopTypeOK
    <3>2. restarts' = 0 \/ restarts' = restarts  BY <1>3
    <3>. QED  BY <3>1, <3>2
  <2>5. db' \in {"none", "good", "old"}
    <3>1. db \in {"none", "good", "old"}  BY <1>1 DEF DesktopTypeOK
    <3>. QED  BY <1>3, <3>1
  <2>6. told' \in BOOLEAN
    <3>1. told \in BOOLEAN  BY <1>1 DEF DesktopTypeOK
    <3>2. told' = FALSE \/ told' = told  BY <1>3
    <3>. QED  BY <3>1, <3>2
  <2>7. unwritten' \in BOOLEAN  BY <1>3
  <2>1. restarts' \in 0 .. MaxSpawns + 1 /\ {told', unwritten'} \subseteq BOOLEAN
        /\ db' \in {"none", "good", "old"}
    BY <2>4, <2>5, <2>6, <2>7
  <2>2. {secondTry, isQuitting, restartAttempted, splash, fading, window, log, unwritten,
         foreign, win32, misled, told}' \subseteq BOOLEAN
    BY <1>1, <1>3, <2>1 DEF DesktopTypeOK
  <2>3. /\ {apiProcess, waiting, pidFile}' \subseteq Spawned' \cup {NoProc}
        /\ UNION {watched, declared, reused, hurt}' \subseteq Spawned'
    BY <1>1, <1>3, <1>8 DEF DesktopTypeOK
  <2>. QED  BY <1>1, <1>3, <1>8, <2>1, <2>2, <2>3 DEF DesktopTypeOK, Sidecars
<1>11. LiveIsOwn'
  <2>1. \A q \in Spawned : sidecars'[q].launch = sidecars[q].launch
    <3>1. x.launch = sidecars[p].launch  BY <1>2 DEF x, Sidecars
    <3>. QED  BY <1>8, <3>1
  <2>. QED  BY <1>1, <1>3, <1>8, <1>9, <2>1 DEF LiveIsOwn
<1>12. ErrorIsOfThisBoot'
  <2>1. app = "booting" => ~ log /\ ~ unwritten  BY <1>1, <1>9 DEF ErrorIsOfThisBoot
  <2>2. app = "booting" /\ unwritten' => db = "old" /\ ~ binds  BY <1>3, <1>6, <2>1
  <2>3. ~ binds => \A q \in Spawned : ~ Alive(q)'
    <3>1. ~ binds => ~ Alive(p)'  BY <1>5, <1>7, <1>8 DEF Alive
    <3>2. \A q \in Spawned : q # p => ~ Alive(q)  BY <1>1, <1>9 DEF LiveIsOwn
    <3>. QED  BY <1>9, <3>1, <3>2
  <2>. QED  BY <1>1, <1>3, <1>8, <2>1, <2>2, <2>3 DEF ErrorIsOfThisBoot
<1>13. FlagCounts'
  <2>1. CASE binds
    <3>1. restarts' = 0  BY <1>3, <2>1
    <3>. QED  BY <1>1, <1>2, <1>3, <1>8, <3>1 DEF FlagCounts
  <2>2. CASE ~ binds
    <3>1. Served(waiting)' => Served(waiting)
      <4>1. ~ sidecars'[p].served  BY <1>5, <1>6, <1>8, <2>2
      <4>. QED  BY <1>3, <1>8, <4>1 DEF Served
    <3>2. restarts' = restarts  BY <1>3, <2>2
    <3>. QED  BY <1>1, <1>3, <1>8, <3>1, <3>2 DEF FlagCounts
  <2>. QED  BY <2>1, <2>2
<1>14. ReusedAreGone'  BY <1>1, <1>2, <1>3, <1>8 DEF ReusedAreGone, DesktopTypeOK
<1>. QED  BY <1>1, <1>3, <1>10, <1>11, <1>12, <1>13, <1>14 DEF DesktopInv

LEMMA SidecarDiesInv ==
    ASSUME DesktopInv, NEW p \in Spawned, SidecarDies(p) PROVE DesktopInv'
<1> DEFINE state == IF sidecars[p].launch = launch /\ app # "off" THEN "exited" ELSE "gone"
           x == [sidecars[p] EXCEPT !.state = state]
<1>1. /\ DesktopTypeOK /\ LiveIsOwn /\ ErrorIsOfThisBoot /\ FlagCounts /\ ReusedAreGone
      /\ app # "off" => launch # 0
  BY DEF DesktopInv
<1>2. /\ sidecars \in Seq(Sidecars) /\ Len(sidecars) \in Nat /\ Spawned = 1 .. Len(sidecars)
      /\ sidecars[p] \in Sidecars /\ sidecars[p].state \in {"starting", "serving"}
  BY SidecarsTyped DEF SidecarDies, Alive
<1>3. /\ deaths < MaxDeaths /\ deaths' = deaths + 1
      /\ UNCHANGED <<app, secondTry, apiProcess, isQuitting, restartAttempted, waiting, attempts,
                     watched, splash, fading, window, log, unwritten, db, foreign, win32, reused,
                     restarts, misled, told, declared, hurt, launch, pidFile>>
  BY DEF SidecarDies, memory, history
<1>4. sidecars' = [sidecars EXCEPT ![p] = x]  BY <1>2 DEF SidecarDies
<1>5. /\ x \in Sidecars /\ x.served = sidecars[p].served /\ x.launch = sidecars[p].launch
      /\ x.state \in {"exited", "gone"}
  BY <1>2 DEF Sidecars
<1> HIDE DEF x
<1>6. /\ sidecars' \in Seq(Sidecars) /\ Len(sidecars') = Len(sidecars) /\ sidecars'[p] = x
      /\ Spawned' = Spawned
      /\ \A q \in Spawned : q # p => sidecars'[q] = sidecars[q]
  BY <1>2, <1>4, <1>5 DEF Spawned
<1>7. \A q : Alive(q)' => Alive(q) /\ q # p  BY <1>2, <1>5, <1>6 DEF Alive
<1>8. DesktopTypeOK'
  <2>1. deaths' \in 0 .. MaxDeaths  BY <1>1, <1>3 DEF DesktopTypeOK
  <2>2. /\ {apiProcess, waiting, pidFile}' \subseteq Spawned' \cup {NoProc}
        /\ UNION {watched, declared, reused, hurt}' \subseteq Spawned'
    BY <1>1, <1>3, <1>6 DEF DesktopTypeOK
  <2>. QED  BY <1>1, <1>3, <1>6, <2>1, <2>2 DEF DesktopTypeOK, Sidecars
<1>9. LiveIsOwn'  BY <1>1, <1>3, <1>6, <1>7 DEF LiveIsOwn
<1>10. ErrorIsOfThisBoot'  BY <1>1, <1>3, <1>6, <1>7 DEF ErrorIsOfThisBoot
<1>11. FlagCounts'
  <2>1. Served(waiting)' <=> Served(waiting)  BY <1>3, <1>5, <1>6 DEF Served
  <2>. QED  BY <1>1, <1>3, <1>6, <2>1 DEF FlagCounts
<1>12. ReusedAreGone'  BY <1>1, <1>2, <1>3, <1>6 DEF ReusedAreGone, DesktopTypeOK
<1>. QED  BY <1>1, <1>3, <1>8, <1>9, <1>10, <1>11, <1>12 DEF DesktopInv

LEMMA MachineInv ==
    DesktopInv /\ (LogIsWritten \/ ForeignGoes \/ \E p \in Spawned : PidReused(p)) => DesktopInv'
<1> SUFFICES ASSUME DesktopInv, LogIsWritten \/ ForeignGoes \/ \E p \in Spawned : PidReused(p)
             PROVE  DesktopInv'
  OBVIOUS
<1>1. /\ DesktopTypeOK /\ LiveIsOwn /\ ErrorIsOfThisBoot /\ FlagCounts /\ ReusedAreGone
      /\ app # "off" => launch # 0
  BY DEF DesktopInv
<1>2. CASE LogIsWritten
  <2>1. /\ unwritten /\ unwritten' = FALSE /\ log' = TRUE
        /\ UNCHANGED <<memory, sidecars, db, foreign, win32, reused, deaths, history, launch, pidFile>>
    BY <1>2 DEF LogIsWritten
  <2>2. Spawned' = Spawned /\ \A q : Alive(q)' <=> Alive(q)  BY <2>1 DEF Spawned, Alive
  <2>3. DesktopTypeOK'
    <3>1. {log', unwritten'} \subseteq BOOLEAN  BY <2>1
    <3>2. {secondTry, isQuitting, restartAttempted, splash, fading, window, log, unwritten,
           foreign, win32, misled, told}' \subseteq BOOLEAN
      BY <1>1, <2>1, <3>1 DEF DesktopTypeOK, memory, history
    <3>. QED  BY <1>1, <2>1, <2>2, <3>2 DEF DesktopTypeOK, memory, history
  <2>4. LiveIsOwn' /\ FlagCounts' /\ ReusedAreGone'
    BY <1>1, <2>1, <2>2 DEF LiveIsOwn, FlagCounts, ReusedAreGone, Served, memory, history
  <2>5. ErrorIsOfThisBoot'  BY <1>1, <2>1, <2>2 DEF ErrorIsOfThisBoot, memory
  <2>. QED  BY <1>1, <2>1, <2>3, <2>4, <2>5 DEF DesktopInv, memory
<1>3. CASE ForeignGoes
  <2>1. {splash', fading', window', told', foreign'} \subseteq BOOLEAN
    BY <1>1, <1>3 DEF ForeignGoes, DesktopTypeOK, memory, history
  <2>. QED  BY <1>3, <2>1, ItselfIsAsGood, QuietStep DEF ForeignGoes, memory, history
<1>4. ASSUME NEW p \in Spawned, PidReused(p) PROVE DesktopInv'
  <2>1. /\ sidecars[p].state = "gone" /\ reused' = reused \cup {p}
        /\ UNCHANGED <<memory, sidecars, log, unwritten, db, foreign, win32, deaths, history,
                       launch, pidFile>>
    BY <1>4 DEF PidReused
  <2>2. Spawned' = Spawned /\ \A q : Alive(q)' <=> Alive(q)  BY <2>1 DEF Spawned, Alive
  <2>3. DesktopTypeOK'
    <3>1. UNION {watched, declared, reused, hurt}' \subseteq Spawned'
      BY <1>1, <2>1, <2>2 DEF DesktopTypeOK, memory, history
    <3>. QED  BY <1>1, <2>1, <2>2, <3>1 DEF DesktopTypeOK, memory, history
  <2>4. /\ LiveIsOwn' /\ FlagCounts' /\ ErrorIsOfThisBoot' /\ ReusedAreGone'
    BY <1>1, <2>1, <2>2
       DEF LiveIsOwn, FlagCounts, ErrorIsOfThisBoot, ReusedAreGone, Served, memory, history
  <2>. QED  BY <1>1, <2>1, <2>3, <2>4 DEF DesktopInv, memory
<1>. QED  BY <1>2, <1>3, <1>4

\* A splash fades in a running shell only.
FadesInShell == fading => app # "off"

LEMMA WindowInv == DesktopInv /\ FadesInShell /\ (WindowReady \/ UserQuits \/ SplashCloses) => DesktopInv'
<1> SUFFICES ASSUME DesktopInv, FadesInShell, WindowReady \/ UserQuits \/ SplashCloses PROVE DesktopInv'
  OBVIOUS
<1>1. {splash, fading, window, told, foreign} \subseteq BOOLEAN  BY DEF DesktopInv, DesktopTypeOK
<1>2. CASE WindowReady
  <2>1. {splash', fading', window', told', foreign'} \subseteq BOOLEAN
    BY <1>1, <1>2 DEF WindowReady, world, history
  <2>. QED  BY <1>2, <2>1, ItselfIsAsGood, QuietStep DEF WindowReady, world, history
<1>3. CASE UserQuits  BY <1>3, BeforeQuitInv DEF UserQuits
<1>4. CASE SplashCloses
  <2>1. CASE BeforeQuit /\ UNCHANGED <<splash, window>> /\ fading' = FALSE
    BY <1>1, <1>4, <2>1, BeforeQuitInv DEF SplashCloses, FadesInShell
  <2>2. CASE /\ fading' = FALSE
             /\ UNCHANGED <<app, secondTry, apiProcess, isQuitting, restartAttempted, waiting,
                            attempts, watched, splash, window, world, history, launch, pidFile>>
    <3>1. {splash', fading', window', told', foreign'} \subseteq BOOLEAN
      BY <1>1, <2>2 DEF world, history
    <3>. QED  BY <2>2, <3>1, ItselfIsAsGood, QuietStep DEF world, history
  <2>. QED  BY <1>4, <2>1, <2>2 DEF SplashCloses
<1>. QED  BY <1>2, <1>3, <1>4

LEMMA DesktopStarts == DesktopInit => DesktopInv
<1> SUFFICES ASSUME DesktopInit PROVE DesktopInv  OBVIOUS
<1>1. Spawned = {}  BY DEF DesktopInit, Spawned
<1>2. DesktopTypeOK
  <2>1. sidecars \in Seq(Sidecars) /\ Len(sidecars) = 0  BY DEF DesktopInit
  <2>2. {secondTry, isQuitting, restartAttempted, splash, fading, window, log, unwritten,
         foreign, win32, misled, told} \subseteq BOOLEAN
    BY DEF DesktopInit
  <2>3. /\ app \in {"off", "booting", "asking", "up"} /\ db \in {"none", "good", "old"}
        /\ attempts \in (0 .. MaxRetries - 1) \cup {NotWaiting}
    BY DEF DesktopInit
  <2>4. /\ launch \in 0 .. MaxLaunches /\ deaths \in 0 .. MaxDeaths
        /\ restarts \in 0 .. MaxSpawns + 1 /\ Len(sidecars) <= MaxSpawns
    BY <2>1 DEF DesktopInit, DesktopAssumption
  <2>5. {apiProcess, waiting, pidFile} \subseteq Spawned \cup {NoProc}
        /\ UNION {watched, declared, reused, hurt} \subseteq Spawned
    BY DEF DesktopInit
  <2>. QED  BY <2>1, <2>2, <2>3, <2>4, <2>5 DEF DesktopTypeOK, Sidecars
<1>3. LiveIsOwn /\ ErrorIsOfThisBoot /\ FlagCounts /\ ReusedAreGone
  BY <1>1 DEF DesktopInit, LiveIsOwn, ErrorIsOfThisBoot, FlagCounts, ReusedAreGone, NoProc
<1>. QED  BY <1>2, <1>3 DEF DesktopInv, DesktopInit

LEMMA FadesStep == FadesInShell /\ [DesktopNext]_desktopVars => FadesInShell'
<1> SUFFICES ASSUME FadesInShell, [DesktopNext]_desktopVars, app' = "off" PROVE ~ fading'
  BY DEF FadesInShell
<1>1. CASE UNCHANGED desktopVars  BY <1>1 DEF FadesInShell, desktopVars, memory
<1>2. CASE Launch \/ Retry  BY <1>2 DEF Launch, Retry, Boot
<1>3. CASE WindowReady \/ UserQuits \/ SplashCloses
  BY <1>3 DEF WindowReady, UserQuits, SplashCloses, BeforeQuit, FadesInShell
<1>4. CASE AttemptPasses \/ AttemptFails
  BY <1>4 DEF AttemptPasses, AttemptFails, BootPasses, Reject, BootFails, FadesInShell
<1>5. ASSUME NEW p \in Spawned, ExitEvent(p) \/ ErrorEvent(p) PROVE ~ fading'
  BY <1>5 DEF ExitEvent, ErrorEvent, Restart, Reject, BootFails, FadesInShell
<1>6. CASE QuitEnds \/ ShellKilled \/ Reboot  BY <1>6 DEF QuitEnds, ShellKilled, Reboot, Forgets
<1>7. ASSUME NEW p \in Spawned, SidecarStarts(p) \/ SidecarDies(p) \/ PidReused(p)
      PROVE  ~ fading'
  BY <1>7 DEF SidecarStarts, SidecarDies, PidReused, FadesInShell, memory
<1>8. CASE LogIsWritten \/ ForeignGoes  BY <1>8 DEF LogIsWritten, ForeignGoes, FadesInShell, memory
<1>. QED  BY <1>1, <1>2, <1>3, <1>4, <1>5, <1>6, <1>7, <1>8 DEF DesktopNext

LEMMA DesktopStep == DesktopInv /\ FadesInShell /\ [DesktopNext]_desktopVars => DesktopInv'
<1> SUFFICES ASSUME DesktopInv, FadesInShell, [DesktopNext]_desktopVars PROVE DesktopInv'  OBVIOUS
<1>1. CASE UNCHANGED desktopVars
  <2>1. {splash', fading', window', told', foreign'} \subseteq BOOLEAN
    BY <1>1 DEF DesktopInv, DesktopTypeOK, desktopVars, memory, world, history
  <2>. QED  BY <1>1, <2>1, ItselfIsAsGood, QuietStep DEF desktopVars, memory, world, history
<1>. QED
  BY <1>1, LaunchInv, RetryInv, WindowInv, AttemptsInv, EventsInv, ShellEndsInv,
     SidecarStartsInv, SidecarDiesInv, MachineInv DEF DesktopNext

(* For any bounds on sidecars, retries, launches and deaths: a live sidecar *)
(* is the one of the running shell and of the PID file, and the error in    *)
(* the log, the flag of the restart and the reused PIDs mean what the code  *)
(* takes them to mean.                                                      *)
THEOREM DesktopHolds == DesktopSpec => []DesktopInv
<1>1. DesktopInit => FadesInShell  BY DEF DesktopInit, FadesInShell
<1>. QED  BY <1>1, DesktopStarts, FadesStep, DesktopStep, PTL DEF DesktopSpec

(* The shell has one backend, that is recorded and its own, and restarts it *)
(* once between two that served.                                            *)
THEOREM BackendIsOne == DesktopSpec => []OneOwnBackend
<1>1. DesktopInv => OneOwnBackend
  BY DEF DesktopInv, OneOwnBackend, LiveSidecarIsRecorded, TokenIsAccepted, OneRestartPerIncident,
         LiveIsOwn, FlagCounts, Serving, Alive
<1>. QED  BY <1>1, DesktopHolds, PTL

\* A boot moves the database away for the error of that database only.
LEMMA BackUpIsOfTheOld == DesktopInv /\ app = "booting" /\ BackUp => db = "old"
BY DEF DesktopInv, ErrorIsOfThisBoot, BackUp

LEMMA GoodDatabaseStep ==
    DesktopInv /\ [DesktopNext]_desktopVars => (db = "good" => db' = "good")
<1> SUFFICES ASSUME DesktopInv, [DesktopNext]_desktopVars, db = "good" PROVE db' = "good"
  OBVIOUS
<1>1. ASSUME NEW s, Reject(s) PROVE db' = "good"
  BY <1>1, BackUpIsOfTheOld DEF Reject, BootFails
<1>2. CASE AttemptPasses \/ AttemptFails  BY <1>1, <1>2 DEF AttemptPasses, AttemptFails, world
<1>3. ASSUME NEW p \in Spawned, ExitEvent(p) \/ ErrorEvent(p) PROVE db' = "good"
  BY <1>1, <1>3 DEF ExitEvent, ErrorEvent, Restart
<1>4. ASSUME NEW p \in Spawned, SidecarStarts(p) \/ SidecarDies(p) \/ PidReused(p)
      PROVE  db' = "good"
  BY <1>4 DEF SidecarStarts, SidecarDies, PidReused
<1>5. CASE Launch \/ Retry \/ WindowReady \/ UserQuits \/ SplashCloses
  BY <1>5 DEF Launch, Retry, WindowReady, UserQuits, SplashCloses, BeforeQuit, world
<1>6. CASE QuitEnds \/ ShellKilled \/ Reboot  BY <1>6 DEF QuitEnds, ShellKilled, Reboot, Forgets
<1>7. CASE LogIsWritten \/ ForeignGoes \/ UNCHANGED desktopVars
  BY <1>7 DEF LogIsWritten, ForeignGoes, desktopVars, world
<1>. QED  BY <1>2, <1>3, <1>4, <1>5, <1>6, <1>7 DEF DesktopNext

LEMMA StaleKillStep ==
    DesktopInv /\ [DesktopNext]_desktopVars => (hurt' # hurt => ~ win32 \/ isQuitting')
<1> SUFFICES ASSUME DesktopInv, [DesktopNext]_desktopVars, win32, ~ isQuitting'
             PROVE  hurt' = hurt
  OBVIOUS
<1>1. StaleStrangers = {}
  <2>1. Alive(pidFile) => pidFile \notin reused
    BY DEF DesktopInv, ReusedAreGone, Alive
  <2>. QED  BY <2>1 DEF StaleStrangers, LooksLikeOurSidecar, StrangersOf
<1>2. CASE Launch \/ Retry  BY <1>1, <1>2 DEF Launch, Retry, Boot
<1>3. ~ BeforeQuit  BY DEF BeforeQuit
<1>4. CASE WindowReady \/ UserQuits \/ SplashCloses
  BY <1>3, <1>4 DEF WindowReady, UserQuits, SplashCloses, history
<1>5. CASE AttemptPasses \/ AttemptFails  BY <1>5 DEF AttemptPasses, AttemptFails
<1>6. ASSUME NEW p \in Spawned,
             \/ ExitEvent(p) \/ ErrorEvent(p)
             \/ SidecarStarts(p) \/ SidecarDies(p) \/ PidReused(p)
      PROVE  hurt' = hurt
  BY <1>6 DEF ExitEvent, ErrorEvent, SidecarStarts, SidecarDies, PidReused, history
<1>7. CASE \/ QuitEnds \/ ShellKilled \/ Reboot \/ LogIsWritten \/ ForeignGoes
           \/ UNCHANGED desktopVars
  BY <1>7 DEF QuitEnds, ShellKilled, Reboot, Forgets, LogIsWritten, ForeignGoes,
              desktopVars, history
<1>. QED  BY <1>2, <1>4, <1>5, <1>6, <1>7 DEF DesktopNext

LEMMA ServingStep ==
    DesktopInv /\ [DesktopNext]_desktopVars =>
        (app = "up" /\ app' # "off" /\ deaths' = deaths =>
             isQuitting' \/ \A p \in Serving : sidecars'[p].state = "serving")
<1> SUFFICES ASSUME DesktopInv, [DesktopNext]_desktopVars, app = "up", app' # "off",
                    deaths' = deaths, ~ isQuitting', NEW p \in Serving
             PROVE  sidecars'[p].state = "serving"
  OBVIOUS
<1>1. /\ sidecars \in Seq(Sidecars) /\ p \in Spawned /\ Spawned = 1 .. Len(sidecars)
      /\ sidecars[p].state = "serving" /\ Len(sidecars) <= MaxSpawns
      /\ launch \in 1 .. MaxLaunches
  <2>1. launch \in 0 .. MaxLaunches /\ launch # 0  BY DEF DesktopInv, DesktopTypeOK
  <2>. QED  BY <2>1, SidecarsTyped DEF Serving, DesktopInv
<1>2. ASSUME sidecars' = sidecars PROVE sidecars'[p].state = "serving"  BY <1>1, <1>2
<1>3. ASSUME NEW q \in Spawned, sidecars[q].state # "serving"
      PROVE  Handled(q)[p].state = "serving"
  <2>1. p # q /\ p \in Spawned \ {q}  BY <1>1, <1>3
  <2>2. Handled(q)[p] = sidecars[p]  BY <1>1, <2>1, HandledLeaves
  <2>. QED  BY <1>1, <2>2
<1>4. CASE AttemptPasses \/ AttemptFails
  BY <1>2, <1>4 DEF AttemptPasses, AttemptFails, Reject, world
<1>5. ASSUME NEW q \in Spawned, ExitEvent(q) PROVE sidecars'[p].state = "serving"
  <2>1. sidecars[q].state # "serving"  BY <1>5 DEF ExitEvent
  <2>2. CASE sidecars' = Handled(q)  BY <1>3, <2>1, <2>2
  <2>3. CASE Restart(q)
    <3>1. /\ Handled(q) \in Seq(Sidecars) /\ Len(Handled(q)) = Len(sidecars)
          /\ Start(Handled(q), pidFile, launch)
      BY <1>1, <2>3, HandledLeaves DEF Restart
    <3>2. sidecars'[p] = Handled(q)[p]  BY <1>1, <3>1, StartLeaves
    <3>. QED  BY <1>3, <2>1, <3>2
  <2>. QED  BY <1>5, <2>2, <2>3 DEF ExitEvent, Reject
<1>6. ASSUME NEW q \in Spawned, ErrorEvent(q) PROVE sidecars'[p].state = "serving"
  BY <1>3, <1>6 DEF ErrorEvent, Reject
<1>7. ASSUME NEW q \in Spawned, SidecarStarts(q) \/ SidecarDies(q) \/ PidReused(q)
      PROVE  sidecars'[p].state = "serving"
  <2>1. CASE SidecarStarts(q)
    <3>1. q # p  BY <1>1, <2>1 DEF SidecarStarts
    <3>2. sidecars'[p] = sidecars[p]  BY <1>1, <2>1, <3>1 DEF SidecarStarts
    <3>. QED  BY <1>1, <3>2
  <2>2. ~ SidecarDies(q)  BY DEF SidecarDies, DesktopInv, DesktopTypeOK
  <2>. QED  BY <1>2, <1>7, <2>1, <2>2 DEF PidReused
<1>8. ~ BeforeQuit  BY DEF BeforeQuit
<1>9. CASE Launch \/ Retry \/ WindowReady \/ UserQuits \/ SplashCloses
  BY <1>2, <1>8, <1>9 DEF Launch, Locked, Retry, WindowReady, UserQuits, SplashCloses, world
<1>10. CASE QuitEnds \/ ShellKilled \/ Reboot
  BY <1>10 DEF QuitEnds, ShellKilled, Reboot, Forgets
<1>11. CASE LogIsWritten \/ ForeignGoes \/ UNCHANGED desktopVars
  BY <1>2, <1>11 DEF LogIsWritten, ForeignGoes, desktopVars, world
<1>. QED  BY <1>4, <1>5, <1>6, <1>7, <1>9, <1>10, <1>11 DEF DesktopNext

(* No step of the shell kills a serving sidecar except to quit, hits a      *)
(* stranger at start-up on Windows, or moves a good database away.          *)
THEOREM NothingIsHarmed == DesktopSpec => NothingThatWorksIsHarmed
<1>1. DesktopSpec => ServingSidecarIsLeftAlone
  BY ServingStep, DesktopHolds, PTL DEF DesktopSpec, ServingSidecarIsLeftAlone
<1>2. DesktopSpec => StaleKillIsChecked
  BY StaleKillStep, DesktopHolds, PTL DEF DesktopSpec, StaleKillIsChecked
<1>3. DesktopSpec => GoodDatabaseIsKept
  BY GoodDatabaseStep, DesktopHolds, PTL DEF DesktopSpec, GoodDatabaseIsKept
<1>. QED  BY <1>1, <1>2, <1>3 DEF NothingThatWorksIsHarmed

\* A sidecar whose wait has passed has its restart before it.
DeclaredHasARestart == app = "up" /\ apiProcess \in declared => ~ restartAttempted

LEMMA DeclaredStep ==
    DesktopInv /\ DeclaredHasARestart /\ [DesktopNext]_desktopVars => DeclaredHasARestart'
<1> SUFFICES ASSUME DesktopInv, DeclaredHasARestart, [DesktopNext]_desktopVars,
                    app' = "up", apiProcess' \in declared'
             PROVE  ~ restartAttempted'
  BY DEF DeclaredHasARestart
<1>1. declared \subseteq 1 .. Len(sidecars) /\ Len(sidecars) \in Nat
  BY SidecarsTyped DEF DesktopInv, DesktopTypeOK
<1>2. ASSUME UNCHANGED <<app, apiProcess, declared, restartAttempted>> PROVE ~ restartAttempted'
  BY <1>2 DEF DeclaredHasARestart
<1>3. ~ (Launch \/ Retry)  BY DEF Launch, Retry, Boot
<1>4. CASE WindowReady \/ UserQuits \/ SplashCloses
  <2>1. ~ BeforeQuit  BY <1>1 DEF BeforeQuit, NoProc
  <2>. QED  BY <1>2, <1>4, <2>1 DEF WindowReady, UserQuits, SplashCloses, history
<1>5. CASE AttemptPasses
  <2>1. app = "booting" => ~ restartAttempted  BY DEF DesktopInv, FlagCounts
  <2>. QED  BY <1>5, <2>1 DEF AttemptPasses, BootPasses, Rearmed
<1>6. ASSUME NEW s, Reject(s), UNCHANGED <<restartAttempted, declared>>
      PROVE  ~ restartAttempted'
  BY <1>2, <1>6 DEF Reject, BootFails
<1>7. CASE AttemptFails  BY <1>2, <1>6, <1>7 DEF AttemptFails
<1>8. ASSUME NEW p \in Spawned, ExitEvent(p) PROVE ~ restartAttempted'
  <2>1. ~ Restart(p)
    <3>1. SUFFICES ASSUME Restart(p), declared' = declared PROVE FALSE  BY <1>8 DEF ExitEvent
    <3>2. Len(Handled(p)) = Len(sidecars)  BY SidecarsTyped, HandledLeaves
    <3>3. apiProcess' = NoProc \/ apiProcess' = Len(sidecars) + 1
      BY <3>1, <3>2 DEF Restart, Start
    <3>. QED  BY <1>1, <3>1, <3>3 DEF NoProc
  <2>. QED  BY <1>2, <1>6, <1>8, <2>1 DEF ExitEvent
<1>9. ASSUME NEW p \in Spawned, ErrorEvent(p) PROVE ~ restartAttempted'
  BY <1>2, <1>6, <1>9 DEF ErrorEvent
<1>10. ~ (QuitEnds \/ ShellKilled \/ Reboot)  BY DEF QuitEnds, ShellKilled, Reboot, Forgets
<1>11. ASSUME NEW p \in Spawned, SidecarStarts(p) \/ SidecarDies(p) \/ PidReused(p)
       PROVE  ~ restartAttempted'
  BY <1>2, <1>11 DEF SidecarStarts, SidecarDies, PidReused, memory, history
<1>12. CASE LogIsWritten \/ ForeignGoes \/ UNCHANGED desktopVars
  BY <1>2, <1>12 DEF LogIsWritten, ForeignGoes, desktopVars, memory, history
<1>. QED  BY <1>3, <1>4, <1>5, <1>7, <1>8, <1>9, <1>10, <1>11, <1>12 DEF DesktopNext

\* A kill takes the exit of no sidecar: the crash handler gets them all.
LEMMA RetriedStep ==
    DesktopInv /\ DeclaredHasARestart /\ [DesktopNext]_desktopVars => CrashIsRetried
<1> SUFFICES ASSUME DesktopInv, DeclaredHasARestart, [DesktopNext]_desktopVars,
                    NEW p \in declared, Crashed(p), sidecars[p].state = "exited",
                    sidecars'[p].state = "gone", app' = "up"
             PROVE  restarts' > restarts
  BY DEF CrashIsRetried
<1>1. /\ sidecars \in Seq(Sidecars) /\ p \in Spawned /\ p = apiProcess /\ restarts \in Nat
      /\ sidecars' # sidecars /\ Spawned = 1 .. Len(sidecars) /\ ~ Alive(p)
  BY SidecarsTyped DEF DesktopInv, DesktopTypeOK, Crashed, Alive
<1>2. ASSUME NEW q \in Spawned, sidecars' = Handled(q) PROVE p = q
  <2>1. SUFFICES ASSUME p \in Spawned \ {q} PROVE FALSE  BY <1>1
  <2>2. sidecars'[p] = sidecars[p]  BY <1>1, <1>2, <2>1, HandledLeaves
  <2>. QED  BY <2>2
<1>3. ~ (Launch \/ Retry)  BY DEF Launch, Retry, Boot
<1>4. ~ (WindowReady \/ UserQuits \/ SplashCloses)
  <2>1. ASSUME BeforeQuit PROVE FALSE
    <3>1. sidecars' = sidecars  BY <1>1, <2>1 DEF BeforeQuit, Stopped, Killed
    <3>. QED  BY <1>1, <3>1
  <2>. QED  BY <1>1, <2>1 DEF WindowReady, UserQuits, SplashCloses, world
<1>5. ~ (AttemptPasses \/ AttemptFails)
  BY <1>1 DEF AttemptPasses, AttemptFails, Reject, BootFails, world
<1>6. ASSUME NEW q \in Spawned, ExitEvent(q) PROVE restarts' > restarts
  <2>1. CASE Restart(q)
    <3>1. restarts' = restarts + 1  BY <2>1 DEF Restart
    <3>. QED  BY <1>1, <3>1
  <2>2. CASE ~ (Crashed(q) /\ FirstCrash)
    <3>1. sidecars' = Handled(q) /\ app = "up"
      BY <1>6, <2>2 DEF ExitEvent, Reject, BootFails
    <3>2. p = q  BY <1>2, <3>1
    <3>. QED  BY <1>1, <2>2, <3>1, <3>2 DEF DeclaredHasARestart, FirstCrash
  <2>. QED  BY <1>6, <2>1, <2>2 DEF ExitEvent
<1>7. ASSUME NEW q \in Spawned, ErrorEvent(q) PROVE FALSE
  <2>1. sidecars' = Handled(q) /\ sidecars[q].state = "failed"
    BY <1>7 DEF ErrorEvent, Reject, BootFails
  <2>2. p = q  BY <1>2, <2>1
  <2>. QED  BY <2>1, <2>2
<1>10. ~ (QuitEnds \/ ShellKilled \/ Reboot)  BY DEF QuitEnds, ShellKilled, Reboot, Forgets
<1>11. ASSUME NEW q \in Spawned, SidecarStarts(q) \/ SidecarDies(q) \/ PidReused(q)
       PROVE  FALSE
  BY <1>1, <1>11 DEF SidecarStarts, SidecarDies, PidReused, Alive
<1>12. ~ (LogIsWritten \/ ForeignGoes \/ UNCHANGED desktopVars)
  BY <1>1 DEF LogIsWritten, ForeignGoes, desktopVars, world
<1>. QED  BY <1>3, <1>4, <1>5, <1>6, <1>7, <1>10, <1>11, <1>12 DEF DesktopNext

(* For any bounds: a crash of a sidecar whose wait has passed is answered   *)
(* by a restart, the second of the shell's life like the first.             *)
THEOREM CrashesAreRetried == DesktopSpec => EveryCrashIsRetried
<1>1. DesktopInit => DeclaredHasARestart  BY DEF DesktopInit, DeclaredHasARestart
<1>2. DesktopSpec => []DeclaredHasARestart
  BY <1>1, DeclaredStep, DesktopHolds, PTL DEF DesktopSpec
<1>. QED  BY <1>2, RetriedStep, DesktopHolds, PTL DEF DesktopSpec, EveryCrashIsRetried

\* The two together, which the run desktop checks: no step of the shell harms a
\* serving backend, a stranger or a good database, and every crash of a healthy
\* backend is answered by a restart.
THEOREM WhatWorksStays == DesktopSpec => WhatWorksIsKept
BY NothingIsHarmed, CrashesAreRetried DEF WhatWorksIsKept
=============================================================================
