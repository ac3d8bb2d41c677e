---------------------------- MODULE DesktopShell ----------------------------
(***************************************************************************)
(* The main process of the desktop shell                                   *)
(* (radar-desktop/electron/main/index.ts): it kills the sidecar a killed   *)
(* shell left behind, starts its own, polls /health, backs up a database   *)
(* the sidecar refuses, restarts a crashed sidecar once, and stops it on   *)
(* quit.  The shell itself may be killed, and the machine rebooted.        *)
(*                                                                         *)
(* A sidecar is numbered by its spawn.  Its exit is seen by the shell one  *)
(* event later, and what it wrote reaches the log file later still.        *)
(***************************************************************************)
EXTENDS Naturals, Sequences, FiniteSets

CONSTANTS
    MaxSpawns,   \* bound on sidecars: beyond it spawn() throws
    MaxRetries,  \* maxRetries of waitForApi, 60 in the code
    MaxLaunches, \* bound on the launches of the shell
    MaxDeaths    \* bound on the sidecars that die of something unmodelled

ASSUME DesktopAssumption ==
    /\ MaxSpawns \in Nat /\ MaxRetries \in Nat \ {0}
    /\ MaxLaunches \in Nat \ {0} /\ MaxDeaths \in Nat

NoProc == 0 \* null
Procs == 1 .. MaxSpawns

VARIABLES
    app,              \* off, booting, asking (the Retry/Quit dialog) or up
    launch,           \* launches so far; also stands for sessionToken
    secondTry,        \* whether the boot is past the backup of the database
    apiProcess, isQuitting, restartAttempted,
    waiting,          \* the sidecar of the pending waitForApi
    attempts,         \* its attempts; NotWaiting when none is pending
    watched,          \* sidecars with the crash handler
    splash, fading,   \* a splash window is open; one is fading out
    window,           \* the main window exists
    pidFile           \* the file radar-api.pid

memory == <<app, secondTry, apiProcess, isQuitting, restartAttempted, waiting,
            attempts, watched, splash, fading, window>>

VARIABLES
    sidecars,  \* by spawn: [state, launch, served]
    log,       \* radar-api.log holds the checksum error
    unwritten, \* the error is on its way to the log
    db,        \* drift.db: none, good, or old (the migrations refuse it)
    foreign,   \* another program answers /health on port 17380
    win32,     \* process.platform
    reused,    \* sidecars that are gone and whose PID a stranger now has
    deaths

world == <<sidecars, log, unwritten, db, foreign, win32, reused, deaths>>

VARIABLES \* for the properties
    restarts, \* automatic restarts since a sidecar of the shell last served
    misled,   \* a wait passed though its own sidecar never served
    told,     \* the user was told that the backend stopped
    declared, \* sidecars whose wait passed
    hurt      \* strangers that were killed

history == <<restarts, misled, told, declared, hurt>>

desktopVars == <<memory, world, history, launch, pidFile>>

Spawned == 1 .. Len(sidecars)
Alive(p) == p \in Spawned /\ sidecars[p].state \in {"starting", "serving"}
Serving == {p \in Spawned : sidecars[p].state = "serving"}
NotWaiting == MaxRetries + 2

DesktopInit ==
    /\ app = "off" /\ launch = 0 /\ secondTry = FALSE /\ apiProcess = NoProc
    /\ isQuitting = FALSE /\ restartAttempted = FALSE
    /\ waiting = NoProc /\ attempts = NotWaiting /\ watched = {}
    /\ splash = FALSE /\ fading = FALSE /\ window = FALSE /\ pidFile = NoProc
    /\ sidecars = <<>> /\ log = FALSE /\ unwritten = FALSE
    /\ db \in {"none", "good", "old"} /\ foreign \in BOOLEAN /\ win32 \in BOOLEAN
    /\ reused = {} /\ deaths = 0
    /\ restarts = 0 /\ misled = FALSE /\ told = FALSE /\ declared = {} /\ hurt = {}

-----------------------------------------------------------------------------
(* Killing and spawning: steps of the handlers below.                      *)

\* The sidecars once launch n has killed p; as its child, p still has its exit
\* event to deliver.
Killed(p, n) ==
    IF Alive(p)
    THEN [sidecars EXCEPT ![p].state = IF sidecars[p].launch = n THEN "exited" ELSE "gone"]
    ELSE sidecars

\* On Windows the image name is checked, elsewhere it is not.
LooksLikeOurSidecar(p) == win32 => Alive(p)

\* killStaleSidecar: the list of sidecars once the recorded one is killed.
StaleKilled(n) ==
    IF pidFile # NoProc /\ LooksLikeOurSidecar(pidFile) THEN Killed(pidFile, n) ELSE sidecars

StrangersOf(p) == {p} \cap reused

StaleStrangers ==
    IF pidFile # NoProc /\ LooksLikeOurSidecar(pidFile) THEN StrangersOf(pidFile) ELSE {}

\* Mutant: the log is opened for appending.
OpenedLog_Append(content) == content

\* openSidecarLog truncates the file.
OpenedLog(content) == FALSE

\* startApiSidecar of launch n on list s, with pid file f: the child runs and its PID is
\* recorded, or it fails with an error event and has no PID, or spawn throws
\* and there is no child.
Start(s, f, n) ==
    /\ log' = OpenedLog(log)
    /\ \/ /\ Len(s) < MaxSpawns
          /\ \E state \in {"starting", "failed"} :
                /\ sidecars' = Append(s, [state |-> state, launch |-> n, served |-> FALSE])
                /\ apiProcess' = Len(s) + 1
                /\ pidFile' = IF state = "failed" THEN f ELSE Len(s) + 1
       \/ sidecars' = s /\ apiProcess' = NoProc /\ pidFile' = f

WaitFor(p) == waiting' = p /\ attempts' = 0
StopWaiting == waiting' = NoProc /\ attempts' = NotWaiting

-----------------------------------------------------------------------------
(* Boot.                                                                   *)

\* startSidecarAndAwaitHealth up to its first wait, behind a new splash; s is
\* the list of sidecars after killStaleSidecar.
Boot(s, n) ==
    /\ app' = "booting" /\ secondTry' = FALSE /\ splash' = TRUE
    /\ hurt' = hurt \cup StaleStrangers
    /\ Start(s, NoProc, n) /\ WaitFor(apiProcess')

\* The single-instance lock; a second launch only shows the window.
Locked == app # "off"

Launch ==
    /\ ~Locked /\ launch < MaxLaunches
    /\ launch' = launch + 1
    /\ isQuitting' = FALSE /\ restartAttempted' = FALSE /\ watched' = {}
    /\ fading' = FALSE /\ window' = FALSE
    /\ restarts' = 0 /\ misled' = FALSE /\ told' = FALSE
    /\ Boot(StaleKilled(launch + 1), launch + 1)
    /\ UNCHANGED <<declared, unwritten, db, foreign, win32, reused, deaths>>

RetryKills == StaleKilled(launch)

\* Retry in the dialog.  The user takes longer than the log does.
Retry ==
    /\ app = "asking" /\ ~isQuitting /\ ~unwritten
    /\ Boot(RetryKills, launch)
    /\ UNCHANGED <<isQuitting, restartAttempted, watched, fading, window, launch,
                   unwritten, db, foreign, win32, reused, deaths, restarts, misled, told, declared>>

\* The catch of the first wait: with the checksum error in the log and a
\* database to rename, back it up and try once more; else ask the user.
BackUp == log /\ db # "none" /\ ~secondTry

BootFails(s) ==
    \/ /\ BackUp /\ db' = "none" /\ secondTry' = TRUE
       /\ Start(s, pidFile, launch) /\ WaitFor(apiProcess')
       /\ UNCHANGED <<app, splash, fading>>
    \/ \* The dialog, also when the rename fails; the splash fades behind it.
       /\ app' = "asking" /\ splash' = FALSE /\ fading' = (fading \/ splash)
       /\ StopWaiting /\ sidecars' = s
       /\ UNCHANGED <<db, secondTry, apiProcess, pidFile, log>>

\* The boot wait passes: watch the sidecar and open the window.
BootPasses ==
    /\ app' = "up" /\ window' = TRUE
    /\ watched' = watched \cup ({apiProcess} \ {NoProc})
    /\ UNCHANGED restartAttempted

\* ready-to-show.
WindowReady ==
    /\ app = "up" /\ window /\ splash
    /\ splash' = FALSE /\ fading' = TRUE
    /\ UNCHANGED <<app, secondTry, apiProcess, isQuitting, restartAttempted, waiting,
                   attempts, watched, window, world, history, launch, pidFile>>

-----------------------------------------------------------------------------
(* waitForApi.                                                             *)

Served(p) == p \in Spawned /\ sidecars[p].served

\* A program on the port answers, or the sidecar that just died has.
Answered == foreign \/ Serving # {} \/ (Served(waiting) /\ sidecars[waiting].state = "exited")

\* A restart that succeeds clears the flag.
Rearmed(flag) == FALSE

AttemptPasses ==
    /\ attempts # NotWaiting /\ Answered
    /\ StopWaiting
    /\ misled' = (misled \/ ~Served(waiting))
    /\ declared' = declared \cup ({waiting} \ {NoProc})
    /\ IF app = "booting" THEN BootPasses
       ELSE restartAttempted' = Rearmed(restartAttempted) /\ UNCHANGED <<app, window, watched>>
    /\ UNCHANGED <<secondTry, apiProcess, isQuitting, splash, fading, world,
                   restarts, told, hurt, launch, pidFile>>

Counted == attempts + 1

Notify == told' = TRUE

\* What a rejected wait does; s is the list of sidecars by then.
Reject(s) ==
    IF app = "booting" THEN BootFails(s) /\ UNCHANGED told
    ELSE /\ Notify /\ StopWaiting /\ sidecars' = s
         /\ UNCHANGED <<app, splash, fading, db, secondTry, apiProcess, pidFile, log>>

Exhausted(n) == n >= MaxRetries

\* An attempt is refused; after MaxRetries of them the wait is rejected, and
\* the sidecar is left as it is.
AttemptFails ==
    /\ attempts # NotWaiting /\ ~foreign /\ Serving = {}
    /\ IF Exhausted(Counted) THEN Reject(sidecars)
       ELSE attempts' = Counted /\ UNCHANGED <<app, splash, fading, db, secondTry,
                apiProcess, pidFile, log, sidecars, waiting, told>>
    /\ UNCHANGED <<isQuitting, restartAttempted, watched, window, unwritten, foreign,
                   win32, reused, deaths, restarts, misled, declared, hurt, launch>>

-----------------------------------------------------------------------------
(* Exit and error events.                                                  *)

Handled(p) == [sidecars EXCEPT ![p].state = "gone"]

\* The crash handler ignores what quitting or a restart replaced.
Crashed(p) == p \in watched /\ ~isQuitting /\ p = apiProcess

\* Mutant: every exit is the first.
FirstCrash_Always == TRUE

FirstCrash == ~restartAttempted

\* The one restart: when there is no child to wait for, the user is told.
Restart(p) ==
    /\ restartAttempted' = TRUE /\ restarts' = restarts + 1
    /\ Start(Handled(p), pidFile, launch)
    /\ IF apiProcess' = NoProc THEN Notify /\ StopWaiting /\ UNCHANGED watched
       ELSE WaitFor(apiProcess') /\ watched' = watched \cup {apiProcess'} /\ UNCHANGED told
    /\ UNCHANGED <<app, splash, fading, db, secondTry>>

\* Mutant: the crash handler gives up without a word.
GiveUp_Silent == UNCHANGED told

GiveUp == Notify

ExitEvent(p) ==
    /\ app # "off" /\ sidecars[p].state = "exited" /\ sidecars[p].launch = launch
    /\ IF Crashed(p) /\ FirstCrash THEN Restart(p)
       ELSE /\ IF waiting = p THEN Reject(Handled(p))
               ELSE /\ sidecars' = Handled(p)
                    /\ IF Crashed(p) THEN GiveUp ELSE UNCHANGED told
                    /\ UNCHANGED <<app, splash, fading, db, secondTry, apiProcess,
                                   pidFile, log, waiting, attempts>>
            /\ UNCHANGED <<restartAttempted, restarts, watched>>
    /\ UNCHANGED <<isQuitting, window, unwritten, foreign, win32, reused, deaths,
                   misled, declared, hurt, launch>>

\* A spawn that failed emits error, which only the wait listens for.
ErrorEvent(p) ==
    /\ app # "off" /\ sidecars[p].state = "failed" /\ sidecars[p].launch = launch
    /\ IF waiting = p THEN Reject(Handled(p))
       ELSE sidecars' = Handled(p) /\ UNCHANGED <<app, splash, fading, db, secondTry,
                apiProcess, pidFile, log, waiting, attempts, told>>
    /\ UNCHANGED <<isQuitting, restartAttempted, watched, window, unwritten, foreign,
                   win32, reused, deaths, restarts, misled, declared, hurt, launch>>

-----------------------------------------------------------------------------
(* Quitting.                                                               *)

\* The tree of the child is killed; one without a PID is left alone.
Stopped(p) == IF p = NoProc THEN sidecars ELSE Killed(p, launch)

HasPid(p) == p # NoProc /\ sidecars[p].state # "failed"

\* before-quit, and every window starts to close.
BeforeQuit ==
    /\ isQuitting' = TRUE /\ apiProcess' = NoProc /\ pidFile' = NoProc
    /\ sidecars' = Stopped(apiProcess)
    /\ hurt' = hurt \cup IF HasPid(apiProcess) THEN StrangersOf(apiProcess) ELSE {}
    /\ UNCHANGED <<app, secondTry, restartAttempted, waiting, attempts, watched, log,
                   unwritten, db, foreign, win32, reused, deaths, restarts, misled,
                   told, declared, launch>>

\* The user quits, from a menu, the dialog, or by closing the last window.
UserQuits ==
    /\ app # "off" /\ ~isQuitting
    /\ splash' = FALSE /\ fading' = FALSE /\ window' = FALSE
    /\ BeforeQuit

\* A faded splash closes; if it was the last window, window-all-closed quits,
\* whatever dialog is on the screen.
SplashCloses ==
    /\ fading /\ fading' = FALSE
    /\ IF splash \/ window \/ isQuitting
       THEN UNCHANGED <<app, secondTry, apiProcess, isQuitting, restartAttempted, waiting,
                        attempts, watched, splash, window, world, history, launch, pidFile>>
       ELSE BeforeQuit /\ UNCHANGED <<splash, window>>

Forgets ==
    /\ app' = "off" /\ secondTry' = FALSE /\ apiProcess' = NoProc
    /\ isQuitting' = FALSE /\ restartAttempted' = FALSE /\ StopWaiting
    /\ watched' = {} /\ splash' = FALSE /\ fading' = FALSE /\ window' = FALSE
    /\ unwritten' = FALSE
    /\ UNCHANGED <<log, db, foreign, win32, deaths, history, launch, pidFile>>

\* The process of the shell ends: nobody takes the exits of its children.
Orphaned == [p \in Spawned |-> IF sidecars[p].state \in {"exited", "failed"}
                               THEN [sidecars[p] EXCEPT !.state = "gone"] ELSE sidecars[p]]

QuitEnds ==
    /\ isQuitting /\ Forgets /\ sidecars' = Orphaned /\ UNCHANGED reused

ShellKilled ==
    /\ app # "off" /\ launch < MaxLaunches /\ Forgets
    /\ sidecars' = Orphaned /\ UNCHANGED reused

\* A reboot ends every process and hands the PIDs out again.
Reboot ==
    /\ app # "off" /\ launch < MaxLaunches /\ Forgets
    /\ sidecars' = [p \in Spawned |-> [sidecars[p] EXCEPT !.state = "gone"]]
    /\ reused' = Spawned \cap {pidFile}

-----------------------------------------------------------------------------
(* The sidecars and the rest of the machine.                               *)

\* radar-api migrates first and binds then; either may end it.
SidecarStarts(p) ==
    /\ sidecars[p].state = "starting"
    /\ LET binds == db # "old" /\ ~foreign /\ Serving = {} IN
       /\ sidecars' = [sidecars EXCEPT ![p].served = binds,
                          ![p].state = IF binds THEN "serving"
                                       ELSE IF sidecars[p].launch = launch /\ app # "off"
                                            THEN "exited" ELSE "gone"]
       /\ unwritten' = (unwritten \/ (db = "old" /\ app # "off"))
       /\ db' = IF db = "none" THEN "good" ELSE db
       /\ IF binds THEN restarts' = 0 /\ told' = FALSE ELSE UNCHANGED <<restarts, told>>
    /\ UNCHANGED <<memory, log, foreign, win32, reused, deaths, misled, declared, hurt, launch, pidFile>>

SidecarDies(p) ==
    /\ Alive(p) /\ deaths < MaxDeaths
    /\ deaths' = deaths + 1
    /\ sidecars' = [sidecars EXCEPT ![p].state =
                       IF sidecars[p].launch = launch /\ app # "off" THEN "exited" ELSE "gone"]
    /\ UNCHANGED <<memory, log, unwritten, db, foreign, win32, reused, history, launch, pidFile>>

LogIsWritten ==
    /\ unwritten /\ unwritten' = FALSE /\ log' = TRUE
    /\ UNCHANGED <<memory, sidecars, db, foreign, win32, reused, deaths, history, launch, pidFile>>

\* Of interest only for a PID the shell still knows.
PidReused(p) ==
    /\ sidecars[p].state = "gone" /\ p \in {pidFile, apiProcess} \ reused
    /\ reused' = reused \cup {p}
    /\ UNCHANGED <<memory, sidecars, log, unwritten, db, foreign, win32, deaths, history,
                   launch, pidFile>>

ForeignGoes ==
    /\ foreign /\ foreign' = FALSE
    /\ UNCHANGED <<memory, sidecars, log, unwritten, db, win32, reused, deaths, history,
                   launch, pidFile>>

-----------------------------------------------------------------------------
DesktopNext ==
    \/ Launch \/ Retry \/ WindowReady \/ AttemptPasses \/ AttemptFails
    \/ \E p \in Spawned : ExitEvent(p) \/ ErrorEvent(p)
    \/ UserQuits \/ SplashCloses \/ QuitEnds \/ ShellKilled \/ Reboot
    \/ \E p \in Spawned : SidecarStarts(p) \/ SidecarDies(p) \/ PidReused(p)
    \/ LogIsWritten \/ ForeignGoes

\* The event loop takes its events and timers, and the log is written.  Users
\* decide nothing, a sidecar may hang while it starts, and nothing dies.
DesktopFairness ==
    /\ WF_desktopVars(AttemptPasses \/ AttemptFails)
    /\ \A p \in Procs : WF_desktopVars(p \in Spawned /\ (ExitEvent(p) \/ ErrorEvent(p)))
    /\ WF_desktopVars(QuitEnds) /\ WF_desktopVars(SplashCloses) /\ WF_desktopVars(LogIsWritten)

DesktopSpec == DesktopInit /\ [][DesktopNext]_desktopVars /\ DesktopFairness

-----------------------------------------------------------------------------
(* Properties.                                                             *)

\* Types of the variables; at most one waitForApi is pending.
DesktopTypeOK ==
    /\ app \in {"off", "booting", "asking", "up"}
    /\ launch \in 0 .. MaxLaunches /\ deaths \in 0 .. MaxDeaths
    /\ {apiProcess, waiting, pidFile} \subseteq Spawned \cup {NoProc}
    /\ attempts \in (0 .. MaxRetries - 1) \cup {NotWaiting}
    /\ UNION {watched, declared, reused, hurt} \subseteq Spawned
    /\ sidecars \in Seq([state : {"starting", "serving", "failed", "exited", "gone"},
                         launch : 1 .. MaxLaunches, served : BOOLEAN])
    /\ Len(sidecars) <= MaxSpawns
    /\ db \in {"none", "good", "old"} /\ restarts \in 0 .. MaxSpawns + 1
    /\ {secondTry, isQuitting, restartAttempted, splash, fading, window, log, unwritten,
        foreign, win32, misled, told} \subseteq BOOLEAN

\* Every live sidecar is the one radar-api.pid names, across crashes, quits,
\* retries and restarts: so no two run at once on one database, and what a
\* quit or a crash leaves behind is found by the next launch.
LiveSidecarIsRecorded == \A p \in Spawned : Alive(p) => pidFile = p

\* The sidecar that serves the running shell has the token of this launch,
\* so the renderer's requests are not refused by a survivor of the last one.
TokenIsAccepted == app # "off" => \A p \in Serving : sidecars[p].launch = launch

\* "Attempts exactly one restart (never a tight loop)": between two sidecars
\* that served there is one restart, unless the wait took the answer of
\* another program on the port for its sidecar's.
OneRestartPerIncident == restarts > 1 => misled

\* The shell has one backend, that is its own, and does not multiply it.
OneOwnBackend == DesktopTypeOK /\ LiveSidecarIsRecorded /\ TokenIsAccepted /\ OneRestartPerIncident

\* A serving sidecar is never killed by the shell except to quit: not by a
\* second launch, not by a late event of an older sidecar.
ServingSidecarIsLeftAlone ==
    [][app = "up" /\ app' # "off" /\ deaths' = deaths =>
          isQuitting' \/ \A p \in Serving : sidecars'[p].state = "serving"]_desktopVars

\* On Windows the start-up kill never hits a process that took the PID; the
\* kill of before-quit has no such guard.
StaleKillIsChecked == [][hurt' # hurt => ~win32 \/ isQuitting']_desktopVars

\* Only a database the migrations refuse is moved away: never the good one
\* the second try has just created, whatever the log said before.
GoodDatabaseIsKept == [][db = "good" => db' = "good"]_desktopVars

\* The shell harms nothing that works: the backend, other programs, the database.
NothingThatWorksIsHarmed == ServingSidecarIsLeftAlone /\ StaleKillIsChecked /\ GoodDatabaseIsKept

\* A crash of a sidecar that was declared healthy is answered by a restart,
\* also the second one in the life of the shell.
CrashIsRetried ==
    \A p \in declared : /\ Crashed(p)
                        /\ sidecars[p].state = "exited" /\ sidecars'[p].state = "gone"
                        /\ app' = "up"
        => restarts' > restarts

EveryCrashIsRetried == [][CrashIsRetried]_desktopVars

\* What works is kept working: the shell harms none of it, and brings back a
\* healthy backend that crashed.
WhatWorksIsKept == NothingThatWorksIsHarmed /\ EveryCrashIsRetried

\* When the backend of the open window is gone, it serves again or the user
\* is told, unless the shell ends or another program answered for it.
BackendLossIsTold ==
    app = "up" /\ ~isQuitting /\ ~Alive(apiProcess)
        ~> told \/ Serving # {} \/ misled \/ isQuitting \/ app = "off"

\* Every boot ends: in the window, in the question, or with the shell.
BootEnds == app = "booting" ~> app # "booting"

\* Losing the backend has an answer: a message, a window or a question.
LossIsAnswered == BackendLossIsTold /\ BootEnds
=============================================================================
