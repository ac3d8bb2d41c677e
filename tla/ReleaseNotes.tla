---------------------------- MODULE ReleaseNotes ----------------------------
(***************************************************************************)
(* Release notes and migration guides of one diff, after                   *)
(* radar-api/src/release_notes.rs: notes written by hand, notes generated  *)
(* by a task of the process, the polling of that task, and the PATCH of a  *)
(* note's status, which reads it in one statement and sets it in another.  *)
(***************************************************************************)
EXTENDS Naturals, FiniteSets

CONSTANTS
    Notes,    \* ids of release notes
    Changes,  \* changes the diff may have
    Patches,  \* PATCH requests of a behaviour
    Absent,   \* no row, no task, no request
    ByHand,   \* a content the client wrote
    Empty     \* the content of a note that is being generated

Severities == {"breaking", "non_breaking_risky", "safe"}
Statuses   == {"draft", "reviewed", "published", "superseded"}

VARIABLES
    change,  \* the changes of the diff: their severity or Absent
    note,    \* rows of release_note
    task,    \* per note, the task that generates it
    patch,   \* per PATCH, how far it is
    lost     \* for the properties: notes whose task ended without a word

noteVars == <<change, note, task, patch, lost>>

Present == {c \in Changes : change[c] # Absent}
Of(severity) == {c \in Present : change[c] = severity}

NotesInit ==
    /\ change \in [Changes -> Severities \cup {Absent}]
    /\ note = [n \in Notes |-> Absent]
    /\ task = [n \in Notes |-> Absent]
    /\ patch = [p \in Patches |-> Absent]
    /\ lost = {}

-----------------------------------------------------------------------------
(* Notes and their generation.                                             *)

CreateNote(n) ==
    /\ note[n] = Absent
    /\ note' = [note EXCEPT ![n] =
                  [status |-> "draft", generation |-> Absent, content |-> ByHand]]
    /\ UNCHANGED <<change, task, patch, lost>>

\* The row, and then the task, unless the handler is dropped in between.
GenerateNote(n) ==
    /\ note[n] = Absent
    /\ note' = [note EXCEPT ![n] =
                  [status |-> "draft", generation |-> "pending", content |-> Empty]]
    /\ \/ task' = [task EXCEPT ![n] = [at |-> "build", content |-> Empty]] /\ UNCHANGED lost
       \/ lost' = lost \cup {n} /\ UNCHANGED task
    /\ UNCHANGED <<change, patch>>

\* build_release_note_content: one section per severity.
BuildContent ==
    [breaking |-> Of("breaking"), risky |-> Of("non_breaking_risky"), safe |-> Of("safe")]

\* The SELECTs of the task; one of them may fail.
Build(n) ==
    /\ task[n] # Absent /\ task[n].at = "build"
    /\ \/ task' = [task EXCEPT ![n] = [at |-> "built", content |-> BuildContent]]
       \/ task' = [task EXCEPT ![n].at = "failed"]
    /\ UNCHANGED <<change, note, patch, lost>>

\* Mutant: a failed build is not written down.
Generated_NoError(n) ==
    IF task[n].at = "failed" THEN note[n]
    ELSE [note[n] EXCEPT !.content = task[n].content, !.generation = "completed"]

\* The row after the UPDATE of the task; the status is left as it is.
Generated(n) ==
    IF task[n].at = "failed" THEN [note[n] EXCEPT !.generation = "failed"]
    ELSE [note[n] EXCEPT !.content = task[n].content, !.generation = "completed"]

StoreResult(n) ==
    /\ task[n] # Absent /\ task[n].at # "build"
    /\ note' = [note EXCEPT ![n] = Generated(n)]
    /\ task' = [task EXCEPT ![n] = Absent]
    /\ UNCHANGED <<change, patch, lost>>

\* The error of that UPDATE is dropped.
StoreFails(n) ==
    /\ task[n] # Absent /\ task[n].at # "build"
    /\ task' = [task EXCEPT ![n] = Absent]
    /\ lost' = lost \cup {n}
    /\ UNCHANGED <<change, note, patch>>

\* get_generate_status shows a content only with generation_status completed.
Polled(n) == IF note[n].generation = "completed" THEN note[n].content ELSE Absent

\* get_migration_guide: the breaking changes.
MigrationGuide == {c \in Present : change[c] = "breaking"}

-----------------------------------------------------------------------------
(* PATCH /v1/release-notes/:id/status.                                     *)

AllowedNext(status) ==
    CASE status = "draft"      -> {"reviewed", "superseded"}
      [] status = "reviewed"   -> {"published", "draft", "superseded"}
      [] status = "published"  -> {"superseded"}
      [] status = "superseded" -> {}

\* Mutant: the transition is not checked.
Transitions_Any(n) == Statuses \ {note[n].status}

Transitions(n) == AllowedNext(note[n].status)

\* The SELECT and the check.  stale, kept for the properties: another PATCH of
\* the note was carried out since.
PatchSelect(p) ==
    /\ patch[p] = Absent
    /\ \E n \in Notes :
          /\ note[n] # Absent
          /\ \E to \in Transitions(n) :
                patch' = [patch EXCEPT ![p] =
                            [note |-> n, to |-> to, at |-> "update", stale |-> FALSE]]
    /\ UNCHANGED <<change, note, task, lost>>

\* The UPDATE, by id alone.
PatchUpdate(p) ==
    LET n == patch[p].note IN
    /\ patch[p] # Absent /\ patch[p].at = "update"
    /\ note' = [note EXCEPT ![n].status = patch[p].to]
    /\ patch' = [x \in Patches |->
                   IF x = p THEN [patch[x] EXCEPT !.at = "done"]
                   ELSE IF patch[x] # Absent /\ patch[x].note = n
                   THEN [patch[x] EXCEPT !.stale = TRUE]
                   ELSE patch[x]]
    /\ UNCHANGED <<change, task, lost>>

NotesCrash ==
    /\ task' = [n \in Notes |-> Absent]
    /\ lost' = lost \cup {n \in Notes : task[n] # Absent}
    /\ patch' = [p \in Patches |->
                   IF patch[p] = Absent THEN Absent ELSE [patch[p] EXCEPT !.at = "done"]]
    /\ UNCHANGED <<change, note>>

NotesNext ==
    \/ \E n \in Notes : CreateNote(n) \/ GenerateNote(n) \/ Build(n)
                        \/ StoreResult(n) \/ StoreFails(n)
    \/ \E p \in Patches : PatchSelect(p) \/ PatchUpdate(p)

-----------------------------------------------------------------------------
Contents == [breaking : SUBSET Changes, risky : SUBSET Changes, safe : SUBSET Changes]

NoteRows == [status : Statuses, generation : {Absent, "pending", "completed", "failed"},
             content : Contents \cup {ByHand, Empty}]
Tasks == [at : {"build", "built", "failed"}, content : Contents \cup {Empty}]
Patched == [note : Notes, to : Statuses, at : {"update", "done"}, stale : BOOLEAN]

ASSUME NotesAssumption ==
    Absent # "completed" /\ Absent \notin NoteRows \cup Tasks \cup Patched

NotesTypeOK ==
    /\ change \in [Changes -> Severities \cup {Absent}]
    /\ note \in [Notes -> NoteRows \cup {Absent}]
    /\ task \in [Notes -> Tasks \cup {Absent}]
    /\ patch \in [Patches -> Patched \cup {Absent}]
    /\ lost \subseteq Notes

(* The status of a note follows the workflow draft, reviewed, published,   *)
(* superseded from the status it has, not the one a PATCH has seen: a step *)
(* outside the workflow is made only by a PATCH during which another PATCH *)
(* of the note was carried out.                                            *)
StatusFollowsWorkflow ==
    [][\A p \in Patches :
         (PatchUpdate(p) /\ ~ patch[p].stale) =>
            note'[patch[p].note].status
               \in AllowedNext(note[patch[p].note].status)]_noteVars

(* Whoever polls a generation is shown nothing, or a note that lists every *)
(* change of the diff once, and the breaking ones under the same heading   *)
(* as the migration guide.                                                 *)
PolledNotesAreWhole ==
    \A n \in Notes : (note[n] # Absent /\ Polled(n) # Absent) =>
        LET c == Polled(n)
        IN  /\ c.breaking \cup c.risky \cup c.safe = Present
            /\ c.breaking \cap c.risky = {} /\ c.safe \cap (c.breaking \cup c.risky) = {}
            /\ c.breaking = MigrationGuide

Pending(n) == note[n] # Absent /\ note[n].generation = "pending"

(* A generation that is pending ends as completed or failed, unless its    *)
(* task was lost with the process, with the request that should have       *)
(* spawned it, or with the UPDATE whose error is dropped.                  *)
GenerationEnds == \A n \in Notes : Pending(n) ~> (~ Pending(n) \/ n \in lost)
=============================================================================
