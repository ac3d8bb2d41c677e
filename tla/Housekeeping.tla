---------------------------- MODULE Housekeeping ----------------------------
(***************************************************************************)
(* The background work of the API process: the retention pass, the weekly  *)
(* digest, the generation of release notes and the update of the viewer's  *)
(* bundle, each next to the requests it races with.  They share no rows,   *)
(* only the process that may crash: a behaviour is about one of them,      *)
(* whichever Init picks, so that TLC sees the sum of their states and not  *)
(* the product.                                                            *)
(***************************************************************************)
EXTENDS Retention, Digest, ReleaseNotes, ScalarUpdate

VARIABLE area \* which of the four the behaviour is about

vars == <<retentionVars, digestVars, noteVars, scalarVars, area>>

Areas == {"retention", "digest", "notes", "scalar"}

Init ==
    /\ area \in Areas
    /\ RetentionInit /\ DigestInit /\ NotesInit /\ ScalarInit
    /\ area # "digest" => marked = {}
    /\ area # "notes" => Present = {}
    /\ area # "scalar" => hasDir /\ latest = 0

\* The process dies and is started again.
Crash ==
    /\ UNCHANGED area
    /\ \/ area = "retention" /\ RetentionCrash /\ UNCHANGED <<digestVars, noteVars, scalarVars>>
       \/ area = "notes" /\ NotesCrash /\ UNCHANGED <<retentionVars, digestVars, scalarVars>>
       \/ area = "scalar" /\ ScalarCrash /\ UNCHANGED <<retentionVars, digestVars, noteVars>>
       \/ /\ area = "digest" /\ UNCHANGED <<retentionVars, noteVars, scalarVars>>
          /\ \E r \in Replicas : DigestCrash(r)

Next ==
    \/ /\ area = "retention" /\ RetentionNext
       /\ UNCHANGED <<digestVars, noteVars, scalarVars, area>>
    \/ /\ area = "digest" /\ DigestNext
       /\ UNCHANGED <<retentionVars, noteVars, scalarVars, area>>
    \/ /\ area = "notes" /\ NotesNext
       /\ UNCHANGED <<retentionVars, digestVars, scalarVars, area>>
    \/ /\ area = "scalar" /\ ScalarNext
       /\ UNCHANGED <<retentionVars, digestVars, noteVars, area>>
    \/ Crash

\* The loop of main.rs and the tasks that tokio runs go on; requests and the
\* faults around them are under no obligation to happen.
Fairness ==
    /\ WF_vars(area = "retention" /\ (ReadWindows \/ RunStatement)
                 /\ UNCHANGED <<digestVars, noteVars, scalarVars, area>>)
    /\ WF_vars(area = "retention" /\ NextDay
                 /\ UNCHANGED <<digestVars, noteVars, scalarVars, area>>)
    /\ \A n \in Notes :
          WF_vars(area = "notes" /\ (Build(n) \/ StoreResult(n))
                    /\ UNCHANGED <<retentionVars, digestVars, scalarVars, area>>)

Spec == Init /\ [][Next]_vars /\ Fairness

TypeOK ==
    /\ area \in Areas
    /\ RetentionTypeOK /\ DigestTypeOK /\ NotesTypeOK /\ ScalarTypeOK

\* What goes out is right: one digest a week from each replica, notes that list
\* the whole diff, and a bundle that is what its version says.
NoticesAreRight == TypeOK /\ NoSecondDigest /\ PolledNotesAreWhole /\ BundleIsNamed

\* A PUT of the windows is in force, and no row goes before its window is over.
WindowsArePromises == PutTakesEffect /\ WindowsAreHonoured

\* What is due is done: overdue rows go, pending generations end.
NothingIsLeftUndone == NothingStaysOverdue /\ GenerationEnds
=============================================================================
