----------------------------- MODULE ScanCommand -----------------------------
(***************************************************************************)
(* `radar scan` (radar-cli/src/scan.rs): one run, or several at the same   *)
(* time, posts the call sites of a consumer's code in chunks and then, for *)
(* each collection file, registers a consumer of the collection's name and *)
(* posts the file's evidence under it.  A call that fails is a warning and *)
(* the run goes on; it may have been carried out all the same.             *)
(***************************************************************************)
EXTENDS Naturals, FiniteSets

CONSTANTS
    Scans,     \* runs of the command, on the same checkout
    Chunks,    \* number of chunks of at most 500 call sites
    Files,     \* number of --collection files, numbered in the order given
    Collection,\* per file: the name of its collection
    Items,     \* per file: requests with the fields they assert
    Fallback   \* --consumer-id

ASSUME ScanAssumption ==
    /\ Chunks \in Nat /\ Files \in Nat
    /\ DOMAIN Collection = 1 .. Files /\ DOMAIN Items = 1 .. Files
    /\ \A f \in 1 .. Files : Collection[f] # Fallback

VARIABLES
    scan,       \* the local state of a run
    sites,      \* chunks whose rows are in call_site
    registered, \* names of consumers
    filed       \* rows of impact_evidence from collection files

scanVars == <<scan, sites, registered, filed>>

Names == {Collection[f] : f \in 1 .. Files}
EvidenceRow(f, who) == {[item |-> i, consumer |-> who] : i \in Items[f]}

\* at: the step to come, for chunk or file n.  posted and inserted stand for the
\* counts of the summary: the chunks accepted, and the rows that were new.
NotStarted == [at |-> "none", n |-> 0, who |-> Fallback, posted |-> {}, inserted |-> {},
               warned |-> FALSE]

ScanInit ==
    /\ scan = [s \in Scans |-> NotStarted]
    /\ sites = {} /\ registered = {} /\ filed = {}

\* Where a run is after chunk n, and after file n.
AfterChunk(l, n) == IF n < Chunks THEN [l EXCEPT !.at = "sites", !.n = n + 1]
                    ELSE IF Files = 0 THEN [l EXCEPT !.at = "done"]
                    ELSE [l EXCEPT !.at = "file", !.n = 1]

AfterFile(l, n) == IF n < Files THEN [l EXCEPT !.at = "file", !.n = n + 1]
                   ELSE [l EXCEPT !.at = "done"]

ScanAt(s, where) == scan[s].at = where

-----------------------------------------------------------------------------
\* Nothing to post ends the run; no call sites alone do not.
StartScan(s) ==
    /\ ScanAt(s, "none")
    /\ scan' = [scan EXCEPT ![s] = AfterChunk(NotStarted, 0)]
    /\ UNCHANGED <<sites, registered, filed>>

Warned(l) == [l EXCEPT !.warned = TRUE]

\* post_call_sites
PostChunk(s) ==
    LET l == scan[s]  n == l.n IN
    /\ ScanAt(s, "sites")
    /\ \/ /\ sites' = sites \cup {n}
          /\ scan' = [scan EXCEPT ![s] = AfterChunk([l EXCEPT !.posted = @ \cup {n}], n)]
       \/ /\ sites' \in {sites, sites \cup {n}}
          /\ scan' = [scan EXCEPT ![s] = AfterChunk(Warned(l), n)]
    /\ UNCHANGED <<registered, filed>>

\* A file that parse_collection cannot read is skipped with a warning.
SkipFile(s) ==
    /\ ScanAt(s, "file")
    /\ scan' = [scan EXCEPT ![s] = AfterFile(Warned(@), scan[s].n)]
    /\ UNCHANGED <<sites, registered, filed>>

\* upsert_consumer_by_name; without an answer the evidence goes to --consumer-id.
NameConsumer(s) ==
    LET l == scan[s]  name == Collection[l.n] IN
    /\ ScanAt(s, "file")
    /\ \/ /\ registered' = registered \cup {name}
          /\ scan' = [scan EXCEPT ![s] = [l EXCEPT !.at = "evidence", !.who = name]]
       \/ /\ registered' \in {registered, registered \cup {name}}
          /\ scan' = [scan EXCEPT ![s] = [Warned(l) EXCEPT !.at = "evidence", !.who = Fallback]]
    /\ UNCHANGED <<sites, filed>>

\* ON CONFLICT DO NOTHING: the rows that the answer counts as inserted.
NewRows(rows) == rows \ filed

\* post_collection_evidence
PostEvidence(s) ==
    LET l == scan[s]  rows == EvidenceRow(l.n, l.who) IN
    /\ ScanAt(s, "evidence")
    /\ \/ /\ filed' = filed \cup rows
          /\ scan' = [scan EXCEPT ![s] =
                        AfterFile([l EXCEPT !.inserted = @ \cup NewRows(rows)], l.n)]
       \/ /\ filed' \in {filed, filed \cup rows}
          /\ scan' = [scan EXCEPT ![s] = AfterFile(Warned(l), l.n)]
    /\ UNCHANGED <<sites, registered>>

\* The job is cancelled.  A call it was waiting for is like one that has failed.
KillScan(s) ==
    /\ scan[s].at \in {"sites", "file", "evidence"}
    /\ scan' = [scan EXCEPT ![s].at = "killed"]
    /\ UNCHANGED <<sites, registered, filed>>

ScanNext == \E s \in Scans : \/ StartScan(s) \/ PostChunk(s) \/ SkipFile(s)
                             \/ NameConsumer(s) \/ PostEvidence(s) \/ KillScan(s)

-----------------------------------------------------------------------------
ScanRows == [item : UNION {Items[f] : f \in 1 .. Files}, consumer : Names \cup {Fallback}]

ScanTypeOK ==
    /\ scan \in [Scans -> [at : {"none", "sites", "file", "evidence", "done", "killed"},
                           n : 0 .. Chunks + Files, who : Names \cup {Fallback},
                           posted : SUBSET (1 .. Chunks), inserted : SUBSET ScanRows,
                           warned : BOOLEAN]]
    /\ sites \subseteq 1 .. Chunks
    /\ registered \subseteq Names
    /\ filed \subseteq ScanRows

(* A run that ended without a warning has left all its call sites and the  *)
(* evidence of every file under that file's consumer, whatever other runs  *)
(* did meanwhile.                                                          *)
SilenceMeansStored ==
    \A s \in Scans : ScanAt(s, "done") /\ ~ scan[s].warned =>
        /\ sites = 1 .. Chunks
        /\ \A f \in 1 .. Files : Collection[f] \in registered
                                 /\ EvidenceRow(f, Collection[f]) \subseteq filed

(* No two runs count the same new row, so that the summaries add up to no  *)
(* more rows than there are, and to all of them when no run has warned or  *)
(* was cancelled.                                                          *)
SummariesAddUp ==
    /\ \A s, t \in Scans : s # t => scan[s].inserted \cap scan[t].inserted = {}
    /\ UNION {scan[s].inserted : s \in Scans} \subseteq filed
    /\ (\A s \in Scans : ~ scan[s].warned /\ ~ ScanAt(s, "killed")) =>
          filed = UNION {scan[s].inserted : s \in Scans}

(* Evidence of a file is under --consumer-id only after a warning, and     *)
(* under a name only when the name is a consumer's.                        *)
FallbackIsAnnounced ==
    \A x \in filed : \/ x.consumer \in registered
                     \/ x.consumer = Fallback /\ \E s \in Scans : scan[s].warned

ScansAreHonest == SilenceMeansStored /\ SummariesAddUp /\ FallbackIsAnnounced
=============================================================================
