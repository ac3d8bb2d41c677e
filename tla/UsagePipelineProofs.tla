------------------------- MODULE UsagePipelineProofs -------------------------
(***************************************************************************)
(* Proofs about UsagePipeline for any numbers of events, requests, chunks  *)
(* and files, any clients, window and limit: that the limiter implements   *)
(* FixedWindow and is fair, that evidence is kept on its way from the SDK  *)
(* to the tables, that what is stored is of the caller's organisation, and *)
(* that a scan has stored what it says.                                    *)
(***************************************************************************)
EXTENDS UsagePipeline, TLAPS, FiniteSetTheorems, SequenceTheorems

-----------------------------------------------------------------------------
(* `radar scan`: runs only add to the tables, and each has stored what is  *)
(* behind it.                                                              *)

Runs == [at : {"none", "sites", "file", "evidence", "done", "killed"},
         n : 0 .. Chunks + Files, who : Names \cup {Fallback},
         posted : SUBSET (1 .. Chunks), inserted : SUBSET ScanRows, warned : BOOLEAN]

\* The chunks and the files a run has behind it.
ChunksBehind(l) == CASE l.at = "sites" -> 1 .. l.n - 1
                     [] l.at \in {"file", "evidence", "done"} -> 1 .. Chunks
                     [] OTHER -> {}

FilesBehind(l) == CASE l.at \in {"file", "evidence"} -> 1 .. l.n - 1
                    [] l.at = "done" -> 1 .. Files
                    [] OTHER -> {}

FileStored(f, names, table) ==
    Collection[f] \in names /\ EvidenceRow(f, Collection[f]) \subseteq table

OnItsWay(l, chunks, names, table) ==
    /\ l.at = "none" => l = NotStarted
    /\ l.at = "sites" => l.n \in 1 .. Chunks
    /\ l.at \in {"file", "evidence"} => l.n \in 1 .. Files
    /\ l.at = "evidence" => \/ l.who = Collection[l.n] /\ l.who \in names
                            \/ l.who = Fallback /\ l.warned
    /\ l.inserted \subseteq table
    /\ ~ l.warned => /\ ChunksBehind(l) \subseteq chunks
                     /\ \A f \in FilesBehind(l) : FileStored(f, names, table)

\* Inductive: with the summaries and the fallback it says where every run is.
ScanInv ==
    /\ ScanTypeOK
    /\ \A s \in Scans : OnItsWay(scan[s], sites, registered, filed)
    /\ SummariesAddUp /\ FallbackIsAnnounced

LEMMA NamesAreNames ==
    /\ \A f \in 1 .. Files : Collection[f] \in Names
    /\ \A f \in 1 .. Files, who \in Names \cup {Fallback} :
          EvidenceRow(f, who) \in SUBSET ScanRows
BY DEF Names, EvidenceRow, ScanRows

LEMMA AfterChunkGoesOn ==
    \A l \in Runs, n \in 0 .. Chunks : LET m == AfterChunk(l, n) IN
        /\ m \in Runs
        /\ m.who = l.who /\ m.inserted = l.inserted /\ m.warned = l.warned
        /\ \/ n < Chunks /\ m.at = "sites" /\ m.n = n + 1
           \/ n = Chunks /\ m.at = "file" /\ m.n = 1 /\ Files > 0
           \/ n = Chunks /\ m.at = "done" /\ Files = 0
<1> SUFFICES ASSUME NEW l \in Runs, NEW n \in 0 .. Chunks, NEW m, m = AfterChunk(l, n)
             PROVE  /\ m \in Runs
                    /\ m.who = l.who /\ m.inserted = l.inserted /\ m.warned = l.warned
                    /\ \/ n < Chunks /\ m.at = "sites" /\ m.n = n + 1
                       \/ n = Chunks /\ m.at = "file" /\ m.n = 1 /\ Files > 0
                       \/ n = Chunks /\ m.at = "done" /\ Files = 0
  OBVIOUS
<1>1. CASE n < Chunks
  <2>1. m = [l EXCEPT !.at = "sites", !.n = n + 1]  BY <1>1 DEF AfterChunk
  <2>2. n + 1 \in 0 .. Chunks + Files  BY <1>1, ScanAssumption
  <2>. QED  BY <1>1, <2>1, <2>2 DEF Runs
<1>2. CASE n = Chunks /\ Files = 0
  <2>1. m = [l EXCEPT !.at = "done"]  BY <1>2, ScanAssumption DEF AfterChunk
  <2>. QED  BY <1>2, <2>1 DEF Runs
<1>3. CASE n = Chunks /\ Files # 0
  <2>1. m = [l EXCEPT !.at = "file", !.n = 1]  BY <1>3, ScanAssumption DEF AfterChunk
  <2>2. 1 \in 0 .. Chunks + Files /\ Files > 0  BY <1>3, ScanAssumption
  <2>. QED  BY <1>3, <2>1, <2>2 DEF Runs
<1>. QED  BY <1>1, <1>2, <1>3, ScanAssumption

LEMMA AfterFileGoesOn ==
    \A l \in Runs, n \in 1 .. Files : LET m == AfterFile(l, n) IN
        /\ m \in Runs
        /\ m.who = l.who /\ m.inserted = l.inserted /\ m.warned = l.warned
        /\ \/ n < Files /\ m.at = "file" /\ m.n = n + 1
           \/ n = Files /\ m.at = "done"
<1> SUFFICES ASSUME NEW l \in Runs, NEW n \in 1 .. Files, NEW m, m = AfterFile(l, n)
             PROVE  /\ m \in Runs
                    /\ m.who = l.who /\ m.inserted = l.inserted /\ m.warned = l.warned
                    /\ \/ n < Files /\ m.at = "file" /\ m.n = n + 1
                       \/ n = Files /\ m.at = "done"
  OBVIOUS
<1>1. CASE n < Files
  <2>1. m = [l EXCEPT !.at = "file", !.n = n + 1]  BY <1>1 DEF AfterFile
  <2>2. n + 1 \in 0 .. Chunks + Files  BY <1>1, ScanAssumption
  <2>. QED  BY <1>1, <2>1, <2>2 DEF Runs
<1>2. CASE n = Files
  <2>1. m = [l EXCEPT !.at = "done"]  BY <1>2, ScanAssumption DEF AfterFile
  <2>. QED  BY <1>2, <2>1 DEF Runs
<1>. QED  BY <1>1, <1>2, ScanAssumption

\* The other runs do not mind: what they have stored stays.
LEMMA TablesOnlyGrow ==
    ASSUME sites \subseteq sites', registered \subseteq registered', filed \subseteq filed',
           NEW l, OnItsWay(l, sites, registered, filed)
    PROVE  OnItsWay(l, sites', registered', filed')
<1>1. \A f : FileStored(f, registered, filed) => FileStored(f, registered', filed')
  BY DEF FileStored
<1>. QED  BY <1>1 DEF OnItsWay

\* What a step of run s has to show: the new local state, and the tables.
LEMMA RunSteps ==
    ASSUME ScanInv, NEW s \in Scans, NEW m \in Runs,
           scan' = [scan EXCEPT ![s] = m],
           sites \subseteq sites', registered \subseteq registered', filed \subseteq filed',
           sites' \subseteq 1 .. Chunks, registered' \subseteq Names, filed' \subseteq ScanRows,
           OnItsWay(m, sites', registered', filed'),
           scan[s].warned => m.warned,
           m.inserted = scan[s].inserted \cup (m.inserted \ filed),
           m.warned \/ m.at = "killed" \/ filed' = filed \cup m.inserted,
           scan[s].at = "killed" => m.at = "killed",
           \A x \in filed' \ filed : \/ x.consumer \in registered'
                                     \/ x.consumer = Fallback /\ m.warned
    PROVE  ScanInv'
<1>1. scan \in [Scans -> Runs]  BY DEF ScanInv, ScanTypeOK, Runs
<1>2. scan' \in [Scans -> Runs] /\ scan'[s] = m
      /\ \A t \in Scans \ {s} : scan'[t] = scan[t]
  BY <1>1
<1>3. ScanTypeOK'  BY <1>2 DEF ScanTypeOK, Runs, ScanRows, Names
<1>4. ASSUME NEW t \in Scans PROVE OnItsWay(scan'[t], sites', registered', filed')
  <2>1. CASE t = s  BY <1>2, <2>1
  <2>2. CASE t # s
    <3>1. OnItsWay(scan[t], sites, registered, filed)  BY DEF ScanInv
    <3>2. OnItsWay(scan[t], sites, registered, filed)'  BY <3>1, TablesOnlyGrow
    <3>. QED  BY <1>2, <2>2, <3>2
  <2>. QED  BY <2>1, <2>2
<1>5. \A t \in Scans : scan[t].inserted \subseteq filed  BY DEF ScanInv, OnItsWay
<1>6. SummariesAddUp'
  <2>1. \A t, u \in Scans : t # u => scan'[t].inserted \cap scan'[u].inserted = {}
    BY <1>2, <1>5 DEF ScanInv, SummariesAddUp
  <2>2. m.inserted \subseteq filed'  BY DEF OnItsWay
  <2>3. UNION {scan'[t].inserted : t \in Scans} \subseteq filed'  BY <1>2, <1>5, <2>2
  <2>4. ASSUME \A t \in Scans : ~ scan'[t].warned /\ scan'[t].at # "killed"
        PROVE  filed' = UNION {scan'[t].inserted : t \in Scans}
    <3>1. \A t \in Scans : ~ scan[t].warned /\ scan[t].at # "killed"  BY <1>2, <2>4
    <3>2. filed = UNION {scan[t].inserted : t \in Scans}
      BY <3>1 DEF ScanInv, SummariesAddUp, ScanAt
    <3>3. filed' = filed \cup m.inserted  BY <1>2, <2>4
    <3>4. \A t \in Scans : scan[t].inserted \subseteq scan'[t].inserted  BY <1>2
    <3>5. filed' \subseteq UNION {scan'[t].inserted : t \in Scans}
      BY <1>2, <3>2, <3>3, <3>4
    <3>. QED  BY <2>3, <3>5
  <2>. QED  BY <2>1, <2>3, <2>4 DEF SummariesAddUp, ScanAt
<1>7. FallbackIsAnnounced'
  <2>1. \A x \in filed : \/ x.consumer \in registered'
                         \/ x.consumer = Fallback /\ \E t \in Scans : scan'[t].warned
    <3>1. \A t \in Scans : scan[t].warned => scan'[t].warned  BY <1>2
    <3>2. FallbackIsAnnounced  BY DEF ScanInv
    <3>. QED  BY <3>1, <3>2 DEF FallbackIsAnnounced
  <2>. QED  BY <1>2, <2>1 DEF FallbackIsAnnounced
<1>. QED  BY <1>3, <1>4, <1>6, <1>7 DEF ScanInv

LEMMA ScanStep == ScanInv /\ [ScanNext]_scanVars => ScanInv'
<1> SUFFICES ASSUME ScanInv, [ScanNext]_scanVars PROVE ScanInv'  OBVIOUS
<1> USE ScanAssumption
<1>0. /\ scan \in [Scans -> Runs]
      /\ sites \subseteq 1 .. Chunks /\ registered \subseteq Names /\ filed \subseteq ScanRows
      /\ \A s \in Scans : OnItsWay(scan[s], sites, registered, filed)
  BY DEF ScanInv, ScanTypeOK, Runs
<1>1. ASSUME NEW s \in Scans, StartScan(s) PROVE ScanInv'
  <2> DEFINE m == AfterChunk(NotStarted, 0)
  <2>1. NotStarted \in Runs  BY DEF NotStarted, Runs
  <2>2. scan[s] = NotStarted  BY <1>0, <1>1 DEF StartScan, ScanAt, OnItsWay
  <2>3. /\ m \in Runs /\ m.inserted = {} /\ m.warned = FALSE
        /\ \/ m.at = "sites" /\ m.n = 1 /\ 0 < Chunks
           \/ m.at = "file" /\ m.n = 1 /\ Files > 0 /\ Chunks = 0
           \/ m.at = "done" /\ Files = 0 /\ Chunks = 0
    <3>1. m \in Runs /\ m.inserted = NotStarted.inserted /\ m.warned = NotStarted.warned
          /\ \/ 0 < Chunks /\ m.at = "sites" /\ m.n = 0 + 1
             \/ 0 = Chunks /\ m.at = "file" /\ m.n = 1 /\ Files > 0
             \/ 0 = Chunks /\ m.at = "done" /\ Files = 0
      BY <2>1, AfterChunkGoesOn
    <3> HIDE DEF m
    <3>. QED  BY <3>1 DEF NotStarted
  <2>4. OnItsWay(m, sites', registered', filed')  BY <2>3 DEF OnItsWay, ChunksBehind, FilesBehind
  <2>5. filed' = filed /\ sites' = sites /\ registered' = registered
        /\ scan' = [scan EXCEPT ![s] = m]
    BY <1>1 DEF StartScan
  <2>6. scan[s].inserted = {} /\ scan[s].warned = FALSE /\ scan[s].at = "none"
    BY <2>2 DEF NotStarted
  <2> HIDE DEF m
  <2>. QED  BY <1>0, <2>3, <2>4, <2>5, <2>6, RunSteps
<1>2. ASSUME NEW s \in Scans, PostChunk(s) PROVE ScanInv'
  <2> DEFINE l == scan[s]  n == l.n
             good == AfterChunk([l EXCEPT !.posted = @ \cup {n}], n)
             bad  == AfterChunk(Warned(l), n)
  <2>1. l \in Runs /\ OnItsWay(l, sites, registered, filed) /\ l.at = "sites" /\ n \in 1 .. Chunks
    BY <1>0, <1>2 DEF PostChunk, ScanAt, OnItsWay
  <2>2. CASE sites' = sites \cup {n} /\ scan' = [scan EXCEPT ![s] = good]
    <3>1. [l EXCEPT !.posted = @ \cup {n}] \in Runs  BY <2>1 DEF Runs
    <3> DEFINE p == [l EXCEPT !.posted = @ \cup {n}]
    <3>5. p.inserted = l.inserted /\ p.warned = l.warned  BY <2>1 DEF Runs
    <3>6. good = AfterChunk(p, n) /\ p \in Runs /\ n \in 0 .. Chunks  BY <2>1, <3>1
    <3>2. /\ good \in Runs /\ good.inserted = l.inserted /\ good.warned = l.warned
          /\ \/ n < Chunks /\ good.at = "sites" /\ good.n = n + 1
             \/ n = Chunks /\ good.at = "file" /\ good.n = 1 /\ Files > 0
             \/ n = Chunks /\ good.at = "done" /\ Files = 0
      <4> HIDE DEF p, good, l, n
      <4>1. /\ good \in Runs /\ good.inserted = p.inserted /\ good.warned = p.warned
            /\ \/ n < Chunks /\ good.at = "sites" /\ good.n = n + 1
               \/ n = Chunks /\ good.at = "file" /\ good.n = 1 /\ Files > 0
               \/ n = Chunks /\ good.at = "done" /\ Files = 0
        BY <3>6, AfterChunkGoesOn, ZenonT(40)
      <4>. QED  BY <3>5, <4>1
    <3>3. filed' = filed /\ registered' = registered  BY <1>2 DEF PostChunk
    <3>4. OnItsWay(good, sites', registered', filed')
      <4>1. l.inserted \subseteq filed  BY <2>1 DEF OnItsWay
      <4>2. ~ l.warned => 1 .. n \subseteq sites'
        BY <2>1, <2>2 DEF OnItsWay, ChunksBehind
      <4> HIDE DEF good, l
      <4>3. ~ good.warned => ChunksBehind(good) \subseteq sites' /\ FilesBehind(good) = {}
        BY <2>1, <3>2, <4>2 DEF ChunksBehind, FilesBehind
      <4>4. n + 1 \in 1 .. Chunks \/ n = Chunks  BY <2>1, ScanAssumption
      <4>5. good.inserted \subseteq filed'  BY <3>2, <3>3, <4>1
      <4>. QED  BY <2>1, <3>2, <3>3, <4>3, <4>5 DEF OnItsWay
    <3> HIDE DEF good
    <3>. QED  BY <1>0, <2>1, <2>2, <3>2, <3>3, <3>4, RunSteps DEF OnItsWay
  <2>3. CASE sites' \in {sites, sites \cup {n}} /\ scan' = [scan EXCEPT ![s] = bad]
    <3>1. Warned(l) \in Runs /\ Warned(l).warned /\ Warned(l).inserted = l.inserted
      BY <2>1 DEF Runs, Warned
    <3>2. /\ bad \in Runs /\ bad.inserted = l.inserted /\ bad.warned
          /\ \/ n < Chunks /\ bad.at = "sites" /\ bad.n = n + 1
             \/ n = Chunks /\ bad.at = "file" /\ bad.n = 1 /\ Files > 0
             \/ n = Chunks /\ bad.at = "done" /\ Files = 0
      <4> DEFINE w == Warned(l)
      <4>1. bad = AfterChunk(w, n) /\ w \in Runs /\ n \in 0 .. Chunks  BY <2>1, <3>1
      <4> HIDE DEF bad, w, n, l
      <4>2. /\ bad \in Runs /\ bad.inserted = w.inserted /\ bad.warned = w.warned
            /\ \/ n < Chunks /\ bad.at = "sites" /\ bad.n = n + 1
               \/ n = Chunks /\ bad.at = "file" /\ bad.n = 1 /\ Files > 0
               \/ n = Chunks /\ bad.at = "done" /\ Files = 0
        BY <4>1, AfterChunkGoesOn, ZenonT(40)
      <4>3. w.warned /\ w.inserted = l.inserted  BY <3>1 DEF w
      <4>. QED  BY <4>2, <4>3
    <3>3. filed' = filed /\ registered' = registered  BY <1>2 DEF PostChunk
    <3> HIDE DEF bad
    <3>4. OnItsWay(bad, sites', registered', filed')  BY <2>1, <3>2, <3>3 DEF OnItsWay
    <3>. QED  BY <1>0, <2>1, <2>3, <3>2, <3>3, <3>4, RunSteps DEF OnItsWay
  <2>. QED  BY <1>2, <2>2, <2>3 DEF PostChunk
<1>3. ASSUME NEW s \in Scans, SkipFile(s) PROVE ScanInv'
  <2> DEFINE l == scan[s]  bad == AfterFile(Warned(l), l.n)
  <2>1. l \in Runs /\ OnItsWay(l, sites, registered, filed) /\ l.at = "file" /\ l.n \in 1 .. Files
    BY <1>0, <1>3 DEF SkipFile, ScanAt, OnItsWay
  <2>2. Warned(l) \in Runs /\ Warned(l).warned /\ Warned(l).inserted = l.inserted
    BY <2>1 DEF Runs, Warned
  <2>3. /\ bad \in Runs /\ bad.inserted = l.inserted /\ bad.warned
        /\ \/ l.n < Files /\ bad.at = "file" /\ bad.n = l.n + 1
           \/ l.n = Files /\ bad.at = "done"
    <3> DEFINE w == Warned(l)
    <3>1. bad = AfterFile(w, l.n) /\ w \in Runs /\ l.n \in 1 .. Files  BY <2>1, <2>2
    <3>2. w.warned /\ w.inserted = l.inserted  BY <2>2
    <3> HIDE DEF bad, w, l
    <3>3. /\ bad \in Runs /\ bad.inserted = w.inserted /\ bad.warned = w.warned
          /\ \/ l.n < Files /\ bad.at = "file" /\ bad.n = l.n + 1
             \/ l.n = Files /\ bad.at = "done"
      BY <3>1, AfterFileGoesOn
    <3>. QED  BY <3>2, <3>3
  <2>4. /\ filed' = filed /\ registered' = registered /\ sites' = sites
        /\ scan' = [scan EXCEPT ![s] = bad]
    BY <1>0, <1>3 DEF SkipFile
  <2> HIDE DEF bad
  <2>5. OnItsWay(bad, sites', registered', filed')  BY <2>1, <2>3, <2>4 DEF OnItsWay
  <2>. QED  BY <1>0, <2>1, <2>3, <2>4, <2>5, RunSteps DEF OnItsWay
<1>4. ASSUME NEW s \in Scans, NameConsumer(s) PROVE ScanInv'
  <2> DEFINE l == scan[s]  name == Collection[l.n]
             good == [l EXCEPT !.at = "evidence", !.who = name]
             bad  == [Warned(l) EXCEPT !.at = "evidence", !.who = Fallback]
  <2>1. l \in Runs /\ OnItsWay(l, sites, registered, filed) /\ l.at = "file" /\ l.n \in 1 .. Files
    BY <1>0, <1>4 DEF NameConsumer, ScanAt, OnItsWay
  <2>2. name \in Names  BY <2>1, NamesAreNames
  <2>3. /\ filed' = filed /\ sites' = sites
        /\ registered \subseteq registered' /\ registered' \subseteq Names
    BY <1>0, <1>4, <2>2 DEF NameConsumer
  <2>4. CASE registered' = registered \cup {name} /\ scan' = [scan EXCEPT ![s] = good]
    <3>1. /\ good \in Runs /\ good.inserted = l.inserted /\ good.warned = l.warned
          /\ good.at = "evidence" /\ good.n = l.n /\ good.who = name
      BY <2>1, <2>2 DEF Runs
    <3>2. OnItsWay(l, sites', registered', filed')  BY <2>1, <2>3, TablesOnlyGrow
    <3> HIDE DEF good
    <3>3. OnItsWay(good, sites', registered', filed')
      BY <2>1, <2>4, <3>1, <3>2 DEF OnItsWay, ChunksBehind, FilesBehind
    <3>. QED  BY <1>0, <2>1, <2>3, <2>4, <3>1, <3>3, RunSteps DEF OnItsWay
  <2>5. CASE scan' = [scan EXCEPT ![s] = bad]
    <3>1. /\ bad \in Runs /\ bad.inserted = l.inserted /\ bad.warned
          /\ bad.at = "evidence" /\ bad.n = l.n /\ bad.who = Fallback
      BY <2>1 DEF Runs, Warned
    <3> HIDE DEF bad
    <3>2. OnItsWay(bad, sites', registered', filed')  BY <2>1, <2>3, <3>1 DEF OnItsWay
    <3>. QED  BY <1>0, <2>1, <2>3, <2>5, <3>1, <3>2, RunSteps DEF OnItsWay
  <2>. QED  BY <1>4, <2>4, <2>5 DEF NameConsumer
<1>5. ASSUME NEW s \in Scans, PostEvidence(s) PROVE ScanInv'
  <2> DEFINE l == scan[s]  new == EvidenceRow(l.n, l.who)
             good == AfterFile([l EXCEPT !.inserted = @ \cup NewRows(new)], l.n)
             bad  == AfterFile(Warned(l), l.n)
  <2>1. l \in Runs /\ OnItsWay(l, sites, registered, filed) /\ l.at = "evidence" /\ l.n \in 1 .. Files
    BY <1>0, <1>5 DEF PostEvidence, ScanAt, OnItsWay
  <2>2. new \subseteq ScanRows  BY <2>1, NamesAreNames DEF Runs
  <2>3. /\ sites' = sites /\ registered' = registered
        /\ filed \subseteq filed' /\ filed' \subseteq filed \cup new
    BY <1>5 DEF PostEvidence
  <2>4. \A x \in new : x.consumer \in registered \/ (x.consumer = Fallback /\ l.warned)
    <3>1. l.who \in registered \/ (l.who = Fallback /\ l.warned)  BY <2>1 DEF OnItsWay
    <3>. QED  BY <3>1 DEF EvidenceRow
  <2>5. CASE filed' = filed \cup new /\ scan' = [scan EXCEPT ![s] = good]
    <3>1. [l EXCEPT !.inserted = @ \cup NewRows(new)] \in Runs
      BY <1>0, <2>1, <2>2 DEF Runs, NewRows
    <3>2. /\ good \in Runs /\ good.inserted = l.inserted \cup (new \ filed)
          /\ good.warned = l.warned
          /\ \/ l.n < Files /\ good.at = "file" /\ good.n = l.n + 1
             \/ l.n = Files /\ good.at = "done"
      <4> DEFINE w == [l EXCEPT !.inserted = @ \cup NewRows(new)]
      <4>1. w.warned = l.warned /\ w.inserted = l.inserted \cup (new \ filed)
        BY <2>1 DEF Runs, NewRows
      <4>2. w \in Runs /\ l.n \in 1 .. Files /\ good = AfterFile(w, l.n)  BY <2>1, <3>1
      <4> HIDE DEF good, w, l, new
      <4>. QED  BY <4>1, <4>2, AfterFileGoesOn
    <3>3. OnItsWay(l, sites', registered', filed')  BY <2>1, <2>3, TablesOnlyGrow
    <3>4. ~ l.warned => FileStored(l.n, registered', filed')
      <4>1. ~ l.warned => l.who = Collection[l.n] /\ l.who \in registered
        BY <2>1 DEF OnItsWay
      <4>. QED  BY <2>3, <2>5, <4>1 DEF FileStored, EvidenceRow
    <3> HIDE DEF good, new
    <3>5. OnItsWay(good, sites', registered', filed')
      <4>1. ~ l.warned => 1 .. Chunks \subseteq sites'
                          /\ \A f \in 1 .. l.n : FileStored(f, registered', filed')
        <5>1. ~ l.warned => \A f \in 1 .. l.n - 1 : FileStored(f, registered', filed')
          BY <2>1, <3>3 DEF OnItsWay, FilesBehind
        <5>. QED  BY <2>1, <3>3, <3>4, <5>1 DEF OnItsWay, ChunksBehind
      <4>2. good.inserted \subseteq filed'  BY <2>5, <3>2, <3>3 DEF OnItsWay
      <4>. QED  BY <2>1, <3>2, <4>1, <4>2 DEF OnItsWay, ChunksBehind, FilesBehind
    <3>6. filed' \subseteq ScanRows  BY <1>0, <2>2, <2>3
    <3>7. l.inserted \subseteq filed  BY <2>1 DEF OnItsWay
    <3>8. \A x \in filed' \ filed : \/ x.consumer \in registered'
                                    \/ x.consumer = Fallback /\ good.warned
      BY <2>3, <2>4, <3>2
    <3>9. /\ good.inserted = l.inserted \cup (good.inserted \ filed)
          /\ filed' = filed \cup good.inserted
      BY <2>5, <3>2, <3>7
    <3>. QED  BY <1>0, <2>1, <2>3, <2>5, <3>2, <3>5, <3>6, <3>8, <3>9, RunSteps
  <2>6. CASE scan' = [scan EXCEPT ![s] = bad]
    <3>1. Warned(l) \in Runs /\ Warned(l).warned /\ Warned(l).inserted = l.inserted
      BY <2>1 DEF Runs, Warned
    <3>2. /\ bad \in Runs /\ bad.inserted = l.inserted /\ bad.warned
          /\ \/ l.n < Files /\ bad.at = "file" /\ bad.n = l.n + 1
             \/ l.n = Files /\ bad.at = "done"
      <4> DEFINE w == Warned(l)
      <4>1. bad = AfterFile(w, l.n) /\ w \in Runs /\ l.n \in 1 .. Files  BY <2>1, <3>1
      <4>2. w.warned /\ w.inserted = l.inserted  BY <3>1
      <4> HIDE DEF bad, w, l
      <4>3. /\ bad \in Runs /\ bad.inserted = w.inserted /\ bad.warned = w.warned
            /\ \/ l.n < Files /\ bad.at = "file" /\ bad.n = l.n + 1
               \/ l.n = Files /\ bad.at = "done"
        BY <4>1, AfterFileGoesOn
      <4>. QED  BY <4>2, <4>3
    <3> HIDE DEF bad, new
    <3>3. OnItsWay(bad, sites', registered', filed')  BY <2>1, <2>3, <3>2 DEF OnItsWay
    <3>4. filed' \subseteq ScanRows  BY <1>0, <2>2, <2>3
    <3>. QED  BY <1>0, <2>1, <2>3, <2>4, <2>6, <3>2, <3>3, <3>4, RunSteps DEF OnItsWay
  <2>. QED  BY <1>5, <2>5, <2>6 DEF PostEvidence
<1>6. ASSUME NEW s \in Scans, KillScan(s) PROVE ScanInv'
  <2> DEFINE l == scan[s]  m == [l EXCEPT !.at = "killed"]
  <2>1. l \in Runs /\ OnItsWay(l, sites, registered, filed)  BY <1>0
  <2>2. m \in Runs /\ m.at = "killed" /\ m.inserted = l.inserted /\ m.warned = l.warned
    BY <2>1 DEF Runs
  <2>3. /\ filed' = filed /\ registered' = registered /\ sites' = sites
        /\ scan' = [scan EXCEPT ![s] = m]
    BY <1>0, <1>6 DEF KillScan
  <2> HIDE DEF m
  <2>4. OnItsWay(m, sites', registered', filed')  BY <2>1, <2>2, <2>3 DEF OnItsWay, ChunksBehind, FilesBehind
  <2>. QED  BY <1>0, <2>1, <2>2, <2>3, <2>4, RunSteps DEF OnItsWay
<1>7. CASE UNCHANGED scanVars
  BY <1>7 DEF scanVars, ScanInv, ScanTypeOK, OnItsWay, SummariesAddUp, FallbackIsAnnounced,
              ScanAt, FileStored, ChunksBehind, FilesBehind
<1>. QED  BY <1>1, <1>2, <1>3, <1>4, <1>5, <1>6, <1>7 DEF ScanNext

LEMMA ScanStarts == ScanInit => ScanInv
<1> SUFFICES ASSUME ScanInit PROVE ScanInv  OBVIOUS
<1>1. NotStarted \in Runs  BY ScanAssumption DEF NotStarted, Runs
<1>2. ScanTypeOK  BY <1>1 DEF ScanInit, ScanTypeOK, Runs
<1>3. \A s \in Scans : scan[s] = NotStarted  BY DEF ScanInit
<1>4. OnItsWay(NotStarted, sites, registered, filed)
  BY DEF OnItsWay, NotStarted, ChunksBehind, FilesBehind
<1>5. SummariesAddUp /\ FallbackIsAnnounced
  BY <1>3 DEF ScanInit, SummariesAddUp, FallbackIsAnnounced, NotStarted
<1>. QED  BY <1>2, <1>3, <1>4, <1>5 DEF ScanInv

LEMMA ScansAreHonestThen == ScanInv => ScanTypeOK /\ ScansAreHonest
<1> SUFFICES ASSUME ScanInv PROVE SilenceMeansStored  BY DEF ScanInv, ScansAreHonest
<1>1. ASSUME NEW s \in Scans, ScanAt(s, "done"), ~ scan[s].warned
      PROVE  sites = 1 .. Chunks /\ \A f \in 1 .. Files : FileStored(f, registered, filed)
  BY <1>1 DEF ScanInv, ScanTypeOK, OnItsWay, ChunksBehind, FilesBehind, ScanAt
<1>. QED  BY <1>1 DEF SilenceMeansStored, FileStored

-----------------------------------------------------------------------------
(* The way of an event: the containers it can be in.                       *)

InBatches(e, h) == \E n \in DOMAIN h : h[n] # Stop /\ e \in ToSet(h[n])
InFlight(e, f) == \E b \in f : e \in ToSet(b)
IsLost(e, l) == \E x \in l : x.event = e
InRequest(e, a) == \E r \in Requests : \E n \in DOMAIN a[r] : a[r][n].event = e

\* The items of the requests.
Asked == [r \in Requests |-> req[r].items]

\* Of the events, those up to p are in a container, and each in one only.
Spread(q, h, f, l, a, p) ==
    \A e \in Events :
      /\ e <= p <=> \/ e \in ToSet(q) \/ InBatches(e, h) \/ InFlight(e, f)
                    \/ IsLost(e, l) \/ InRequest(e, a)
      /\ e \in ToSet(q) => /\ ~ InBatches(e, h) /\ ~ InFlight(e, f)
                           /\ ~ IsLost(e, l) /\ ~ InRequest(e, a)
      /\ InBatches(e, h) => ~ InFlight(e, f) /\ ~ IsLost(e, l) /\ ~ InRequest(e, a)
      /\ InFlight(e, f) => ~ IsLost(e, l) /\ ~ InRequest(e, a)
      /\ IsLost(e, l) => ~ InRequest(e, a)

\* And it is there once.
OnceHanded(h) ==
    /\ \A n \in DOMAIN h : h[n] # Stop => IsInjective(h[n])
    /\ \A m, n \in DOMAIN h : \A e :
         (h[m] # Stop /\ h[n] # Stop /\ e \in ToSet(h[m]) /\ e \in ToSet(h[n])) => m = n

OnceFlying(f) ==
    /\ \A b \in f : IsInjective(b)
    /\ \A b, c \in f : \A e : (e \in ToSet(b) /\ e \in ToSet(c)) => b = c

OnceLost(l) == \A x, y \in l : x.event = y.event => x = y

OnceAsked(a) ==
    \A r, s \in Requests : \A m \in DOMAIN a[r], n \in DOMAIN a[s] :
      (a[r][m].event \in Events /\ a[r][m].event = a[s][n].event) => r = s /\ m = n

\* What the sentinel of destroy() divides.
Divided(q, h, c, lt) ==
    /\ c \in {"flushed", "closed"} => ToSet(q) \subseteq lt
    /\ \A n \in DOMAIN h : h[n] = Stop => c = "closed"
    /\ \A m, n \in DOMAIN h : (m < n /\ h[m] = Stop /\ h[n] # Stop) => ToSet(h[n]) \subseteq lt

\* What an SDK with these containers may count on.
Containers(q, h, f, l, a, p, c, lt) ==
    /\ q \in Seq(Events) /\ h \in Seq(Seq(Events) \cup {Stop}) /\ f \subseteq Seq(Events)
    /\ IsInjective(q) /\ OnceHanded(h) /\ OnceFlying(f)
    /\ Spread(q, h, f, l, a, p)
    /\ Divided(q, h, c, lt)

Losses == [event : Events, reason : {"exit", "network", "limited"}]

\* Inductive, together with what Ingestion does to the requests.
SdkInv ==
    /\ sdk \in {"node", "python"} /\ pushed \in 0 .. MaxEvents
    /\ worker \in {"idle", "sending", "ended"} /\ timer \in {"armed", "fired", "off"}
    /\ closing \in {"open", "cancelled", "flushed", "closed", "exited"}
    /\ late \subseteq Events /\ lost \subseteq Losses
    /\ Len(queue) < MaxBatch
    /\ Containers(queue, handed, flying, lost, Asked, pushed, closing, late)
    /\ OnceLost(lost) /\ OnceAsked(Asked)

LEMMA InSequence == \A s, e : e \in ToSet(s) <=> \E n \in DOMAIN s : s[n] = e
BY DEF ToSet

LEMMA Appending ==
    ASSUME NEW S, NEW s \in Seq(S), NEW e \in S
    PROVE  /\ Append(s, e) \in Seq(S)
           /\ Len(Append(s, e)) = Len(s) + 1
           /\ DOMAIN Append(s, e) = DOMAIN s \cup {Len(s) + 1}
           /\ Len(s) + 1 \notin DOMAIN s
           /\ Append(s, e)[Len(s) + 1] = e
           /\ \A n \in DOMAIN s : n \in 1 .. Len(s) /\ Append(s, e)[n] = s[n]
<1>1. DOMAIN s = 1 .. Len(s) /\ Len(s) \in Nat  OBVIOUS
<1>. QED  BY <1>1

LEMMA AppendingToSet ==
    ASSUME NEW S, NEW s \in Seq(S), NEW e \in S
    PROVE  /\ \A x : x \in ToSet(Append(s, e)) <=> x \in ToSet(s) \/ x = e
           /\ IsInjective(s) /\ e \notin ToSet(s) => IsInjective(Append(s, e))
<1> DEFINE t == Append(s, e)
<1>1. /\ DOMAIN t = DOMAIN s \cup {Len(s) + 1}
      /\ Len(s) + 1 \notin DOMAIN s /\ t[Len(s) + 1] = e
      /\ \A n \in DOMAIN s : t[n] = s[n]
  BY Appending
<1> HIDE DEF t
<1>2. \A x : x \in ToSet(t) <=> x \in ToSet(s) \/ x = e  BY <1>1, InSequence
<1>3. IsInjective(s) /\ e \notin ToSet(s) => IsInjective(t)
  BY <1>1, InSequence DEF IsInjective
<1>. QED  BY <1>2, <1>3 DEF t

\* A queue never outgrows one batch, so a flush takes all of it.
LEMMA FlushTakesAll ==
    ASSUME NEW q \in Seq(Events), Len(q) <= MaxBatch, Flush(q)
    PROVE  /\ queue' = <<>>
           /\ \/ q = <<>> /\ handed' = handed /\ flying' = flying
              \/ handed' = handed /\ flying' = flying \cup {q}
              \/ handed' = Append(handed, q) /\ flying' = flying
<1>1. CASE q = <<>>  BY <1>1 DEF Flush
<1>2. CASE q # <<>>
  <2>1. Len(q) \in Nat /\ MaxBatch \in Nat  BY BatcherAssumption
  <2>2. Drained(q) = <<>>  BY <2>1, SubSeqEmpty DEF Drained
  <2>3. Batch(q) = q
    <3>1. (IF Len(q) < MaxBatch THEN Len(q) ELSE MaxBatch) = Len(q)  BY <2>1
    <3>. QED  BY <3>1, SubSeqFull DEF Batch
  <2>. QED  BY <1>2, <2>2, <2>3 DEF Flush
<1>. QED  BY <1>1, <1>2

LEMMA NothingInEmpty == ToSet(<<>>) = {} /\ IsInjective(<<>>) /\ <<>> \in Seq(Events)
BY DEF ToSet, IsInjective

\* A batch is no sentinel.
LEMMA BatchesAreNoStop == \A q \in Seq(Events) : q # Stop
BY StopAssumption DEF Events

\* An event moves with its batch from the queue to the network or the worker.
LEMMA FlushMoves ==
    ASSUME NEW q, NEW l, NEW a, NEW p, NEW c, NEW lt, Len(q) <= MaxBatch, Flush(q),
           Containers(q, handed, flying, l, a, p, c, lt)
    PROVE  queue' = <<>> /\ Containers(queue', handed', flying', l, a, p, c, lt)
<1>0. q \in Seq(Events) /\ queue' = <<>> /\ handed \in Seq(Seq(Events) \cup {Stop}) /\ q # Stop
  BY FlushTakesAll, BatchesAreNoStop DEF Containers
<1>1. CASE q = <<>> /\ handed' = handed /\ flying' = flying
  BY <1>0, <1>1
<1>2. CASE handed' = handed /\ flying' = flying \cup {q}
  <2>1. \A e : InFlight(e, flying') <=> InFlight(e, flying) \/ e \in ToSet(q)
    BY <1>2 DEF InFlight
  <2>2. Spread(<<>>, handed, flying', l, a, p)
    BY <2>1, NothingInEmpty DEF Containers, Spread
  <2>3. OnceFlying(flying')
    <3>1. \A b \in flying : \A e : e \in ToSet(q) => e \notin ToSet(b)
      <4>1. \A e \in ToSet(q) : e \in Events  BY <1>0, InSequence
      <4>. QED  BY <4>1 DEF Containers, Spread, InFlight
    <3>. QED  BY <1>2, <3>1 DEF Containers, OnceFlying
  <2>4. Divided(<<>>, handed, c, lt)  BY NothingInEmpty DEF Containers, Divided
  <2>. QED  BY <1>0, <1>2, <2>2, <2>3, <2>4, NothingInEmpty DEF Containers
<1>3. CASE handed' = Append(handed, q) /\ flying' = flying
  <2> DEFINE k == Len(handed) + 1
  <2>1. /\ handed' \in Seq(Seq(Events) \cup {Stop}) /\ k \in Nat
        /\ DOMAIN handed' = DOMAIN handed \cup {k} /\ k \notin DOMAIN handed /\ handed'[k] = q
        /\ \A n \in DOMAIN handed : n < k /\ n \in Nat /\ handed'[n] = handed[n]
    BY <1>0, <1>3, Appending
  <2> HIDE DEF k
  <2>2. \A e : InBatches(e, handed') <=> InBatches(e, handed) \/ e \in ToSet(q)
    BY <1>0, <2>1 DEF InBatches
  <2>3. Spread(<<>>, handed', flying, l, a, p)
    BY <2>2, NothingInEmpty DEF Containers, Spread
  <2>4. OnceHanded(handed')
    <3>1. \A n \in DOMAIN handed : \A e :
            (handed[n] # Stop /\ e \in ToSet(q)) => e \notin ToSet(handed[n])
      <4>1. \A e \in ToSet(q) : e \in Events  BY <1>0, InSequence
      <4>. QED  BY <4>1 DEF Containers, Spread, InBatches
    <3>. QED  BY <2>1, <3>1 DEF Containers, OnceHanded
  <2>5. Divided(<<>>, handed', c, lt)
    <3>1. \A n \in DOMAIN handed' : handed'[n] = Stop => c = "closed"
      BY <1>0, <2>1 DEF Containers, Divided
    <3>2. ASSUME NEW m \in DOMAIN handed', NEW n \in DOMAIN handed',
                 m < n, handed'[m] = Stop, handed'[n] # Stop
          PROVE  ToSet(handed'[n]) \subseteq lt
      <4>1. CASE n \in DOMAIN handed
        <5>1. m \in DOMAIN handed  BY <2>1, <3>2, <4>1
        <5>. QED  BY <2>1, <3>2, <4>1, <5>1 DEF Containers, Divided
      <4>2. CASE n = k
        BY <2>1, <3>1, <3>2, <4>2 DEF Containers, Divided
      <4>. QED  BY <2>1, <4>1, <4>2
    <3>. QED  BY <3>1, <3>2, NothingInEmpty DEF Divided
  <2>. QED  BY <1>0, <1>3, <2>1, <2>3, <2>4, <2>5, NothingInEmpty DEF Containers
<1>. QED  BY <1>0, <1>1, <1>2, <1>3, FlushTakesAll

\* What the flushes of the timer and of destroy() leave.
LEMMA FlushEmpties ==
    ASSUME SdkInv, Flush(queue),
           UNCHANGED <<sdk, pushed, worker, lost, late>>, Asked' = Asked,
           timer' \in {"armed", "fired", "off"},
           \/ closing' = closing
           \/ closing \in {"open", "cancelled"} /\ closing' \in {"flushed", "closed"}
    PROVE  SdkInv'
<1>1. Len(queue) <= MaxBatch  BY BatcherAssumption DEF SdkInv, Containers
<1>2. queue' = <<>> /\ Containers(queue', handed', flying', lost, Asked, pushed, closing, late)
  BY <1>1, FlushMoves DEF SdkInv
<1>3. Divided(queue', handed', closing', late)
  BY <1>2, NothingInEmpty DEF SdkInv, Containers, Divided
<1>4. Len(queue') < MaxBatch  BY <1>2, BatcherAssumption
<1>. QED  BY <1>2, <1>3, <1>4 DEF SdkInv, Containers

\* What push() adds to the queue is in no container yet.
LEMMA PushAdds ==
    ASSUME SdkInv, NEW e, e = pushed + 1, pushed < MaxEvents,
           NEW lt, lt = IF closing = "open" THEN late ELSE late \cup {e}
    PROVE  /\ e \in Events /\ lt \subseteq Events
           /\ Len(Append(queue, e)) <= MaxBatch
           /\ Containers(Append(queue, e), handed, flying, lost, Asked, e, closing, lt)
<1> DEFINE q == Append(queue, e)
<1>1. e \in Events /\ lt \subseteq Events /\ pushed \in Nat /\ queue \in Seq(Events)
      /\ \A x \in Events : x \in Nat
  BY BatcherAssumption DEF SdkInv, Events, Containers
<1>2. q \in Seq(Events) /\ Len(q) <= MaxBatch
  BY <1>1, Appending, BatcherAssumption DEF SdkInv
<1>3. \A x : x \in ToSet(q) <=> x \in ToSet(queue) \/ x = e  BY <1>1, AppendingToSet
<1>4. /\ e \notin ToSet(queue) /\ ~ InBatches(e, handed) /\ ~ InFlight(e, flying)
      /\ ~ IsLost(e, lost) /\ ~ InRequest(e, Asked)
  BY <1>1 DEF SdkInv, Containers, Spread
<1>5. IsInjective(q)  BY <1>1, <1>4, AppendingToSet DEF SdkInv, Containers
<1>6. Spread(q, handed, flying, lost, Asked, e)
  <2> SUFFICES ASSUME NEW x \in Events
               PROVE  /\ x <= e <=> \/ x \in ToSet(q) \/ InBatches(x, handed) \/ InFlight(x, flying)
                                    \/ IsLost(x, lost) \/ InRequest(x, Asked)
                      /\ x \in ToSet(q) => /\ ~ InBatches(x, handed) /\ ~ InFlight(x, flying)
                                           /\ ~ IsLost(x, lost) /\ ~ InRequest(x, Asked)
                      /\ InBatches(x, handed) => /\ ~ InFlight(x, flying)
                                                 /\ ~ IsLost(x, lost) /\ ~ InRequest(x, Asked)
                      /\ InFlight(x, flying) => ~ IsLost(x, lost) /\ ~ InRequest(x, Asked)
                      /\ IsLost(x, lost) => ~ InRequest(x, Asked)
    BY DEF Spread
  <2>1. x <= e <=> x <= pushed \/ x = e  BY <1>1
  <2>2. Spread(queue, handed, flying, lost, Asked, pushed)  BY DEF SdkInv, Containers
  <2>. QED  BY <1>3, <1>4, <2>1, <2>2 DEF Spread
<1>7. Divided(q, handed, closing, lt)
  <2>1. Divided(queue, handed, closing, late)  BY DEF SdkInv, Containers
  <2>2. late \subseteq lt /\ (closing # "open" => e \in lt)  OBVIOUS
  <2>. QED  BY <1>3, <2>1, <2>2 DEF Divided
<1>. QED  BY <1>1, <1>2, <1>5, <1>6, <1>7 DEF SdkInv, Containers

LEMMA LosesIts ==
    /\ \A b \in Seq(Events), reason \in {"exit", "network", "limited"} :
          Lose(b, reason) \subseteq Losses
    /\ \A b, e, reason : IsLost(e, Lose(b, reason)) <=> e \in ToSet(b)
    /\ \A b, reason : OnceLost(Lose(b, reason))
<1>1. \A b \in Seq(Events) : ToSet(b) \subseteq Events  BY InSequence
<1>2. ASSUME NEW b, NEW reason
      PROVE  \A x : x \in Lose(b, reason) <=>
                     \E e \in ToSet(b) : x = [event |-> e, reason |-> reason]
  BY DEF Lose
<1>3. \A b \in Seq(Events), reason \in {"exit", "network", "limited"} :
        Lose(b, reason) \subseteq Losses
  BY <1>1, <1>2 DEF Losses
<1>4. \A b, e, reason : IsLost(e, Lose(b, reason)) <=> e \in ToSet(b)
  <2>1. ASSUME NEW b, NEW e, NEW reason, e \in ToSet(b) PROVE IsLost(e, Lose(b, reason))
    <3>1. [event |-> e, reason |-> reason] \in Lose(b, reason)  BY <1>2, <2>1
    <3>. QED  BY <3>1 DEF IsLost
  <2>2. ASSUME NEW b, NEW e, NEW reason, IsLost(e, Lose(b, reason)) PROVE e \in ToSet(b)
    BY <1>2, <2>2 DEF IsLost
  <2>. QED  BY <2>1, <2>2
<1>5. \A b, reason : OnceLost(Lose(b, reason))
  BY <1>2 DEF OnceLost
<1>. QED  BY <1>3, <1>4, <1>5

\* The worker takes the first batch, or the sentinel.
LEMMA TakeMoves == SdkInv /\ WorkerTakes /\ Asked' = Asked => SdkInv'
<1> SUFFICES ASSUME SdkInv, WorkerTakes, Asked' = Asked PROVE SdkInv'  OBVIOUS
<1> DEFINE B == Seq(Events) \cup {Stop}
<1>1. handed \in Seq(B) /\ handed # <<>>  BY DEF WorkerTakes, SdkInv, Containers
<1>2. /\ handed' \in Seq(B) /\ Len(handed) \in Nat \ {0} /\ 1 \in DOMAIN handed
      /\ Head(handed) = handed[1] /\ handed[1] \in B
      /\ \A n : n \in DOMAIN handed' <=> n \in Nat /\ n > 0 /\ n + 1 \in DOMAIN handed
      /\ \A n \in DOMAIN handed' : handed'[n] = handed[n + 1] /\ n \in Nat /\ n + 1 # 1
      /\ \A n \in DOMAIN handed : n = 1 \/ n - 1 \in DOMAIN handed'
      /\ \A n \in DOMAIN handed : n \in Nat
  BY <1>1, HeadTailProperties DEF WorkerTakes
<1> HIDE DEF B
<1>3. OnceHanded(handed')
  BY <1>2 DEF SdkInv, Containers, OnceHanded
<1>4. Divided(queue, handed', closing, late)
  <2>1. Divided(queue, handed, closing, late)  BY DEF SdkInv, Containers
  <2>2. ASSUME NEW m \in DOMAIN handed', NEW n \in DOMAIN handed',
               m < n, handed'[m] = Stop, handed'[n] # Stop
        PROVE  ToSet(handed'[n]) \subseteq late
    <3>1. m + 1 \in DOMAIN handed /\ n + 1 \in DOMAIN handed /\ m + 1 < n + 1
      BY <1>2, <2>2
    <3>. QED  BY <1>2, <2>1, <2>2, <3>1 DEF Divided
  <2>3. \A n \in DOMAIN handed' : handed'[n] = Stop => closing = "closed"
    BY <1>2, <2>1 DEF Divided
  <2>. QED  BY <2>1, <2>2, <2>3 DEF Divided
<1>5. CASE handed[1] = Stop
  <2>1. flying' = flying /\ worker' = "ended"  BY <1>2, <1>5 DEF WorkerTakes
  <2>2. \A e : InBatches(e, handed') <=> InBatches(e, handed)
    <3>1. ASSUME NEW e, NEW n \in DOMAIN handed, handed[n] # Stop, e \in ToSet(handed[n])
          PROVE  InBatches(e, handed')
      <4>1. n - 1 \in DOMAIN handed' /\ handed'[n - 1] = handed[n]  BY <1>2, <1>5, <3>1
      <4>. QED  BY <3>1, <4>1 DEF InBatches
    <3>2. ASSUME NEW e, NEW n \in DOMAIN handed', handed'[n] # Stop, e \in ToSet(handed'[n])
          PROVE  InBatches(e, handed)
      BY <1>2, <3>2 DEF InBatches
    <3>. QED  BY <3>1, <3>2 DEF InBatches
  <2>3. Spread(queue, handed', flying, lost, Asked, pushed)
    BY <2>2 DEF SdkInv, Containers, Spread
  <2>. QED  BY <1>2, <1>3, <1>4, <2>1, <2>3 DEF SdkInv, Containers, WorkerTakes, B
<1>6. CASE handed[1] # Stop
  <2> DEFINE b == handed[1]
  <2>1. flying' = flying \cup {b} /\ worker' = "sending" /\ b \in Seq(Events)
    BY <1>2, <1>6 DEF WorkerTakes, B
  <2>2. \A e : InFlight(e, flying') <=> InFlight(e, flying) \/ e \in ToSet(b)
    BY <2>1 DEF InFlight
  <2>3. \A e : InBatches(e, handed) <=> InBatches(e, handed') \/ e \in ToSet(b)
    <3>1. ASSUME NEW e, NEW n \in DOMAIN handed, handed[n] # Stop, e \in ToSet(handed[n]),
                 e \notin ToSet(b)
          PROVE  InBatches(e, handed')
      <4>1. n - 1 \in DOMAIN handed' /\ handed'[n - 1] = handed[n]  BY <1>2, <3>1
      <4>. QED  BY <3>1, <4>1 DEF InBatches
    <3>2. ASSUME NEW e, NEW n \in DOMAIN handed', handed'[n] # Stop, e \in ToSet(handed'[n])
          PROVE  InBatches(e, handed)
      BY <1>2, <3>2 DEF InBatches
    <3>. QED  BY <1>2, <1>6, <3>1, <3>2 DEF InBatches
  <2>4. \A e : ~ (InBatches(e, handed') /\ e \in ToSet(b))
    BY <1>2, <1>6 DEF InBatches, SdkInv, Containers, OnceHanded
  <2>5. Spread(queue, handed', flying', lost, Asked, pushed)
    BY <2>2, <2>3, <2>4 DEF SdkInv, Containers, Spread
  <2>6. OnceFlying(flying')
    <3>1. IsInjective(b)  BY <1>2, <1>6 DEF SdkInv, Containers, OnceHanded
    <3>2. \A c \in flying : \A e : e \in ToSet(b) => e \notin ToSet(c)
      <4>1. \A e \in ToSet(b) : e \in Events  BY <2>1, InSequence
      <4>. QED  BY <2>3, <4>1 DEF SdkInv, Containers, Spread, InFlight
    <3>. QED  BY <2>1, <3>1, <3>2 DEF SdkInv, Containers, OnceFlying
  <2>. QED
    BY <1>2, <1>3, <1>4, <2>1, <2>5, <2>6 DEF SdkInv, Containers, WorkerTakes, B
<1>. QED  BY <1>5, <1>6

\* At the end of the process everything in its containers is lost.
LEMMA ExitLoses == SdkInv /\ Exit /\ Asked' = Asked => SdkInv'
<1> SUFFICES ASSUME SdkInv, Exit, Asked' = Asked PROVE SdkInv'  OBVIOUS
<1> DEFINE batches == UNION {Lose(b, "exit") : b \in ToSet(handed) \ {Stop}}
<1>1. \A b \in ToSet(handed) \ {Stop} : b \in Seq(Events)
  BY InSequence DEF SdkInv, Containers
<1>2. queue \in Seq(Events)  BY DEF SdkInv, Containers
<1>3. lost' = (lost \cup Lose(queue, "exit")) \cup batches /\ lost' \subseteq Losses
  BY <1>1, <1>2, LosesIts DEF Exit, SdkInv
<1>4. \A e : IsLost(e, batches) <=> InBatches(e, handed)
  <2>1. \A e : IsLost(e, batches) <=>
                 \E b \in ToSet(handed) \ {Stop} : IsLost(e, Lose(b, "exit"))
    BY DEF IsLost
  <2> HIDE DEF batches
  <2>2. \A e : IsLost(e, batches) <=> \E b \in ToSet(handed) \ {Stop} : e \in ToSet(b)
    BY <2>1, LosesIts
  <2>. QED  BY <2>2, InSequence DEF InBatches
<1>5. \A x \in batches : x.reason = "exit" /\ x = [event |-> x.event, reason |-> "exit"]
  BY DEF Lose
<1>6. \A x \in Lose(queue, "exit") : x = [event |-> x.event, reason |-> "exit"]  BY DEF Lose
<1> HIDE DEF batches
<1>7. \A e : IsLost(e, lost') <=> IsLost(e, lost) \/ e \in ToSet(queue) \/ InBatches(e, handed)
  <2>1. \A e : IsLost(e, lost') <=> IsLost(e, lost) \/ IsLost(e, Lose(queue, "exit"))
                                                   \/ IsLost(e, batches)
    BY <1>3 DEF IsLost
  <2>. QED  BY <1>4, <2>1, LosesIts
<1>8. OnceLost(lost')
  <2>1. \A x \in lost, y \in Lose(queue, "exit") \cup batches : x.event # y.event
    <3>1. ASSUME NEW x \in lost, NEW y \in Lose(queue, "exit") \cup batches, x.event = y.event
          PROVE  FALSE
      <4>1. x.event \in Events /\ IsLost(x.event, lost)  BY DEF SdkInv, Losses, IsLost
      <4>2. x.event \in ToSet(queue) \/ InBatches(x.event, handed)
        <5>1. IsLost(y.event, Lose(queue, "exit")) \/ IsLost(y.event, batches)  BY DEF IsLost
        <5>. QED  BY <1>4, <3>1, <5>1, LosesIts
      <4>. QED  BY <4>1, <4>2 DEF SdkInv, Containers, Spread
    <3>. QED  BY <3>1
  <2>. QED  BY <1>3, <1>5, <1>6, <2>1 DEF SdkInv, OnceLost
<1>9. /\ queue' = <<>> /\ handed' = <<>> /\ flying' = flying /\ pushed' = pushed
      /\ late' = late /\ sdk' = sdk /\ closing' = "exited" /\ timer' = "off" /\ worker' = "ended"
  BY DEF Exit
<1>10. \A e : ~ InBatches(e, <<>>)  BY DEF InBatches
<1>11. Spread(<<>>, <<>>, flying, lost', Asked, pushed)
  BY <1>7, <1>10, NothingInEmpty DEF SdkInv, Containers, Spread
<1>12. Divided(<<>>, <<>>, "exited", late) /\ OnceHanded(<<>>)
       /\ <<>> \in Seq(Seq(Events) \cup {Stop}) /\ Len(<<>>) < MaxBatch
  BY BatcherAssumption DEF Divided, OnceHanded
<1>. QED  BY <1>3, <1>8, <1>9, <1>11, <1>12, NothingInEmpty DEF SdkInv, Containers

LEMMA BatcherStep == SdkInv /\ BatcherNext /\ Asked' = Asked => SdkInv'
<1> SUFFICES ASSUME SdkInv, BatcherNext, Asked' = Asked PROVE SdkInv'  OBVIOUS
<1>1. CASE Push
  <2> DEFINE e == pushed + 1
  <2>1. /\ pushed < MaxEvents /\ pushed' = e
        /\ late' = IF closing = "open" THEN late ELSE late \cup {e}
        /\ UNCHANGED <<sdk, worker, timer, closing>>
    BY <1>1 DEF Push
  <2>2. Len(queue) < 2 * MaxBatch
    <3>1. Len(queue) \in Nat  BY DEF SdkInv, Containers
    <3>. QED  BY <3>1, BatcherAssumption DEF SdkInv
  <2>3. /\ lost' = lost
        /\ IF FlushDue(Append(queue, e)) THEN Flush(Append(queue, e))
           ELSE queue' = Append(queue, e) /\ UNCHANGED <<handed, flying>>
    BY <1>1, <2>2, BatcherAssumption DEF Push, SdkInv, Containers
  <2>4. /\ e \in Events /\ late' \subseteq Events /\ Len(Append(queue, e)) <= MaxBatch
        /\ Containers(Append(queue, e), handed, flying, lost, Asked, e, closing, late')
    BY <2>1, PushAdds
  <2>5. Len(queue') < MaxBatch
        /\ Containers(queue', handed', flying', lost, Asked, e, closing, late')
    <3>1. CASE FlushDue(Append(queue, e))
      <4>1. Flush(Append(queue, e))  BY <2>3, <3>1
      <4>2. queue' = <<>>
            /\ Containers(queue', handed', flying', lost, Asked, e, closing, late')
        BY <2>4, <4>1, FlushMoves
      <4>. QED  BY <4>2, BatcherAssumption
    <3>2. CASE ~ FlushDue(Append(queue, e))
      <4>1. Append(queue, e) \in Seq(Events)  BY <2>4 DEF Containers
      <4>2. Len(Append(queue, e)) \in Nat  BY <4>1
      <4>3. queue' = Append(queue, e) /\ handed' = handed /\ flying' = flying
        BY <2>3, <3>2
      <4>4. Len(Append(queue, e)) < MaxBatch  BY <3>2, <4>2, BatcherAssumption DEF FlushDue
      <4>. QED  BY <2>4, <4>3, <4>4
    <3>. QED  BY <3>1, <3>2
  <2>6. e \in 0 .. MaxEvents  BY <2>4, BatcherAssumption DEF Events
  <2>. QED  BY <2>1, <2>3, <2>4, <2>5, <2>6 DEF SdkInv
<1>2. CASE TimerFires
  BY <1>2, FlushEmpties DEF TimerFires
<1>3. CASE TimerRearms
  BY <1>3 DEF TimerRearms, Rearmed, SdkInv
<1>4. CASE WorkerTakes
  BY <1>4, TakeMoves
<1>5. CASE WorkerReturns
  BY <1>5 DEF WorkerReturns, SdkInv
<1>6. CASE DestroyNode
  BY <1>6, FlushEmpties DEF DestroyNode
<1>7. CASE CancelTimer
  <2>1. Divided(queue, handed, "cancelled", late)
    BY <1>7 DEF CancelTimer, SdkInv, Containers, Divided
  <2>. QED  BY <1>7, <2>1 DEF CancelTimer, SdkInv, Containers
<1>8. CASE FlushOnDestroy
  <2>1. timer' = timer /\ timer' \in {"armed", "fired", "off"}
    BY <1>8 DEF FlushOnDestroy, SdkInv
  <2>. QED  BY <1>8, <2>1, FlushEmpties DEF FlushOnDestroy, LastFlush
<1>9. CASE PutSentinel
  <2> DEFINE k == Len(handed) + 1
  <2>1. handed \in Seq(Seq(Events) \cup {Stop}) /\ handed' = Append(handed, Stop)
    BY <1>9 DEF PutSentinel, SdkInv, Containers
  <2>2. /\ handed' \in Seq(Seq(Events) \cup {Stop}) /\ k \in Nat
        /\ DOMAIN handed' = DOMAIN handed \cup {k} /\ k \notin DOMAIN handed /\ handed'[k] = Stop
        /\ \A n \in DOMAIN handed : n < k /\ n \in Nat /\ handed'[n] = handed[n]
    BY <2>1, Appending
  <2> HIDE DEF k
  <2>3. \A e : InBatches(e, handed') <=> InBatches(e, handed)  BY <2>2 DEF InBatches
  <2>4. Spread(queue, handed', flying, lost, Asked, pushed)
    BY <2>3 DEF SdkInv, Containers, Spread
  <2>5. OnceHanded(handed')  BY <2>2 DEF SdkInv, Containers, OnceHanded
  <2>6. Divided(queue, handed', "closed", late)
    <3>1. \A n \in DOMAIN handed : handed[n] # Stop
      BY <1>9 DEF PutSentinel, SdkInv, Containers, Divided
    <3>2. ToSet(queue) \subseteq late
      BY <1>9 DEF PutSentinel, SdkInv, Containers, Divided
    <3>. QED  BY <2>2, <3>1, <3>2 DEF Divided
  <2>. QED  BY <1>9, <2>2, <2>4, <2>5, <2>6 DEF PutSentinel, SdkInv, Containers
<1>10. CASE Exit
  BY <1>10, ExitLoses
<1>. QED
  BY <1>1, <1>2, <1>3, <1>4, <1>5, <1>6, <1>7, <1>8, <1>9, <1>10 DEF BatcherNext

-----------------------------------------------------------------------------
(* Requests and what becomes of their items.                               *)

AnItem == [consumer : Orgs \cup {Free}, field : BOOLEAN, event : Nat]

Records == [kind : Kinds, org : Orgs, items : Seq(AnItem), checked : Nat, sampled : Nat,
            kept : SUBSET Nat, touched : BOOLEAN, unseen : SUBSET Nat,
            answer : {"absent", "none", "accepted", "unprocessable", "forbidden", "error"}]

\* The kinds whose items become rows of usage_event.
Evented(q) == q.kind \notin {"sites", "collection"}

\* A handler stops before it has written: what its request has kept up to where it
\* is has been checked, and sampled.
Checked(q, own) ==
    q.answer = "none" =>
      \A n \in q.kept : n <= q.checked =>
        /\ MayUse(q.items[n].consumer, q.org)
        /\ n \in q.unseen \/ (own # Free /\ MayUse(own, q.org))

Filtered(q, deny) ==
    (q.answer = "none" /\ q.kind = "usage" /\ ~ q.touched) =>
      \A n \in q.kept : n <= q.sampled => ~ (q.items[n].field /\ deny[q.org])

\* Only a field is a reason not to store an event of an SDK.
Excused(q) ==
    /\ q.kind = "usage" => \A n \in DOMAIN q.items : n \in q.kept \/ q.items[n].field
    /\ \A n \in DOMAIN q.items : q.items[n].event \in Events =>
         q.kind = "usage" /\ q.items[n].field = EventItem(q.items[n].event).field

Measured(q) ==
    /\ q.answer = "absent" => q.items = <<>>
    /\ q.checked <= Len(q.items) /\ q.sampled <= q.checked
    /\ q.kept \subseteq DOMAIN q.items /\ q.unseen \subseteq DOMAIN q.items

Proper(q, own, deny) ==
    q \in Records /\ Measured(q) /\ Checked(q, own) /\ Filtered(q, deny) /\ Excused(q)

UniqueItems(table) == \A x, y \in table : x.item = y.item => x = y

\* Inductive, for any items that arrive.
IngestInv ==
    /\ owner \in Orgs \cup {Free} /\ denied \in [Orgs -> BOOLEAN]
    /\ req \in [Requests -> Records]
    /\ \A r \in Requests : Proper(req[r], owner, denied)
    /\ \A x \in rows : /\ x.request \in Requests /\ x.n \in req[x.request].kept
                       /\ x = Row(x.request, x.n)
                       /\ req[x.request].answer = "accepted" /\ Evented(req[x.request])
    /\ \A r \in Requests : (req[r].answer = "accepted" /\ Evented(req[r])) =>
                             \A n \in req[r].kept : Row(r, n) \in rows
    /\ \A x \in siteRows \cup evidence : /\ x.request \in Requests
                                         /\ req[x.request].answer = "accepted"
    /\ UniqueItems(siteRows) /\ UniqueItems(evidence)

\* A step inside request r, which is not answered with "accepted" before or after.
LEMMA RequestMoves ==
    ASSUME IngestInv, NEW r \in Requests, req' \in [Requests -> Records],
           \A s \in Requests \ {r} : req'[s] = req[s],
           req[r].answer # "accepted", req'[r].answer # "accepted",
           UNCHANGED <<owner, denied, rows, siteRows, evidence>>,
           Proper(req'[r], owner, denied)
    PROVE  IngestInv'
<1>1. \A s \in Requests : Proper(req'[s], owner', denied')  BY DEF IngestInv
<1>2. \A s \in Requests : \A n : req[s].answer = "accepted" => Row(s, n)' = Row(s, n)
  BY DEF Row
<1>3. \A x \in rows' : /\ x.request \in Requests /\ x.n \in req'[x.request].kept
                       /\ x = Row(x.request, x.n)'
                       /\ req'[x.request].answer = "accepted" /\ Evented(req'[x.request])
  BY <1>2 DEF IngestInv
<1>4. \A s \in Requests : (req'[s].answer = "accepted" /\ Evented(req'[s])) =>
                             \A n \in req'[s].kept : Row(s, n)' \in rows'
  BY <1>2 DEF IngestInv
<1>5. \A x \in siteRows' \cup evidence' : /\ x.request \in Requests
                                          /\ req'[x.request].answer = "accepted"
  BY DEF IngestInv
<1>. QED  BY <1>1, <1>3, <1>4, <1>5 DEF IngestInv, UniqueItems

LEMMA RequestIs == IngestInv => \A r \in Requests : req[r] \in Records /\ Measured(req[r])
                                   /\ Len(req[r].items) \in Nat
                                   /\ DOMAIN req[r].items = 1 .. Len(req[r].items)
<1> SUFFICES ASSUME IngestInv, NEW r \in Requests
             PROVE  /\ req[r] \in Records /\ Measured(req[r])
                    /\ Len(req[r].items) \in Nat
                    /\ DOMAIN req[r].items = 1 .. Len(req[r].items)
  OBVIOUS
<1>1. req[r] \in Records /\ Measured(req[r])  BY DEF IngestInv, Proper
<1>2. req[r].items \in Seq(AnItem)  BY <1>1 DEF Records
<1>. QED  BY <1>1, <1>2

\* What becomes of a request that is answered.
LEMMA AnswerIs ==
    ASSUME IngestInv, NEW r \in Requests, Running(r),
           NEW answer \in {"accepted", "unprocessable", "forbidden", "error"}, Answered(r, answer)
    PROVE  /\ req' \in [Requests -> Records] /\ \A s \in Requests \ {r} : req'[s] = req[s]
           /\ req'[r].items = req[r].items /\ req'[r].kind = req[r].kind
           /\ req'[r].kept = req[r].kept /\ req'[r].answer = answer
           /\ Proper(req'[r], owner', denied') /\ Asked' = Asked
<1> DEFINE q == req[r]  p == [q EXCEPT !.answer = answer, !.checked = 0, !.sampled = 0]
<1>1. /\ q \in Records /\ Measured(q) /\ Excused(q) /\ req \in [Requests -> Records]
      /\ Len(q.items) \in Nat
  BY RequestIs DEF IngestInv, Proper
<1>2. /\ req' \in [Requests -> Records] /\ \A s \in Requests \ {r} : req'[s] = req[s]
      /\ req'[r] = p
  BY <1>1 DEF Answered, Records
<1>3. /\ p.items = q.items /\ p.kind = q.kind /\ p.kept = q.kept /\ p.answer = answer
      /\ p.checked = 0 /\ p.sampled = 0 /\ p.unseen = q.unseen /\ p \in Records
  BY <1>1 DEF Records
<1> HIDE DEF p
<1>4. Proper(p, owner', denied')
  BY <1>1, <1>3 DEF Proper, Measured, Checked, Filtered, Excused
<1>5. Asked' = Asked  BY <1>2, <1>3 DEF Asked
<1>. QED  BY <1>2, <1>3, <1>4, <1>5

LEMMA RefusalKeeps ==
    ASSUME IngestInv, NEW r \in Requests, Running(r),
           NEW answer \in {"unprocessable", "forbidden", "error"}, Answered(r, answer),
           UNCHANGED <<owner, denied, rows, siteRows, evidence>>
    PROVE  IngestInv' /\ Asked' = Asked
BY AnswerIs, RequestMoves DEF Running

LEMMA CheckKeeps ==
    ASSUME IngestInv, NEW r \in Requests, CheckItem(r) PROVE IngestInv' /\ Asked' = Asked
<1> DEFINE q == req[r]  n == q.checked + 1
<1>1. /\ q \in Records /\ Measured(q) /\ q.answer = "none" /\ q.checked < Len(q.items)
      /\ Len(q.items) \in Nat /\ DOMAIN q.items = 1 .. Len(q.items) /\ n \in Nat
      /\ req \in [Requests -> Records]
      /\ Checked(q, owner) /\ Filtered(q, denied) /\ Excused(q)
  BY RequestIs DEF CheckItem, CheckDue, Running, IngestInv, Proper, Records
<1>2. UNCHANGED <<owner, denied, rows, siteRows, evidence>>  BY DEF CheckItem
<1>3. CASE EvidenceOwned(q.items[n], q.org)
  <2>1. req' = [req EXCEPT ![r].checked = n,
                           ![r].unseen = IF owner = Free THEN @ \cup {n} ELSE @]
    BY <1>3 DEF CheckItem
  <2>2. /\ req' \in [Requests -> Records] /\ \A s \in Requests \ {r} : req'[s] = req[s]
        /\ req'[r] = [q EXCEPT !.checked = n,
                               !.unseen = IF owner = Free THEN @ \cup {n} ELSE @]
    BY <1>1, <2>1 DEF Records
  <2> DEFINE p == req'[r]
  <2>3. /\ p.items = q.items /\ p.org = q.org /\ p.kind = q.kind /\ p.kept = q.kept
        /\ p.sampled = q.sampled /\ p.touched = q.touched /\ p.answer = q.answer
        /\ p.checked = n /\ q.unseen \subseteq p.unseen /\ p.unseen \subseteq q.unseen \cup {n}
        /\ owner = Free => n \in p.unseen
        /\ p \in Records
    BY <1>1, <2>2 DEF Records
  <2> HIDE DEF p
  <2>4. Measured(p)  BY <1>1, <2>3 DEF Measured, Records
  <2>5. Checked(p, owner)
    <3>1. \A i \in q.kept : i <= n => i <= q.checked \/ i = n  BY <1>1 DEF Records
    <3>2. MayUse(q.items[n].consumer, q.org) /\ MayUse(owner, q.org)  BY <1>3 DEF EvidenceOwned
    <3>. QED  BY <1>1, <2>3, <3>1, <3>2 DEF Checked
  <2>6. Filtered(p, denied) /\ Excused(p)  BY <1>1, <2>3 DEF Filtered, Excused
  <2>7. Proper(p, owner, denied)  BY <2>3, <2>4, <2>5, <2>6 DEF Proper
  <2>8. Asked' = Asked  BY <2>2, <2>3 DEF Asked, p
  <2>. QED  BY <1>1, <1>2, <2>2, <2>3, <2>7, <2>8, RequestMoves DEF p
<1>4. CASE ~ EvidenceOwned(q.items[n], q.org)
  <2>1. Answered(r, "forbidden")  BY <1>4 DEF CheckItem
  <2>. QED  BY <1>1, <1>2, <2>1, RefusalKeeps DEF Running
<1>. QED  BY <1>3, <1>4

LEMMA PassKeeps ==
    ASSUME IngestInv, NEW r \in Requests, PassedOver(r) PROVE IngestInv' /\ Asked' = Asked
<1> DEFINE q == req[r]  n == q.checked + 1  p == req'[r]
<1>1. /\ q \in Records /\ Measured(q) /\ q.answer = "none" /\ q.checked < Len(q.items)
      /\ Len(q.items) \in Nat /\ DOMAIN q.items = 1 .. Len(q.items) /\ n \in Nat
      /\ req \in [Requests -> Records] /\ q.kind = "otlp"
      /\ Checked(q, owner) /\ Excused(q)
  BY RequestIs DEF PassedOver, CheckDue, Running, IngestInv, Proper, Records
<1>2. /\ UNCHANGED <<owner, denied, rows, siteRows, evidence>>
      /\ req' = [req EXCEPT ![r].checked = n, ![r].sampled = n, ![r].kept = @ \ {n}]
  BY DEF PassedOver
<1>3. /\ req' \in [Requests -> Records] /\ \A s \in Requests \ {r} : req'[s] = req[s]
      /\ p = [q EXCEPT !.checked = n, !.sampled = n, !.kept = @ \ {n}]
  BY <1>1, <1>2 DEF Records
<1>4. /\ p.items = q.items /\ p.org = q.org /\ p.kind = q.kind /\ p.kept = q.kept \ {n}
      /\ p.sampled = n /\ p.answer = q.answer /\ p.checked = n /\ p.unseen = q.unseen
      /\ p \in Records
  BY <1>1, <1>3 DEF Records
<1> HIDE DEF p
<1>5. Measured(p)
  <2>1. n <= Len(q.items)  BY <1>1 DEF Records
  <2>2. p.kept \subseteq q.kept  BY <1>4
  <2> HIDE DEF n
  <2>. QED  BY <1>1, <1>4, <2>1, <2>2 DEF Measured
<1>6. Checked(p, owner)
  <2>1. \A i \in p.kept : i <= n => i \in q.kept /\ i <= q.checked  BY <1>1, <1>4 DEF Records
  <2>. QED  BY <1>1, <1>4, <2>1 DEF Checked
<1>7. Filtered(p, denied) /\ Excused(p)  BY <1>1, <1>4 DEF Filtered, Excused
<1>8. Proper(p, owner, denied)  BY <1>4, <1>5, <1>6, <1>7 DEF Proper
<1>9. Asked' = Asked  BY <1>3, <1>4 DEF Asked, p
<1>. QED  BY <1>1, <1>2, <1>3, <1>4, <1>8, <1>9, RequestMoves DEF p

LEMMA SampleKeeps ==
    ASSUME IngestInv, NEW r \in Requests, SampleItem(r) PROVE IngestInv' /\ Asked' = Asked
<1> DEFINE q == req[r]  n == q.sampled + 1  p == req'[r]
<1>1. /\ q \in Records /\ Measured(q) /\ q.answer = "none"
      /\ Len(q.items) \in Nat /\ DOMAIN q.items = 1 .. Len(q.items) /\ n \in Nat
      /\ req \in [Requests -> Records]
      /\ Checked(q, owner) /\ Filtered(q, denied) /\ Excused(q)
  BY RequestIs DEF SampleItem, SampleDue, Running, IngestInv, Proper, Records
<1>2. n <= q.checked /\ n \in DOMAIN q.items
  <2>1. q.sampled < Sampleable(q)  BY DEF SampleItem, SampleDue
  <2>2. Sampleable(q) <= q.checked /\ Sampleable(q) \in Nat
    BY <1>1 DEF Sampleable, Records, Kinds
  <2>. QED  BY <1>1, <2>1, <2>2 DEF Measured, Records
<1>3. UNCHANGED <<owner, denied, rows, siteRows, evidence>>  BY DEF SampleItem
<1>10. PICK ok \in BOOLEAN : \E keep \in Keeps(q.items[n], q.kind, DenySeen(ok, q.org)) :
        req' = [req EXCEPT ![r].sampled = n,
                           ![r].kept = IF keep THEN @ ELSE @ \ {n},
                           ![r].touched = @ \/ (~ ok /\ q.items[n].field)]
  BY DEF SampleItem
<1>4. PICK keep \in Keeps(q.items[n], q.kind, DenySeen(ok, q.org)) :
        req' = [req EXCEPT ![r].sampled = n,
                           ![r].kept = IF keep THEN @ ELSE @ \ {n},
                           ![r].touched = @ \/ (~ ok /\ q.items[n].field)]
  BY <1>10
<1> DEFINE t == q.touched \/ (~ ok /\ q.items[n].field)
           k == IF keep THEN q.kept ELSE q.kept \ {n}
<1>5. /\ req' \in [Requests -> Records] /\ \A s \in Requests \ {r} : req'[s] = req[s]
      /\ p = [q EXCEPT !.sampled = n, !.kept = k, !.touched = t]
  BY <1>1, <1>4 DEF Records
<1>6. /\ p.items = q.items /\ p.org = q.org /\ p.kind = q.kind /\ p.kept = k
      /\ p.sampled = n /\ p.answer = q.answer /\ p.checked = q.checked /\ p.unseen = q.unseen
      /\ p.touched = t /\ p \in Records
  BY <1>1, <1>5 DEF Records
<1>7. q.kind = "usage" =>
        /\ n \in k \/ q.items[n].field
        /\ ~ t => n \notin k \/ ~ (q.items[n].field /\ denied[q.org])
  <2>1. q.kind = "usage" =>
          (keep <=> ~ (q.items[n].field /\ DenySeen(ok, q.org)))
    <3>1. q.kind = "usage" => keep \in {~ (q.items[n].field /\ DenySeen(ok, q.org))}
      BY <1>4, Zenon DEF Keeps
    <3>2. ASSUME q.kind = "usage", keep PROVE ~ (q.items[n].field /\ DenySeen(ok, q.org))
      BY <3>1, <3>2, Zenon
    <3>3. ASSUME q.kind = "usage", ~ keep PROVE q.items[n].field /\ DenySeen(ok, q.org)
      BY <3>1, <3>3, Zenon
    <3>. QED  BY <3>2, <3>3
  <2>4. DenySeen(ok, q.org) <=> (ok /\ denied[q.org])  BY DEF DenySeen
  <2>5. q.kind = "usage" => n \in q.kept \/ q.items[n].field  BY <1>1, <1>2 DEF Excused
  <2>2. CASE keep  BY <2>1, <2>2, <2>4, <2>5
  <2>3. CASE ~ keep /\ q.kind = "usage"
    <3>1. q.items[n].field  BY <2>1, <2>3
    <3>2. k = q.kept \ {n}  BY <2>3
    <3>. QED  BY <3>1, <3>2
  <2>. QED  BY <2>2, <2>3
<1>8. k \subseteq q.kept  OBVIOUS
<1>11. \A i \in q.kept : i \notin k => i = n  OBVIOUS
<1>12. ~ t => ~ q.touched  OBVIOUS
<1> HIDE DEF p, k, t
<1>13. Measured(p) /\ Checked(p, owner)  BY <1>1, <1>2, <1>6, <1>8 DEF Measured, Checked, Records
<1>14. Filtered(p, denied)
  <2>1. \A i \in k : i <= n => i <= q.sampled \/ i = n  BY <1>1, <1>8 DEF Records
  <2>. QED  BY <1>1, <1>6, <1>7, <1>8, <1>12, <2>1 DEF Filtered
<1>15. Excused(p)  BY <1>1, <1>6, <1>7, <1>11 DEF Excused
<1>16. Proper(p, owner, denied)  BY <1>6, <1>13, <1>14, <1>15 DEF Proper
<1>17. Asked' = Asked  BY <1>5, <1>6 DEF Asked, p
<1>. QED  BY <1>1, <1>3, <1>5, <1>6, <1>16, <1>17, RequestMoves DEF p

\* At the commit everything that is kept has been checked and sampled.
LEMMA CommitIsLast ==
    ASSUME IngestInv, NEW r \in Requests, WriteDue(r)
    PROVE  /\ \A n \in req[r].kept : /\ MayUse(req[r].items[n].consumer, req[r].org)
                                     /\ n \in req[r].unseen \/ MayUse(owner, req[r].org)
           /\ (req[r].kind = "usage" /\ ~ req[r].touched) =>
                \A n \in req[r].kept : ~ (req[r].items[n].field /\ denied[req[r].org])
<1> DEFINE q == req[r]
<1>1. /\ q \in Records /\ Measured(q) /\ q.answer = "none"
      /\ Len(q.items) \in Nat /\ DOMAIN q.items = 1 .. Len(q.items)
      /\ Checked(q, owner) /\ Filtered(q, denied)
  BY RequestIs DEF WriteDue, Running, IngestInv, Proper
<1>2. ~ (q.sampled < Sampleable(q)) /\ ~ (q.checked < Len(q.items))
  BY DEF WriteDue, CheckDue, SampleDue
<1>3. q.checked = Len(q.items)  BY <1>1, <1>2 DEF Measured, Records
<1>4. q.kind = "usage" => q.sampled = Len(q.items)
  BY <1>1, <1>2, <1>3 DEF Sampleable, Measured, Records
<1>5. \A n \in q.kept : n \in Nat /\ n <= Len(q.items)  BY <1>1 DEF Measured
<1>. QED  BY <1>1, <1>3, <1>4, <1>5 DEF Checked, Filtered

LEMMA InsertedIsUnique ==
    ASSUME NEW table, NEW new, UniqueItems(table),
           \A x \in new : x.n \in Nat, \A x, y \in new : x.n = y.n => x = y
    PROVE  UniqueItems(Inserted(table, new)) /\ Inserted(table, new) \subseteq table \cup new
BY DEF UniqueItems, Inserted

LEMMA CommitKeeps ==
    ASSUME IngestInv, NEW r \in Requests, Commit(r)
    PROVE  /\ IngestInv' /\ Asked' = Asked
           /\ rows' \subseteq rows \cup {Row(r, n) : n \in req[r].kept}
           /\ Stored' \subseteq Stored \cup {Row(r, n) : n \in req[r].kept}
<1> DEFINE q == req[r]  done == Written(r)  new == {Row(r, n) : n \in done}
           answer == IF done = q.kept THEN "accepted" ELSE "unprocessable"
<1>1. /\ Running(r) /\ Answered(r, answer) /\ UNCHANGED <<owner, denied>>
  BY DEF Commit, WriteDue
<1>2. /\ req' \in [Requests -> Records] /\ \A s \in Requests \ {r} : req'[s] = req[s]
      /\ req'[r].items = req[r].items /\ req'[r].kind = req[r].kind
      /\ req'[r].kept = req[r].kept /\ req'[r].answer = answer
      /\ Proper(req'[r], owner', denied') /\ Asked' = Asked
  <2>1. answer \in {"accepted", "unprocessable", "forbidden", "error"}  OBVIOUS
  <2> HIDE DEF answer
  <2>. QED  BY <1>1, <2>1, AnswerIs
<1>3. done \subseteq q.kept /\ q.kept \subseteq Nat
  BY RequestIs DEF Written, Records
<1>4. \A s \in Requests : \A n : Row(s, n)' = Row(s, n)  BY <1>2 DEF Row
<1>5. /\ \A x \in new : x.request = r /\ x.n \in q.kept /\ x = Row(r, x.n) /\ x.n \in Nat
      /\ \A x, y \in new : x.n = y.n => x = y
  BY <1>3 DEF Row
<1>6. done # q.kept => new = {}  BY DEF Written
<1>7. /\ rows \subseteq rows' /\ rows' \subseteq rows \cup new
      /\ ~ Evented(q) => rows' = rows
      /\ Evented(q) => new \subseteq rows'
      /\ siteRows' \cup evidence' \subseteq siteRows \cup evidence \cup new
      /\ UniqueItems(siteRows') /\ UniqueItems(evidence')
  <2>1. UniqueItems(siteRows) /\ UniqueItems(evidence)  BY DEF IngestInv
  <2>2. \A table : UniqueItems(table) =>
          UniqueItems(Inserted(table, new)) /\ Inserted(table, new) \subseteq table \cup new
    BY <1>5, InsertedIsUnique
  <2> HIDE DEF new
  <2>3. CASE q.kind = "sites" /\ StoreSites(new)
    BY <2>1, <2>2, <2>3 DEF StoreSites, Evented
  <2>4. CASE q.kind = "collection" /\ StoreEvidence(new)
    BY <2>1, <2>2, <2>4 DEF StoreEvidence, Evented
  <2>5. CASE Evented(q) /\ StoreEvents(new)
    BY <2>1, <2>5 DEF StoreEvents
  <2>. QED  BY <2>3, <2>4, <2>5 DEF Commit, Evented, new
<1>8. Stored' \subseteq Stored \cup new  BY <1>7 DEF Stored
<1>9. \A x \in new : req'[x.request].answer = "accepted" /\ x.request \in Requests
                    /\ x.n \in req'[x.request].kept /\ x = Row(x.request, x.n)'
  BY <1>2, <1>4, <1>5, <1>6
<1>10. Evented(q) /\ answer = "accepted" => \A n \in q.kept : Row(r, n) \in rows'
  BY <1>7
<1> HIDE DEF new, answer, done
<1>11. \A x \in rows' : /\ x.request \in Requests /\ x.n \in req'[x.request].kept
                        /\ x = Row(x.request, x.n)'
                        /\ req'[x.request].answer = "accepted" /\ Evented(req'[x.request])
  <2>1. ASSUME NEW x \in rows
        PROVE  /\ x.request \in Requests /\ x.n \in req'[x.request].kept
               /\ x = Row(x.request, x.n)' /\ req'[x.request].answer = "accepted"
               /\ Evented(req'[x.request])
    <3>1. /\ x.request \in Requests /\ x.n \in req[x.request].kept
          /\ x = Row(x.request, x.n) /\ req[x.request].answer = "accepted"
          /\ Evented(req[x.request])
      BY DEF IngestInv
    <3>. QED  BY <1>1, <1>2, <1>4, <3>1 DEF Running
  <2>2. Evented(q) => \A x \in new : Evented(req'[x.request])  BY <1>2, <1>5 DEF Evented, new
  <2>. QED  BY <1>7, <1>9, <2>1, <2>2
<1>12. \A s \in Requests : (req'[s].answer = "accepted" /\ Evented(req'[s])) =>
                              \A n \in req'[s].kept : Row(s, n)' \in rows'
  <2>1. ASSUME NEW s \in Requests, s # r, req'[s].answer = "accepted", Evented(req'[s])
        PROVE  \A n \in req'[s].kept : Row(s, n)' \in rows'
    BY <1>2, <1>4, <1>7, <2>1 DEF IngestInv
  <2>2. ASSUME req'[r].answer = "accepted", Evented(req'[r])
        PROVE  \A n \in req'[r].kept : Row(r, n)' \in rows'
    BY <1>2, <1>4, <1>10, <2>2 DEF Evented
  <2>. QED  BY <2>1, <2>2
<1>13. \A x \in siteRows' \cup evidence' : /\ x.request \in Requests
                                           /\ req'[x.request].answer = "accepted"
  <2>1. \A x \in siteRows \cup evidence : /\ x.request \in Requests
                                           /\ req'[x.request].answer = "accepted"
    BY <1>1, <1>2 DEF IngestInv, Running
  <2>. QED  BY <1>7, <1>9, <2>1
<1>14. \A s \in Requests : Proper(req'[s], owner', denied')
  BY <1>1, <1>2 DEF IngestInv
<1>15. owner' \in Orgs \cup {Free} /\ denied' \in [Orgs -> BOOLEAN]
  BY <1>1 DEF IngestInv
<1>16. IngestInv'
  BY <1>2, <1>7, <1>11, <1>12, <1>13, <1>14, <1>15 DEF IngestInv
<1>17. new \subseteq {Row(r, n) : n \in q.kept}  BY <1>3 DEF new
<1>. QED  BY <1>2, <1>7, <1>8, <1>16, <1>17

LEMMA RegistersKeeps == IngestInv /\ RegisterService => IngestInv' /\ Asked' = Asked
<1> SUFFICES ASSUME IngestInv, RegisterService PROVE IngestInv' /\ Asked' = Asked  OBVIOUS
<1>1. /\ owner = Free /\ owner' \in Orgs
      /\ UNCHANGED <<denied, req, rows, siteRows, evidence>>
  BY DEF RegisterService
<1>2. \A r \in Requests : Proper(req[r], owner', denied)
  BY <1>1 DEF IngestInv, Proper, Checked
<1>3. \A r, n : Row(r, n)' = Row(r, n)  BY <1>1 DEF Row
<1>4. IngestInv'  BY <1>1, <1>2, <1>3 DEF IngestInv
<1>. QED  BY <1>1, <1>4 DEF Asked

LEMMA PutKeeps ==
    ASSUME IngestInv, NEW o \in Orgs, PutSampling(o) PROVE IngestInv' /\ Asked' = Asked
<1>1. /\ denied' = [denied EXCEPT ![o] = ~ @]
      /\ UNCHANGED <<owner, rows, siteRows, evidence>>
      /\ req' = [r \in Requests |-> IF Running(r) /\ req[r].org = o
                                    THEN [req[r] EXCEPT !.touched = TRUE] ELSE req[r]]
  BY DEF PutSampling
<1>2. denied' \in [Orgs -> BOOLEAN] /\ \A x \in Orgs : x # o => denied'[x] = denied[x]
  BY <1>1 DEF IngestInv
<1>3. ASSUME NEW r \in Requests
      PROVE  /\ req'[r] \in Records /\ Proper(req'[r], owner, denied')
             /\ req'[r].items = req[r].items /\ req'[r].kind = req[r].kind
             /\ req'[r].kept = req[r].kept /\ req'[r].answer = req[r].answer
  <2> DEFINE q == req[r]  p == [q EXCEPT !.touched = TRUE]
  <2>1. q \in Records /\ Proper(q, owner, denied)  BY DEF IngestInv
  <2>2. CASE Running(r) /\ q.org = o
    <3>1. req'[r] = p  BY <1>1, <2>2
    <3>2. /\ p \in Records /\ p.items = q.items /\ p.kind = q.kind /\ p.org = q.org
          /\ p.kept = q.kept /\ p.answer = q.answer /\ p.checked = q.checked
          /\ p.sampled = q.sampled /\ p.unseen = q.unseen /\ p.touched
      BY <2>1 DEF Records
    <3> HIDE DEF p
    <3>3. Proper(p, owner, denied')
      BY <2>1, <3>2 DEF Proper, Measured, Checked, Filtered, Excused
    <3>. QED  BY <3>1, <3>2, <3>3
  <2>3. CASE ~ (Running(r) /\ q.org = o)
    <3>1. req'[r] = q  BY <1>1, <2>3
    <3>2. q.answer = "none" => q.org # o /\ q.org \in Orgs
      BY <2>1, <2>3 DEF Running, Records
    <3>3. Filtered(q, denied')
      BY <1>2, <2>1, <3>2 DEF Proper, Filtered
    <3>. QED  BY <2>1, <3>1, <3>3 DEF Proper
  <2>. QED  BY <2>2, <2>3
<1>4. req' \in [Requests -> Records]  BY <1>1, <1>3
<1>5. \A r \in Requests : \A n : Row(r, n)' = Row(r, n)  BY <1>3 DEF Row
<1>6. IngestInv'
  <2>1. \A x \in rows' : /\ x.request \in Requests /\ x.n \in req'[x.request].kept
                         /\ x = Row(x.request, x.n)'
                         /\ req'[x.request].answer = "accepted" /\ Evented(req'[x.request])
    BY <1>1, <1>3, <1>5 DEF IngestInv, Evented
  <2>2. \A r \in Requests : (req'[r].answer = "accepted" /\ Evented(req'[r])) =>
                               \A n \in req'[r].kept : Row(r, n)' \in rows'
    BY <1>1, <1>3, <1>5 DEF IngestInv, Evented
  <2>. QED  BY <1>1, <1>2, <1>3, <1>4, <2>1, <2>2, ZenonT(40) DEF IngestInv, UniqueItems
<1>7. Asked' = Asked  BY <1>3 DEF Asked
<1>. QED  BY <1>6, <1>7

\* What may arrive: items that are no events, or an SDK's.
Bringable(kind, items) ==
    \A n \in DOMAIN items : items[n].event \in Events =>
       kind = "usage" /\ items[n].field = EventItem(items[n].event).field

LEMMA ArriveKeeps ==
    ASSUME IngestInv, NEW r \in Requests, NEW kind \in Kinds, NEW org \in Orgs,
           NEW items \in Seq(AnItem), Bringable(kind, items), Arrive(r, kind, org, items),
           UNCHANGED <<owner, denied, rows, siteRows, evidence>>
    PROVE  IngestInv' /\ Asked' = [Asked EXCEPT ![r] = items] /\ Asked[r] = <<>>
<1> DEFINE p == Request(kind, org, items)
<1>1. /\ req' = [req EXCEPT ![r] = p] /\ req[r].answer = "absent"
      /\ req \in [Requests -> Records]
  BY DEF Arrive, Arrived, IngestInv
<1>2. Len(items) \in Nat /\ DOMAIN items = 1 .. Len(items)  OBVIOUS
<1>3. /\ p.items = items /\ p.kind = kind /\ p.org = org /\ p.kept = DOMAIN items
      /\ p.answer = "none" /\ p.checked = 0 /\ p.sampled = 0 /\ p.unseen = {}
      /\ p \in Records
  BY <1>2 DEF Request, Records
<1> HIDE DEF p
<1>4. Proper(p, owner, denied)
  BY <1>2, <1>3 DEF Proper, Measured, Checked, Filtered, Excused, Bringable
<1>5. IngestInv'  BY <1>1, <1>3, <1>4, RequestMoves
<1>6. Asked' = [Asked EXCEPT ![r] = items]  BY <1>1, <1>3 DEF Asked
<1>7. Asked[r] = <<>>  BY <1>1, RequestIs DEF Asked, Measured
<1>. QED  BY <1>5, <1>6, <1>7

-----------------------------------------------------------------------------
(* The rate limiter.                                                       *)

USE LimiterAssumption, NoneAssumption

LEMMA NoneIsNoBucket == None \notin Buckets
BY DEF Buckets

LEMMA KeyIsAddress == \A c \in Clients : ClientKey(c) \in Addresses
BY DEF ClientKey, Addresses

\* What the actions write is a bucket.
LEMMA WrittenBuckets ==
    /\ Renewed \in Buckets
    /\ \A b \in Buckets : b.count < MaxPerMinute => [b EXCEPT !.count = @ + 1] \in Buckets
    /\ \A b \in Buckets : b.age # Stale => [b EXCEPT !.age = @ + 1] \in Buckets
BY DEF Buckets, Renewed, Stale

\* The two ways in which a request is let in.
LEMMA AdmitWrites ==
    ASSUME NEW c \in Clients, Admit(c)
    PROVE  LET k == ClientKey(c) IN
           /\ bucket[k] = None \/ bucket[k].age >= Window =>
                bucket' = [bucket EXCEPT ![k] = Renewed]
           /\ ~ (bucket[k] = None \/ bucket[k].age >= Window) =>
                bucket' = [bucket EXCEPT ![k] = [bucket[k] EXCEPT !.count = bucket[k].count + 1]]
<1> DEFINE k == ClientKey(c)
<1>1. bucket' = [bucket EXCEPT ![k] = Counted(bucket[k])]  BY DEF Admit
<1>2. bucket[k] = None \/ bucket[k].age >= Window => Counted(bucket[k]) = Renewed
  BY DEF Counted
<1>3. ~ (bucket[k] = None \/ bucket[k].age >= Window) =>
         Counted(bucket[k]) = [bucket[k] EXCEPT !.count = bucket[k].count + 1]
  BY DEF Counted
<1>. QED  BY <1>1, <1>2, <1>3

LEMMA LimiterTypeStep == LimiterTypeOK /\ [LimiterNext]_limiterVars => LimiterTypeOK'
<1> SUFFICES ASSUME LimiterTypeOK, [LimiterNext]_limiterVars PROVE LimiterTypeOK'  OBVIOUS
<1>1. ASSUME NEW c \in Clients, Admit(c) PROVE LimiterTypeOK'
  <2>1. DEFINE k == ClientKey(c)
  <2>2. k \in Addresses /\ bucket[k] \in Buckets \cup {None}
    BY KeyIsAddress DEF LimiterTypeOK
  <2>3. bucket' \in [Addresses -> Buckets \cup {None}]
    <3>1. CASE bucket' = [bucket EXCEPT ![k] = Renewed]
      BY <2>2, <3>1, WrittenBuckets DEF LimiterTypeOK
    <3>2. CASE /\ bucket[k] # None /\ bucket[k].age < Window
               /\ bucket' = [bucket EXCEPT ![k] = [bucket[k] EXCEPT !.count = bucket[k].count + 1]]
      <4>1. bucket[k] \in Buckets /\ bucket[k].count < MaxPerMinute
        BY <1>1, <2>2, <3>2 DEF Admit, Spent, Buckets
      <4>2. [bucket[k] EXCEPT !.count = bucket[k].count + 1] \in Buckets
        BY <4>1, WrittenBuckets
      <4>. QED  BY <2>2, <3>2, <4>2 DEF LimiterTypeOK
    <3>3. bucket[k] = None \/ bucket[k].age >= Window
            \/ (bucket[k] # None /\ bucket[k].age < Window)
      BY <2>2 DEF Buckets, Stale
    <3>. QED  BY <1>1, <2>2, <3>1, <3>2, <3>3, AdmitWrites DEF Buckets, Stale
  <2>. QED  BY <1>1, <2>2, <2>3 DEF Admit, LimiterTypeOK
<1>2. ASSUME NEW c \in Clients, Refuse(c) PROVE LimiterTypeOK'
  BY <1>2, KeyIsAddress DEF Refuse, AfterRefusal, LimiterTypeOK
<1>3. CASE PruneStale
  BY <1>3 DEF PruneStale, LimiterTypeOK
<1>4. CASE Tick
  <2>1. \A k \in Addresses : Aged(bucket[k]) \in Buckets \cup {None}
    BY WrittenBuckets DEF Aged, LimiterTypeOK
  <2>. QED  BY <1>4, <2>1 DEF Tick, LimiterTypeOK
<1>5. CASE UNCHANGED limiterVars
  BY <1>5 DEF limiterVars, LimiterTypeOK
<1>. QED  BY <1>1, <1>2, <1>3, <1>4, <1>5 DEF LimiterNext, CheckAndRecord

(* A bucket counts no further than the limit and ages no further than the   *)
(* point where the code cannot tell ages apart.                             *)
THEOREM LimiterTypesHold == LimiterSpec => []LimiterTypeOK
<1>1. LimiterInit => LimiterTypeOK  BY DEF LimiterInit, LimiterTypeOK
<1>. QED  BY <1>1, LimiterTypeStep, PTL DEF LimiterSpec

-----------------------------------------------------------------------------
\* The window a bucket stands for.
Open == [k \in Addresses |-> OpenWindow(bucket[k])]

LEMMA OpenAt == \A k \in Addresses : Open[k] = OpenWindow(bucket[k])
BY DEF Open

\* A request that is let in opens a window or is counted in the open one.
LEMMA AdmitMaps ==
    ASSUME LimiterTypeOK, NEW c \in Clients, Admit(c)
    PROVE  Abstract!Admit(ClientKey(c))
<1> DEFINE k == ClientKey(c)
<1>1. k \in Addresses /\ bucket[k] \in Buckets \cup {None}
  BY KeyIsAddress DEF LimiterTypeOK
<1>2. verdict' = [verdict EXCEPT ![k] = "admitted"]  BY DEF Admit
<1>3. CASE OpenWindow(bucket[k]) = None
  <2>1. bucket' = [bucket EXCEPT ![k] = Renewed]
    <3>1. bucket[k] = None \/ bucket[k].age >= Window  BY <1>3 DEF OpenWindow
    <3>. QED  BY <3>1, AdmitWrites
  <2>2. OpenWindow(Renewed) = [count |-> 1, age |-> 0]  BY DEF OpenWindow, Renewed
  <2>3. Open' = [Open EXCEPT ![k] = [count |-> 1, age |-> 0]]
    BY <1>1, <2>1, <2>2 DEF Open, LimiterTypeOK
  <2>. QED  BY <1>1, <1>2, <1>3, <2>3 DEF Abstract!Admit, Open
<1>4. CASE OpenWindow(bucket[k]) # None
  <2> DEFINE b == [bucket[k] EXCEPT !.count = bucket[k].count + 1]
  <2>1. bucket[k] \in Buckets /\ bucket[k].age < Window /\ OpenWindow(bucket[k]) = bucket[k]
    BY <1>1, <1>4 DEF OpenWindow, Buckets, Stale
  <2>2. bucket[k].count < MaxPerMinute
    BY <1>4, <2>1 DEF Admit, Spent, OpenWindow, Buckets
  <2>3. bucket' = [bucket EXCEPT ![k] = b]
    <3>1. ~ (bucket[k] = None \/ bucket[k].age >= Window)
      BY <2>1, NoneIsNoBucket DEF Buckets, Stale
    <3>. QED  BY <3>1, AdmitWrites
  <2>4. b \in Buckets /\ b.age = bucket[k].age  BY <2>1, <2>2, WrittenBuckets DEF Buckets
  <2>5. OpenWindow(b) = b  BY <2>1, <2>4, NoneIsNoBucket DEF OpenWindow, Buckets
  <2>6. Open' = [Open EXCEPT ![k] = b]
    BY <1>1, <2>3, <2>5 DEF Open, LimiterTypeOK
  <2>7. Open[k] = bucket[k]  BY <1>1, <2>1 DEF Open
  <2>. QED  BY <1>2, <1>4, <2>1, <2>2, <2>6, <2>7 DEF Abstract!Admit, Open
<1>. QED  BY <1>3, <1>4

\* A request that is refused changes no window, and met one that is full.
LEMMA RefuseMaps ==
    ASSUME LimiterTypeOK, NEW c \in Clients, Refuse(c)
    PROVE  Abstract!Refuse(ClientKey(c))
<1> DEFINE k == ClientKey(c)
<1>1. k \in Addresses /\ Spent(k)  BY KeyIsAddress DEF Refuse
<1>2. bucket[k] \in Buckets  BY <1>1 DEF LimiterTypeOK, Spent
<1>3. Open[k] = bucket[k]  BY <1>1, <1>2 DEF Open, OpenWindow, Spent, Buckets, Stale
<1>4. Open' = Open /\ verdict' = [verdict EXCEPT ![k] = "refused"]
  BY DEF Refuse, AfterRefusal, Open
<1>. QED  BY <1>1, <1>3, <1>4 DEF Abstract!Refuse, Open, Spent

\* Pruning takes only what has no open window.
LEMMA PruneMaps == LimiterTypeOK /\ PruneStale => UNCHANGED <<Open, verdict>>
<1> SUFFICES ASSUME LimiterTypeOK, PruneStale PROVE UNCHANGED <<Open, verdict>>  OBVIOUS
<1>1. ASSUME NEW k \in Addresses PROVE OpenWindow(bucket'[k]) = OpenWindow(bucket[k])
  <2>1. bucket'[k] = IF Kept(bucket[k]) THEN bucket[k] ELSE None  BY DEF PruneStale
  <2>2. CASE bucket[k] = None  BY <2>1, <2>2
  <2>3. CASE bucket[k] \in Buckets /\ ~ Kept(bucket[k])
    BY <2>1, <2>3, NoneIsNoBucket DEF Kept, Stale, OpenWindow, Buckets
  <2>4. CASE Kept(bucket[k])  BY <2>1, <2>4
  <2>. QED  BY <2>2, <2>3, <2>4 DEF LimiterTypeOK
<1>2. Open' = Open  BY <1>1 DEF Open
<1>. QED  BY <1>2 DEF PruneStale

\* A tick closes the windows that have lasted.
LEMMA TickMaps ==
    ASSUME LimiterTypeOK, Tick
    PROVE  Abstract!Tick
<1>1. ASSUME NEW k \in Addresses
      PROVE  OpenWindow(bucket'[k]) = Abstract!Older(OpenWindow(bucket[k]))
  <2>1. bucket'[k] = Aged(bucket[k])  BY DEF Tick
  <2>2. CASE bucket[k] = None
    BY <2>1, <2>2 DEF Aged, OpenWindow, Abstract!Older
  <2>3. CASE bucket[k] \in Buckets /\ bucket[k].age >= Window
    <3>1. OpenWindow(bucket[k]) = None  BY <2>3 DEF OpenWindow
    <3>2. Aged(bucket[k]) \in Buckets /\ Aged(bucket[k]).age >= Window
      BY <2>3, WrittenBuckets DEF Aged, Buckets, Stale
    <3>. QED  BY <2>1, <3>1, <3>2 DEF OpenWindow, Abstract!Older
  <2>4. CASE bucket[k] \in Buckets /\ bucket[k].age < Window
    <3>1. bucket[k].age # Stale /\ bucket[k] # None  BY <2>4, NoneIsNoBucket DEF Stale, Buckets
    <3>2. /\ Aged(bucket[k]) = [bucket[k] EXCEPT !.age = bucket[k].age + 1]
          /\ Aged(bucket[k]) \in Buckets
          /\ Aged(bucket[k]).age = bucket[k].age + 1
      BY <2>4, <3>1, WrittenBuckets DEF Aged, Buckets
    <3>3. OpenWindow(bucket[k]) = bucket[k]  BY <2>4, <3>1 DEF OpenWindow, Buckets
    <3>. QED
      BY <2>1, <2>4, <3>1, <3>2, <3>3, NoneIsNoBucket DEF OpenWindow, Abstract!Older, Buckets
  <2>. QED  BY <2>2, <2>3, <2>4 DEF LimiterTypeOK, Buckets, Stale
<1>2. Open' = [k \in Addresses |-> Abstract!Older(Open[k])]  BY <1>1 DEF Open
<1>. QED  BY <1>2 DEF Abstract!Tick, Open, Tick

(* The limiter with its pruning, its addresses and its ages implements the  *)
(* fixed window: no request is answered otherwise because of pruning, of    *)
(* requests that were refused, or of requests under other keys.             *)
THEOREM LimiterImplementsFixedWindow == LimiterSpec => ImplementsFixedWindow
<1>1. LimiterInit => Abstract!Init
  <2>1. OpenWindow(None) = None  BY DEF OpenWindow
  <2>. QED  BY <2>1 DEF LimiterInit, Abstract!Init
<1>2. ASSUME LimiterTypeOK, [LimiterNext]_limiterVars
      PROVE  [Abstract!Next]_<<Open, verdict>>
  <2>1. ASSUME NEW c \in Clients, Admit(c) PROVE Abstract!Next
    BY <1>2, <2>1, AdmitMaps, KeyIsAddress DEF Abstract!Next
  <2>2. ASSUME NEW c \in Clients, Refuse(c) PROVE Abstract!Next
    BY <1>2, <2>2, RefuseMaps, KeyIsAddress DEF Abstract!Next
  <2>3. Tick => Abstract!Next  BY <1>2, TickMaps DEF Abstract!Next
  <2>4. UNCHANGED limiterVars => UNCHANGED <<Open, verdict>>  BY DEF limiterVars, Open
  <2>. QED
    BY <1>2, <2>1, <2>2, <2>3, <2>4, PruneMaps DEF LimiterNext, CheckAndRecord
<1>3. ASSUME LimiterTypeOK, [LimiterNext]_limiterVars
      PROVE  [Abstract!Next]_<<[k \in Addresses |-> OpenWindow(bucket[k])], verdict>>
  BY <1>2, <1>3 DEF Open
<1>. QED
  BY <1>1, <1>3, LimiterTypesHold, PTL DEF LimiterSpec, ImplementsFixedWindow, Abstract!Spec

-----------------------------------------------------------------------------
(* The whole pipeline.                                                     *)

\* A batch that is gone leaves its events where they go next.
LEMMA FlightEnds ==
    ASSUME SdkInv, NEW b \in flying
    PROVE  /\ b \in Seq(Events) /\ IsInjective(b)
           /\ \A e : InFlight(e, flying) <=> InFlight(e, flying \ {b}) \/ e \in ToSet(b)
           /\ \A e : e \in ToSet(b) => ~ InFlight(e, flying \ {b})
           /\ OnceFlying(flying \ {b})
<1>1. b \in Seq(Events) /\ OnceFlying(flying)  BY DEF SdkInv, Containers
<1>2. \A e : InFlight(e, flying) <=> InFlight(e, flying \ {b}) \/ e \in ToSet(b)
  BY DEF InFlight
<1>3. \A e : e \in ToSet(b) => ~ InFlight(e, flying \ {b})
  BY <1>1 DEF InFlight, OnceFlying
<1>. QED  BY <1>1, <1>2, <1>3 DEF OnceFlying

LEMMA LandLoses ==
    ASSUME SdkInv, NEW b, NEW reason \in {"network", "limited"}, Landed(b, Lose(b, reason)),
           Asked' = Asked
    PROVE  SdkInv'
<1>1. b \in flying  BY DEF Landed
<1>2. /\ flying' = flying \ {b} /\ lost' = lost \cup Lose(b, reason)
      /\ UNCHANGED <<sdk, pushed, queue, handed, worker, timer, closing, late>>
  BY DEF Landed
<1>3. /\ b \in Seq(Events)
      /\ \A e : InFlight(e, flying) <=> InFlight(e, flying') \/ e \in ToSet(b)
      /\ \A e : e \in ToSet(b) => ~ InFlight(e, flying')
      /\ OnceFlying(flying')
  BY <1>1, <1>2, FlightEnds
<1>4. \A e : IsLost(e, lost') <=> IsLost(e, lost) \/ e \in ToSet(b)
  <2>1. \A e : IsLost(e, lost') <=> IsLost(e, lost) \/ IsLost(e, Lose(b, reason))
    BY <1>2 DEF IsLost
  <2>. QED  BY <2>1, LosesIts
<1>5. \A e \in ToSet(b) : e \in Events  BY <1>3, InSequence
<1>6. Spread(queue, handed, flying', lost', Asked, pushed)
  BY <1>3, <1>4 DEF SdkInv, Containers, Spread
<1>7. OnceLost(lost')
  <2>1. \A x \in lost, y \in Lose(b, reason) : x.event # y.event
    <3>1. ASSUME NEW x \in lost, NEW y \in Lose(b, reason), x.event = y.event PROVE FALSE
      <4>1. IsLost(x.event, lost)  BY DEF IsLost
      <4>2. x.event \in ToSet(b)
        <5>1. IsLost(y.event, Lose(b, reason))  BY DEF IsLost
        <5>. QED  BY <3>1, <5>1, LosesIts
      <4>3. InFlight(x.event, flying)  BY <1>1, <4>2 DEF InFlight
      <4>. QED  BY <1>5, <4>1, <4>2, <4>3 DEF SdkInv, Containers, Spread
    <3>. QED  BY <3>1
  <2>2. OnceLost(Lose(b, reason)) /\ OnceLost(lost)  BY LosesIts DEF SdkInv
  <2>. QED  BY <1>2, <2>1, <2>2 DEF OnceLost
<1>8. lost' \subseteq Losses
  BY <1>2, <1>3, LosesIts DEF SdkInv
<1>. QED  BY <1>2, <1>3, <1>6, <1>7, <1>8 DEF SdkInv, Containers

LEMMA LandDelivers ==
    ASSUME SdkInv, NEW b, Landed(b, {}), NEW r \in Requests, NEW items,
           items = [n \in DOMAIN b |-> EventItem(b[n])],
           Asked' = [Asked EXCEPT ![r] = items], Asked[r] = <<>>
    PROVE  SdkInv'
<1>1. b \in flying  BY DEF Landed
<1>2. /\ flying' = flying \ {b} /\ lost' = lost
      /\ UNCHANGED <<sdk, pushed, queue, handed, worker, timer, closing, late>>
  BY DEF Landed
<1>3. /\ b \in Seq(Events) /\ IsInjective(b)
      /\ \A e : InFlight(e, flying) <=> InFlight(e, flying') \/ e \in ToSet(b)
      /\ \A e : e \in ToSet(b) => ~ InFlight(e, flying')
      /\ OnceFlying(flying')
  BY <1>1, <1>2, FlightEnds
<1>4. /\ Asked'[r] = items /\ \A s \in Requests \ {r} : Asked'[s] = Asked[s]
      /\ DOMAIN items = DOMAIN b /\ \A n \in DOMAIN b : items[n].event = b[n]
      /\ DOMAIN Asked[r] = {}
  <2>1. Asked = [s \in Requests |-> Asked[s]]  BY DEF Asked
  <2>. QED  BY <2>1 DEF EventItem
<1>5. \A e : InRequest(e, Asked') <=> InRequest(e, Asked) \/ e \in ToSet(b)
  <2>1. \A e : e \in ToSet(b) <=> \E n \in DOMAIN Asked'[r] : Asked'[r][n].event = e
    BY <1>4, InSequence
  <2>2. \A e : InRequest(e, Asked) <=>
                 \E s \in Requests \ {r} : \E n \in DOMAIN Asked[s] : Asked[s][n].event = e
    BY <1>4 DEF InRequest
  <2>3. \A e : InRequest(e, Asked') <=>
                 \/ \E n \in DOMAIN Asked'[r] : Asked'[r][n].event = e
                 \/ \E s \in Requests \ {r} : \E n \in DOMAIN Asked'[s] : Asked'[s][n].event = e
    BY DEF InRequest
  <2>4. \A e : (\E s \in Requests \ {r} : \E n \in DOMAIN Asked'[s] : Asked'[s][n].event = e) <=>
               \E s \in Requests \ {r} : \E n \in DOMAIN Asked[s] : Asked[s][n].event = e
    BY <1>4
  <2>. QED  BY <2>1, <2>2, <2>3, <2>4
<1>6. \A e \in ToSet(b) : e \in Events /\ InFlight(e, flying)
  BY <1>1, <1>3, InSequence DEF InFlight
<1>7. Spread(queue, handed, flying', lost, Asked', pushed)
  BY <1>3, <1>5 DEF SdkInv, Containers, Spread
<1>8. OnceAsked(Asked')
  <2>1. ASSUME NEW s \in Requests \ {r}, NEW m \in DOMAIN Asked'[s], NEW n \in DOMAIN b,
               Asked'[s][m].event = b[n]
        PROVE  FALSE
    <3>1. InRequest(b[n], Asked)  BY <1>4, <2>1 DEF InRequest
    <3>2. b[n] \in ToSet(b)  BY InSequence
    <3>. QED  BY <1>6, <3>1, <3>2 DEF SdkInv, Containers, Spread
  <2>2. \A m, n \in DOMAIN b : b[m] = b[n] => m = n  BY <1>3 DEF IsInjective
  <2>3. OnceAsked(Asked)  BY DEF SdkInv
  <2>. QED  BY <1>4, <2>1, <2>2, <2>3 DEF OnceAsked
<1>. QED  BY <1>2, <1>3, <1>7, <1>8 DEF SdkInv, Containers

LEMMA PostsAreNoEvents ==
    ASSUME SdkInv, UNCHANGED batcherVars, NEW r \in Requests, NEW items,
           \A n \in DOMAIN items : items[n].event \notin Events,
           Asked' = [Asked EXCEPT ![r] = items], Asked[r] = <<>>
    PROVE  SdkInv'
<1>1. /\ Asked'[r] = items /\ \A s \in Requests \ {r} : Asked'[s] = Asked[s]
      /\ DOMAIN Asked[r] = {}
  <2>1. Asked = [s \in Requests |-> Asked[s]]  BY DEF Asked
  <2>. QED  BY <2>1
<1>2. \A e \in Events : InRequest(e, Asked') <=> InRequest(e, Asked)
  BY <1>1 DEF InRequest
<1>3. OnceAsked(Asked')
  <2>1. OnceAsked(Asked)  BY DEF SdkInv
  <2>. QED  BY <1>1, <2>1 DEF OnceAsked
<1>4. Spread(queue, handed, flying, lost, Asked', pushed)
  BY <1>2 DEF SdkInv, Containers, Spread
<1>. QED  BY <1>3, <1>4 DEF SdkInv, Containers, batcherVars

LEMMA SdkStutters == SdkInv /\ UNCHANGED batcherVars /\ Asked' = Asked => SdkInv'
BY DEF SdkInv, Containers, batcherVars

LEMMA HandlerKeeps ==
    ASSUME IngestInv, NEW r \in Requests, Handler(r) \/ Fails(r)
    PROVE  IngestInv' /\ Asked' = Asked
BY CheckKeeps, PassKeeps, SampleKeeps, CommitKeeps, RefusalKeeps DEF Handler, Fails

LEMMA IngestStutters == IngestInv /\ UNCHANGED ingestVars => IngestInv' /\ Asked' = Asked
<1> SUFFICES ASSUME IngestInv, UNCHANGED ingestVars PROVE IngestInv' /\ Asked' = Asked  OBVIOUS
<1>1. UNCHANGED <<owner, denied, req, rows, siteRows, evidence>>  BY DEF ingestVars
<1>2. \A r, n : Row(r, n)' = Row(r, n)  BY <1>1 DEF Row
<1>. QED  BY <1>1, <1>2 DEF IngestInv, Asked

\* The inductive invariant of the pipeline.
PipelineInv == area \in Areas /\ LimiterTypeOK /\ SdkInv /\ IngestInv /\ ScanInv

LEMMA SdkItems ==
    ASSUME SdkInv, NEW b \in flying
    PROVE  LET items == [n \in DOMAIN b |-> EventItem(b[n])] IN
           items \in Seq(AnItem) /\ Bringable("usage", items)
<1>1. b \in Seq(Events)  BY DEF SdkInv, Containers
<1>2. \A e \in Events : EventItem(e) \in AnItem /\ EventItem(e).event = e
  BY PipelineAssumption DEF EventItem, AnItem, Orgs, Events
<1>3. DOMAIN b = 1 .. Len(b) /\ Len(b) \in Nat /\ \A n \in DOMAIN b : b[n] \in Events  BY <1>1
<1>4. [n \in DOMAIN b |-> EventItem(b[n])] \in Seq(AnItem)  BY <1>2, <1>3
<1>. QED  BY <1>2, <1>3, <1>4 DEF Bringable

LEMMA PostItems ==
    ASSUME NEW items \in Batches, NEW kind
    PROVE  /\ items \in Seq(AnItem) /\ Bringable(kind, items)
           /\ \A n \in DOMAIN items : items[n].event \notin Events
<1> DEFINE T == [consumer : Orgs \cup {Free}, field : BOOLEAN, event : {0}]
<1>1. items \in Seq(T)  BY PipelineAssumption
<1>2. \A x \in T : x.event = 0 /\ x \in AnItem  BY DEF AnItem
<1> HIDE DEF T
<1>3. \A n \in DOMAIN items : items[n].event = 0 /\ items[n] \in AnItem  BY <1>1, <1>2
<1>4. 0 \notin Events  BY BatcherAssumption DEF Events
<1>5. DOMAIN items = 1 .. Len(items) /\ Len(items) \in Nat /\ items = [n \in 1 .. Len(items) |-> items[n]]
  BY <1>1
<1>6. items \in Seq(AnItem)  BY <1>3, <1>5
<1>. QED  BY <1>3, <1>4, <1>6 DEF Bringable

\* Every step of the pipeline is one of the limiter or leaves it alone.
LEMMA LimiterPart == [Next]_vars => [LimiterNext]_limiterVars
BY PipelineAssumption
   DEF Next, vars, SdkNext, Deliver, NetworkLoses, ClockTicks, LimiterNext, CheckAndRecord

LEMMA SdkPart == PipelineInv /\ SdkNext => SdkInv' /\ IngestInv'
<1> SUFFICES ASSUME PipelineInv, SdkNext PROVE SdkInv' /\ IngestInv'  OBVIOUS
<1>0. SdkInv /\ IngestInv  BY DEF PipelineInv
<1>1. CASE BatcherNext /\ UNCHANGED <<limiterVars, ingestVars>>
  BY <1>0, <1>1, BatcherStep, IngestStutters
<1>2. ASSUME NEW b \in flying, Deliver(b) PROVE SdkInv' /\ IngestInv'
  <2> DEFINE items == [n \in DOMAIN b |-> EventItem(b[n])]
  <2>1. CASE \E r \in Requests : Arrive(r, "usage", SdkOrg, items)
             /\ Landed(b, {}) /\ UNCHANGED <<owner, denied, rows, siteRows, evidence>>
    <3>1. PICK r \in Requests : Arrive(r, "usage", SdkOrg, items)  BY <2>1
    <3>2. items \in Seq(AnItem) /\ Bringable("usage", items)  BY <1>0, SdkItems
    <3>3. SdkOrg \in Orgs /\ "usage" \in Kinds  BY PipelineAssumption DEF Orgs, Kinds
    <3>4. IngestInv' /\ Asked' = [Asked EXCEPT ![r] = items] /\ Asked[r] = <<>>
      <4> HIDE DEF items
      <4>. QED  BY <1>0, <2>1, <3>1, <3>2, <3>3, ArriveKeeps
    <3>. QED  BY <1>0, <2>1, <3>4, LandDelivers
  <2>2. CASE Landed(b, Lose(b, "limited")) /\ UNCHANGED ingestVars
    BY <1>0, <2>2, LandLoses, IngestStutters
  <2>. QED  BY <1>2, <2>1, <2>2 DEF Deliver
<1>3. ASSUME NEW b \in flying, NetworkLoses(b) PROVE SdkInv' /\ IngestInv'
  BY <1>0, <1>3, LandLoses, IngestStutters DEF NetworkLoses
<1>4. CASE ClockTicks
  BY <1>0, <1>4, SdkStutters, IngestStutters DEF ClockTicks
<1>5. ASSUME NEW r \in Requests, Handler(r) \/ Fails(r), UNCHANGED batcherVars
      PROVE  SdkInv' /\ IngestInv'
  BY <1>0, <1>5, HandlerKeeps, SdkStutters
<1>. QED  BY <1>1, <1>2, <1>3, <1>4, <1>5 DEF SdkNext

LEMMA PostsPart == PipelineInv /\ PostsNext /\ UNCHANGED batcherVars => SdkInv' /\ IngestInv'
<1> SUFFICES ASSUME PipelineInv, PostsNext, UNCHANGED batcherVars PROVE SdkInv' /\ IngestInv'
  OBVIOUS
<1>0. SdkInv /\ IngestInv  BY DEF PipelineInv
<1>1. ASSUME NEW r \in 1 .. MaxPosts, NEW kind \in Kinds, NEW org \in Orgs, NEW items \in Batches,
             Post(r, kind, org, items)
      PROVE  SdkInv' /\ IngestInv'
  <2>1. r \in Requests  BY PipelineAssumption, IngestionAssumption DEF Requests
  <2>2. /\ items \in Seq(AnItem) /\ Bringable(kind, items)
        /\ \A n \in DOMAIN items : items[n].event \notin Events
    BY PostItems
  <2>3. IngestInv' /\ Asked' = [Asked EXCEPT ![r] = items] /\ Asked[r] = <<>>
    BY <1>0, <1>1, <2>1, <2>2, ArriveKeeps DEF Post
  <2>. QED  BY <1>0, <2>1, <2>2, <2>3, PostsAreNoEvents
<1>2. ASSUME NEW r \in Requests, Handler(r) \/ Fails(r) PROVE SdkInv' /\ IngestInv'
  BY <1>0, <1>2, HandlerKeeps, SdkStutters
<1>3. CASE RegisterService
  BY <1>0, <1>3, RegistersKeeps, SdkStutters
<1>4. ASSUME NEW o \in Sampled, PutSampling(o) PROVE SdkInv' /\ IngestInv'
  BY <1>0, <1>4, PutKeeps, SdkStutters, PipelineAssumption
<1>. QED  BY <1>1, <1>2, <1>3, <1>4 DEF PostsNext

LEMMA PipelineStep == PipelineInv /\ [Next]_vars => PipelineInv'
<1> SUFFICES ASSUME PipelineInv, [Next]_vars PROVE PipelineInv'  OBVIOUS
<1>1. area' = area  BY DEF Next, vars
<1>2. LimiterTypeOK'  BY LimiterPart, LimiterTypeStep DEF PipelineInv
<1>3. ScanInv'
  BY ScanStep DEF PipelineInv, Next, vars
<1>4. SdkInv' /\ IngestInv'
  <2>1. SdkInv /\ IngestInv  BY DEF PipelineInv
  <2>2. UNCHANGED <<batcherVars, ingestVars>> => SdkInv' /\ IngestInv'
    BY <2>1, SdkStutters, IngestStutters
  <2>. QED  BY <2>2, SdkPart, PostsPart DEF Next, vars
<1>. QED  BY <1>1, <1>2, <1>3, <1>4 DEF PipelineInv

LEMMA PipelineStarts == Init => PipelineInv
<1> SUFFICES ASSUME Init PROVE PipelineInv  OBVIOUS
<1>1. LimiterTypeOK  BY DEF Init, LimiterInit, LimiterTypeOK
<1>2. ScanInv  BY ScanStarts DEF Init
<1>3. IngestInv
  <2>1. /\ NoRequest \in Records /\ NoRequest.answer = "absent" /\ NoRequest.items = <<>>
        /\ NoRequest.kept = {} /\ NoRequest.checked = 0 /\ NoRequest.sampled = 0
        /\ NoRequest.unseen = {}
    <3>1. NoRequest = [kind |-> "usage", org |-> NoOrg, items |-> <<>>, checked |-> 0,
                       sampled |-> 0, kept |-> {}, touched |-> FALSE, unseen |-> {},
                       answer |-> "absent"]
      <4>1. DOMAIN <<>> = {}  OBVIOUS
      <4>2. Request("usage", NoOrg, <<>>) =
              [kind |-> "usage", org |-> NoOrg, items |-> <<>>, checked |-> 0,
               sampled |-> 0, kept |-> {}, touched |-> FALSE, unseen |-> {}, answer |-> "none"]
        BY <4>1 DEF Request
      <4> DEFINE base == [kind |-> "usage", org |-> NoOrg, items |-> <<>>, checked |-> 0,
                          sampled |-> 0, kept |-> {}, touched |-> FALSE, unseen |-> {},
                          answer |-> "none"]
      <4>3. NoRequest = [base EXCEPT !.answer = "absent"]  BY <4>2 DEF NoRequest
      <4>. QED  BY <4>3
    <3>2. <<>> \in Seq(AnItem)  OBVIOUS
    <3>. QED  BY <3>1, <3>2 DEF Records, Kinds, Orgs
  <2>2. Proper(NoRequest, owner, denied)
    BY <2>1 DEF Proper, Measured, Checked, Filtered, Excused
  <2>. QED  BY <2>1, <2>2 DEF Init, IngestInit, IngestInv, UniqueItems
<1>4. SdkInv
  <2>1. \A r \in Requests : Asked[r] = <<>>
    BY DEF Asked, Init, IngestInit, NoRequest, Request
  <2>2. \A e : ~ InRequest(e, Asked)  BY <2>1 DEF InRequest
  <2>3. OnceAsked(Asked)  BY <2>1 DEF OnceAsked
  <2>4. \A e \in Events : ~ (e <= 0)  BY BatcherAssumption DEF Events
  <2>5. Spread(<<>>, <<>>, {}, {}, Asked, 0)
    BY <2>2, <2>4, NothingInEmpty DEF Spread, InBatches, InFlight, IsLost
  <2>6. Containers(<<>>, <<>>, {}, {}, Asked, 0, "open", {})
    BY <2>5, NothingInEmpty DEF Containers, OnceHanded, OnceFlying, Divided
  <2>7. Len(<<>>) < MaxBatch /\ 0 \in 0 .. MaxEvents  BY BatcherAssumption
  <2>8. BatcherInit  BY DEF Init
  <2>. QED  BY <2>3, <2>6, <2>7, <2>8 DEF BatcherInit, SdkInv, OnceLost
<1>. QED  BY <1>1, <1>2, <1>3, <1>4 DEF Init, PipelineInv

(* The four parts of the pipeline keep their invariants, each under the     *)
(* steps of the others too: this one is inductive.                          *)
THEOREM PipelineHolds == Spec => []PipelineInv
BY PipelineStarts, PipelineStep, PTL DEF Spec

(* The limiter keeps its promise at the door of the server as well.        *)
THEOREM DoorIsAFixedWindow == Spec => ImplementsFixedWindow
<1>1. Init => LimiterInit  BY DEF Init
<1>2. Spec => LimiterSpec  BY <1>1, LimiterPart, PTL DEF Spec, LimiterSpec
<1>. QED  BY <1>2, LimiterImplementsFixedWindow

-----------------------------------------------------------------------------
(* The limiter's counts.                                                   *)

\* Of a key's recent requests, those that its bucket has counted.
Within(k) == {n \in Admitted(k) : recent[n].age <= bucket[k].age}

\* The bucket counts what it has admitted, what came before it is of one window,
\* and a bucket that is two windows old has nothing recent.
KeyCounts(k) ==
    IF bucket[k] = None THEN Admitted(k) = {}
    ELSE /\ Cardinality(Within(k)) <= MaxPerMinute
         /\ bucket[k].age < Window => Cardinality(Within(k)) = bucket[k].count
         /\ Cardinality(Admitted(k) \ Within(k)) <= MaxPerMinute
         /\ \A n \in Admitted(k) : recent[n].age + Window > bucket[k].age

RecentTyped ==
    /\ IsFiniteSet(DOMAIN recent)
    /\ recent \in [DOMAIN recent -> [client : Clients, age : 0 .. Window - 1]]

CountsInv == LimiterTypeOK /\ RecentTyped /\ \A k \in Addresses : KeyCounts(k)

LEMMA FreshIsNew == IsFiniteSet(DOMAIN recent) => Fresh \notin DOMAIN recent
<1> SUFFICES ASSUME IsFiniteSet(DOMAIN recent) PROVE Fresh \notin DOMAIN recent  OBVIOUS
<1> DEFINE D == DOMAIN recent  m == Cardinality(D)
<1>1. m \in Nat  BY FS_CardinalityType
<1>2. ASSUME 1 .. m + 1 \subseteq D PROVE FALSE
  <2>1. Cardinality(1 .. m + 1) <= m  BY <1>2, FS_Subset
  <2>2. Cardinality(1 .. m + 1) = m + 1
    <3>1. \A a, b \in Int : Cardinality(a .. b) = IF a > b THEN 0 ELSE b - a + 1
      BY FS_Interval
    <3> HIDE DEF m
    <3>. QED  BY <1>1, <3>1
  <2>. QED  BY <1>1, <2>1, <2>2
<1>3. \E n \in 1 .. m + 1 : n \notin D  BY <1>2
<1>. QED  BY <1>3 DEF Fresh

\* What a step leaves of a key.
LEMMA CountsFinite ==
    RecentTyped => \A k : /\ IsFiniteSet(Admitted(k)) /\ IsFiniteSet(Within(k))
                          /\ Cardinality(Admitted(k)) \in Nat /\ Cardinality(Within(k)) \in Nat
                          /\ IsFiniteSet(Admitted(k) \ Within(k))
                          /\ Cardinality(Admitted(k) \ Within(k)) \in Nat
<1> SUFFICES ASSUME RecentTyped, NEW k
             PROVE  /\ IsFiniteSet(Admitted(k)) /\ IsFiniteSet(Within(k))
                    /\ IsFiniteSet(Admitted(k) \ Within(k))
  BY FS_CardinalityType
<1>1. IsFiniteSet(DOMAIN recent)  BY DEF RecentTyped
<1>2. Admitted(k) \subseteq DOMAIN recent /\ Within(k) \subseteq DOMAIN recent
  BY DEF Admitted, Within
<1>3. Admitted(k) \ Within(k) \subseteq DOMAIN recent  BY <1>2
<1>. QED  BY <1>1, <1>2, <1>3, FS_Subset

LEMMA AdmitCounts == ASSUME CountsInv, NEW c \in Clients, Admit(c) PROVE CountsInv'
<1>k. PICK k \in Addresses : k = ClientKey(c)  BY KeyIsAddress
<1>0. /\ RecentTyped /\ LimiterTypeOK /\ bucket \in [Addresses -> Buckets \cup {None}]
  BY DEF CountsInv, LimiterTypeOK
<1>1. LimiterTypeOK'
  BY <1>0, LimiterTypeStep DEF LimiterNext, CheckAndRecord
<1>2. /\ ~ Spent(k) /\ trust' = trust
      /\ bucket' = [bucket EXCEPT ![k] = Counted(bucket[k])]
      /\ recent' = [n \in DOMAIN recent \cup {Fresh} |->
                      IF n = Fresh THEN [client |-> c, age |-> 0] ELSE recent[n]]
  BY <1>k DEF Admit
<1>3. Fresh \notin DOMAIN recent  BY <1>0, FreshIsNew DEF RecentTyped
<1>4. /\ DOMAIN recent' = DOMAIN recent \cup {Fresh}
      /\ recent'[Fresh] = [client |-> c, age |-> 0]
      /\ \A n \in DOMAIN recent : recent'[n] = recent[n]
  BY <1>2, <1>3
<1>5. RecentTyped'
  <2>1. IsFiniteSet(DOMAIN recent')  BY <1>0, <1>4, FS_AddElement DEF RecentTyped
  <2>2. \A n \in DOMAIN recent' : recent'[n] \in [client : Clients, age : 0 .. Window - 1]
    BY <1>0, <1>4 DEF RecentTyped
  <2>3. recent' = [n \in DOMAIN recent' |-> recent'[n]]  BY <1>2
  <2>. QED  BY <2>1, <2>2, <2>3 DEF RecentTyped
<1>6. \A d : ClientKey(d)' = ClientKey(d)  BY <1>2 DEF ClientKey
<1>7. ASSUME NEW j \in Addresses \ {k} PROVE KeyCounts(j)'
  <2>1. bucket'[j] = bucket[j]  BY <1>0, <1>2
  <2>2. Admitted(j)' = Admitted(j) /\ \A n \in Admitted(j) : recent'[n] = recent[n]
    BY <1>k, <1>3, <1>4, <1>6, <1>7 DEF Admitted
  <2>3. Within(j)' = Within(j)  BY <2>1, <2>2 DEF Within
  <2>4. KeyCounts(j)  BY DEF CountsInv
  <2>. QED  BY <2>1, <2>2, <2>3, <2>4 DEF KeyCounts
<1>8. KeyCounts(k)'
  <2>0. KeyCounts(k)  BY <1>0 DEF CountsInv
  <2>1. bucket'[k] = Counted(bucket[k])  BY <1>0, <1>2
  <2>2. /\ Admitted(k)' = Admitted(k) \cup {Fresh} /\ Fresh \notin Admitted(k)
        /\ \A n \in Admitted(k) : recent'[n] = recent[n]
    BY <1>k, <1>3, <1>4, <1>6 DEF Admitted
  <2>3. \A n \in Admitted(k) : recent[n].age \in 0 .. Window - 1
    BY <1>0 DEF RecentTyped, Admitted
  <2>4. CASE bucket[k] = None \/ bucket[k].age >= Window
    <3>1. bucket'[k] = [count |-> 1, age |-> 0]  BY <2>1, <2>4 DEF Counted, Renewed
    <3>2. bucket'[k] # None /\ bucket'[k].count = 1 /\ bucket'[k].age = 0  BY <3>1
    <3>3. /\ Cardinality(Admitted(k)) <= MaxPerMinute
          /\ \A n \in Admitted(k) : recent[n].age > 0
      <4>1. CASE bucket[k] = None
        <5>1. Admitted(k) = {}  BY <2>0, <4>1 DEF KeyCounts
        <5>. QED  BY <5>1, FS_EmptySet
      <4>2. CASE bucket[k] # None
        <5>1. bucket[k] \in Buckets  BY <1>0, <4>2
        <5>2. bucket[k].age \in Nat /\ bucket[k].age >= Window
          BY <2>4, <4>2, <5>1 DEF Buckets, Stale
        <5>3. Within(k) = Admitted(k)  BY <2>3, <5>2 DEF Within
        <5>. QED  BY <2>0, <2>3, <4>2, <5>2, <5>3 DEF KeyCounts
      <4>. QED  BY <4>1, <4>2
    <3>4. Within(k)' = {Fresh}
      BY <1>4, <2>2, <2>3, <3>2, <3>3 DEF Within
    <3>5. Cardinality({Fresh}) = 1  BY FS_Singleton
    <3>6. Admitted(k)' \ Within(k)' = Admitted(k)  BY <2>2, <3>4
    <3>7. \A n \in Admitted(k)' : recent'[n].age + Window > 0
      BY <1>4, <2>2, <2>3
    <3>. QED  BY <3>2, <3>3, <3>4, <3>5, <3>6, <3>7 DEF KeyCounts
  <2>5. CASE bucket[k] # None /\ bucket[k].age < Window
    <3>1. bucket[k] \in Buckets  BY <1>0, <2>5
    <3>2. /\ bucket[k].count < MaxPerMinute /\ bucket[k].age \in Nat /\ bucket[k].count \in Nat
      BY <1>2, <2>5, <3>1 DEF Spent, Buckets, Stale
    <3>3. bucket'[k] = [bucket[k] EXCEPT !.count = bucket[k].count + 1]
      BY <2>1, <2>5, <3>2 DEF Counted
    <3>4. /\ bucket'[k] # None /\ bucket'[k].age = bucket[k].age
          /\ bucket'[k].count = bucket[k].count + 1
      BY <3>1, <3>3 DEF Buckets
    <3>5. Within(k)' = Within(k) \cup {Fresh} /\ Fresh \notin Within(k)
      BY <1>4, <2>2, <3>2, <3>4 DEF Within
    <3>6. Cardinality(Within(k)') = bucket[k].count + 1
      <4>1. IsFiniteSet(Within(k))  BY <1>0, CountsFinite
      <4>2. Cardinality(Within(k) \cup {Fresh}) = Cardinality(Within(k)) + 1
        BY <3>5, <4>1, FS_AddElement
      <4>. QED  BY <2>0, <2>5, <3>5, <4>2 DEF KeyCounts
    <3>7. Admitted(k)' \ Within(k)' = Admitted(k) \ Within(k)  BY <2>2, <3>5
    <3>8. \A n \in Admitted(k)' : recent'[n].age + Window > bucket'[k].age
      BY <1>4, <2>0, <2>2, <2>3, <2>5, <3>2, <3>4 DEF KeyCounts
    <3>9. /\ Cardinality(Within(k)') <= MaxPerMinute
          /\ Cardinality(Within(k)') = bucket'[k].count
      BY <3>2, <3>4, <3>6
    <3>10. Cardinality(Admitted(k)' \ Within(k)') <= MaxPerMinute
      BY <2>0, <2>5, <3>7 DEF KeyCounts
    <3>. QED  BY <3>4, <3>8, <3>9, <3>10 DEF KeyCounts
  <2>6. bucket[k] = None \/ (bucket[k] # None /\ (bucket[k].age >= Window \/ bucket[k].age < Window))
    BY <1>0 DEF Buckets, Stale
  <2>. QED  BY <2>4, <2>5, <2>6
<1>9. \A j \in Addresses : KeyCounts(j)'
  <2>1. \A j \in Addresses \ {k} : KeyCounts(j)'  BY <1>7
  <2>. QED  BY <1>8, <2>1
<1>. QED  BY <1>1, <1>5, <1>9 DEF CountsInv

LEMMA PruneCounts == CountsInv /\ PruneStale => CountsInv'
<1> SUFFICES ASSUME CountsInv, PruneStale PROVE CountsInv'  OBVIOUS
<1>1. LimiterTypeOK'  BY LimiterTypeStep DEF CountsInv, LimiterNext
<1>2. /\ recent' = recent /\ trust' = trust
      /\ bucket' = [k \in Addresses |-> IF Kept(bucket[k]) THEN bucket[k] ELSE None]
      /\ bucket \in [Addresses -> Buckets \cup {None}]
  BY DEF PruneStale, CountsInv, LimiterTypeOK
<1>3. \A k : Admitted(k)' = Admitted(k)  BY <1>2 DEF Admitted, ClientKey
<1>4. ASSUME NEW k \in Addresses PROVE KeyCounts(k)'
  <2>0. KeyCounts(k)  BY DEF CountsInv
  <2>1. CASE Kept(bucket[k])
    <3>1. bucket'[k] = bucket[k]  BY <1>2, <2>1
    <3>2. Within(k)' = Within(k)  BY <1>2, <1>3, <3>1 DEF Within
    <3>. QED  BY <1>2, <1>3, <2>0, <3>1, <3>2 DEF KeyCounts
  <2>2. CASE ~ Kept(bucket[k])
    <3>1. bucket'[k] = None  BY <1>2, <2>2
    <3>2. Admitted(k) = {}
      <4>1. CASE bucket[k] = None  BY <2>0, <4>1 DEF KeyCounts
      <4>2. CASE bucket[k] # None
        <5>1. bucket[k] \in Buckets  BY <1>2, <4>2
        <5>2. bucket[k].age \in Nat /\ bucket[k].age >= 2 * Window
          BY <2>2, <4>2, <5>1 DEF Kept, Buckets, Stale
        <5>3. \A n \in Admitted(k) : recent[n].age \in 0 .. Window - 1
          BY DEF CountsInv, RecentTyped, Admitted
        <5>. QED  BY <2>0, <4>2, <5>2, <5>3 DEF KeyCounts
      <4>. QED  BY <4>1, <4>2
    <3>. QED  BY <1>3, <3>1, <3>2 DEF KeyCounts
  <2>. QED  BY <2>1, <2>2
<1>. QED  BY <1>1, <1>2, <1>4 DEF CountsInv, RecentTyped

LEMMA TickCounts == CountsInv /\ Tick => CountsInv'
<1> SUFFICES ASSUME CountsInv, Tick PROVE CountsInv'  OBVIOUS
<1>1. LimiterTypeOK'  BY LimiterTypeStep DEF CountsInv, LimiterNext
<1>2. /\ trust' = trust /\ bucket' = [k \in Addresses |-> Aged(bucket[k])]
      /\ recent' = [n \in {m \in DOMAIN recent : recent[m].age + 1 < Window} |->
                      [recent[n] EXCEPT !.age = @ + 1]]
      /\ bucket \in [Addresses -> Buckets \cup {None}] /\ RecentTyped
  BY DEF Tick, CountsInv, LimiterTypeOK
<1>3. \A n \in DOMAIN recent : /\ recent[n] \in [client : Clients, age : 0 .. Window - 1]
                               /\ recent[n].age \in 0 .. Window - 1
  BY <1>2 DEF RecentTyped
<1>4. /\ DOMAIN recent' = {m \in DOMAIN recent : recent[m].age + 1 < Window}
      /\ \A n \in DOMAIN recent' : /\ n \in DOMAIN recent /\ recent'[n].age = recent[n].age + 1
                                   /\ recent'[n].client = recent[n].client
                                   /\ recent'[n] \in [client : Clients, age : 0 .. Window - 1]
  BY <1>2, <1>3
<1>5. RecentTyped'
  <2>1. IsFiniteSet(DOMAIN recent')  BY <1>2, <1>4, FS_Subset DEF RecentTyped
  <2>2. recent' = [n \in DOMAIN recent' |-> recent'[n]]  BY <1>2
  <2>. QED  BY <1>4, <2>1, <2>2 DEF RecentTyped
<1>6. ASSUME NEW k \in Addresses PROVE KeyCounts(k)'
  <2>0. KeyCounts(k)  BY DEF CountsInv
  <2>1. /\ Admitted(k)' \subseteq Admitted(k)
        /\ \A n \in Admitted(k)' : recent'[n].age = recent[n].age + 1 /\ recent[n].age \in Nat
        /\ \A n \in Admitted(k) : /\ recent[n].age \in 0 .. Window - 1
                                  /\ recent[n].age + 1 < Window => n \in Admitted(k)'
    <3>1. \A d : ClientKey(d)' = ClientKey(d)  BY <1>2 DEF ClientKey
    <3>. QED  BY <1>3, <1>4, <3>1 DEF Admitted
  <2>2. bucket'[k] = Aged(bucket[k])  BY <1>2
  <2>3. CASE bucket[k] = None
    <3>1. bucket'[k] = None  BY <2>2, <2>3 DEF Aged
    <3>. QED  BY <2>0, <2>1, <2>3, <3>1 DEF KeyCounts
  <2>4. CASE bucket[k] # None
    <3>1. bucket[k] \in Buckets  BY <1>2, <2>4
    <3>2. bucket[k].age \in 0 .. 2 * Window /\ bucket[k].count \in Nat
      BY <3>1 DEF Buckets, Stale
    <3>3. CASE bucket[k].age = 2 * Window
      <4>1. bucket'[k] = bucket[k]  BY <2>2, <3>3 DEF Aged, Stale
      <4>2. Admitted(k) = {}  BY <2>0, <2>1, <2>4, <3>3 DEF KeyCounts
      <4>3. Admitted(k)' = {} /\ Within(k)' = {}  BY <2>1, <4>2 DEF Within
      <4>4. Cardinality({}) = 0  BY FS_EmptySet
      <4>5. bucket'[k] # None /\ ~ bucket'[k].age < Window  BY <2>4, <3>3, <4>1
      <4>6. Admitted(k)' \ Within(k)' = {}  BY <4>3
      <4>. QED  BY <4>3, <4>4, <4>5, <4>6 DEF KeyCounts
    <3>4. CASE bucket[k].age # 2 * Window
      <4>1. bucket'[k] = [bucket[k] EXCEPT !.age = @ + 1]  BY <2>2, <2>4, <3>4 DEF Aged, Stale
      <4>2. /\ bucket'[k] # None /\ bucket'[k].age = bucket[k].age + 1
            /\ bucket'[k].count = bucket[k].count
        <5>1. bucket'[k] \in [count : Nat, age : Nat] /\ bucket'[k].age = bucket[k].age + 1
              /\ bucket'[k].count = bucket[k].count
          BY <3>1, <3>2, <4>1 DEF Buckets
        <5>. QED  BY <5>1
      <4>3. Within(k)' \subseteq Within(k)  BY <2>1, <3>2, <4>2 DEF Within
      <4>4. Admitted(k)' \ Within(k)' \subseteq Admitted(k) \ Within(k)
        BY <2>1, <3>2, <4>2 DEF Within
      <4>5. /\ Cardinality(Within(k)') <= Cardinality(Within(k))
            /\ Cardinality(Admitted(k)' \ Within(k)') <= Cardinality(Admitted(k) \ Within(k))
            /\ Cardinality(Within(k)) \in Nat /\ Cardinality(Within(k)') \in Nat
            /\ Cardinality(Admitted(k) \ Within(k)) \in Nat
            /\ Cardinality(Admitted(k)' \ Within(k)') \in Nat
        <5>1. IsFiniteSet(Within(k)) /\ IsFiniteSet(Admitted(k) \ Within(k))
          BY <1>2, CountsFinite
        <5>. QED  BY <4>3, <4>4, <5>1, FS_Subset, FS_CardinalityType
      <4>6. bucket'[k].age < Window => Within(k)' = Within(k)
        BY <2>1, <3>2, <4>2, <4>3 DEF Within
      <4>7. \A n \in Admitted(k)' : recent'[n].age + Window > bucket'[k].age
        BY <2>0, <2>1, <2>4, <3>2, <4>2 DEF KeyCounts
      <4>. QED  BY <2>0, <2>4, <3>2, <4>2, <4>5, <4>6, <4>7 DEF KeyCounts
    <3>. QED  BY <3>3, <3>4
  <2>. QED  BY <2>3, <2>4
<1>. QED  BY <1>1, <1>5, <1>6 DEF CountsInv

\* A step that leaves the buckets and the history alone.
LEMMA CountsStutter ==
    CountsInv /\ UNCHANGED <<trust, bucket, recent>> /\ LimiterTypeOK' => CountsInv'
<1> SUFFICES ASSUME CountsInv, UNCHANGED <<trust, bucket, recent>>, LimiterTypeOK'
             PROVE  CountsInv'
  OBVIOUS
<1>1. \A c : ClientKey(c)' = ClientKey(c)  BY DEF ClientKey
<1>2. \A k \in Addresses : Admitted(k)' = Admitted(k)  BY <1>1 DEF Admitted
<1>3. \A k \in Addresses : Within(k)' = Within(k)  BY <1>2 DEF Within
<1>4. \A k \in Addresses : KeyCounts(k)' <=> KeyCounts(k)  BY <1>2, <1>3 DEF KeyCounts
<1>. QED  BY <1>4 DEF CountsInv, RecentTyped

LEMMA CountsStep == CountsInv /\ [LimiterNext]_limiterVars => CountsInv'
<1> SUFFICES ASSUME CountsInv, [LimiterNext]_limiterVars PROVE CountsInv'  OBVIOUS
<1>1. LimiterTypeOK'  BY LimiterTypeStep DEF CountsInv
<1>2. ASSUME NEW c \in Clients, Refuse(c) PROVE CountsInv'
  BY <1>1, <1>2, CountsStutter DEF Refuse, AfterRefusal
<1>3. CASE UNCHANGED limiterVars  BY <1>1, <1>3, CountsStutter DEF limiterVars
<1>. QED  BY <1>2, <1>3, AdmitCounts, PruneCounts, TickCounts DEF LimiterNext, CheckAndRecord

LEMMA CountsStart == LimiterInit => CountsInv
<1> SUFFICES ASSUME LimiterInit PROVE CountsInv  OBVIOUS
<1>1. LimiterTypeOK  BY DEF LimiterInit, LimiterTypeOK
<1>2. DOMAIN recent = {} /\ recent = <<>>  BY DEF LimiterInit
<1>3. RecentTyped  BY <1>2, FS_EmptySet DEF RecentTyped
<1>4. \A k \in Addresses : KeyCounts(k)  BY <1>2 DEF KeyCounts, Admitted, LimiterInit
<1>. QED  BY <1>1, <1>3, <1>4 DEF CountsInv

\* Twice the limit at most: the bucket's window and the one before it.
LEMMA TwoWindows == CountsInv => TwiceTheLimitAtMost
<1> SUFFICES ASSUME CountsInv, NEW k \in Addresses
             PROVE  Cardinality(Admitted(k)) <= 2 * MaxPerMinute
  BY DEF TwiceTheLimitAtMost
<1>1. KeyCounts(k) /\ RecentTyped  BY DEF CountsInv
<1>2. CASE bucket[k] = None
  <2>1. Admitted(k) = {}  BY <1>1, <1>2 DEF KeyCounts
  <2>. QED  BY <2>1, FS_EmptySet
<1>3. CASE bucket[k] # None
  <2> DEFINE w == Within(k)  b == Admitted(k) \ Within(k)
  <2>1. Admitted(k) = w \cup b /\ w \cap b = {}  BY DEF Within
  <2>2. IsFiniteSet(w) /\ IsFiniteSet(b)  BY <1>1, CountsFinite
  <2>3. Cardinality(w) <= MaxPerMinute /\ Cardinality(b) <= MaxPerMinute
    BY <1>1, <1>3 DEF KeyCounts
  <2>4. Cardinality(w) \in Nat /\ Cardinality(b) \in Nat  BY <2>2, FS_CardinalityType
  <2> HIDE DEF w, b
  <2>5. Cardinality(w \cup b) = Cardinality(w) + Cardinality(b) - Cardinality(w \cap b)
    BY <2>2, FS_Union, Zenon
  <2>6. Cardinality(w \cap b) = 0  BY <2>1, FS_EmptySet, Zenon
  <2>7. Cardinality(w \cup b) = Cardinality(w) + Cardinality(b)
    BY <2>4, <2>5, <2>6
  <2>. QED  BY <2>1, <2>3, <2>4, <2>7
<1>. QED  BY <1>2, <1>3

\* RefusedOnlyWhenSpent, of one step.
RefusedHadSpent ==
    \A c \in Clients :
        (/\ trust /\ \A d \in Clients \ {c} : AddressOf(d) # AddressOf(c)
         /\ verdict'[ClientKey(c)] = "refused" /\ verdict[ClientKey(c)] # "refused")
           => Cardinality(AdmittedTo(c)) >= MaxPerMinute

LEMMA RefusalStep == CountsInv /\ [LimiterNext]_limiterVars => RefusedHadSpent
<1> SUFFICES ASSUME CountsInv, [LimiterNext]_limiterVars, NEW c \in Clients,
                    trust, \A d \in Clients \ {c} : AddressOf(d) # AddressOf(c),
                    verdict'[ClientKey(c)] = "refused", verdict[ClientKey(c)] # "refused"
             PROVE  Cardinality(AdmittedTo(c)) >= MaxPerMinute
  BY DEF RefusedHadSpent
<1> DEFINE k == ClientKey(c)
<1>1. k \in Addresses /\ verdict \in [Addresses -> {"none", "admitted", "refused"}]
  BY KeyIsAddress DEF CountsInv, LimiterTypeOK
<1>2. PICK d \in Clients : Refuse(d) /\ ClientKey(d) = k
  <2>1. \E d \in Clients : Admit(d) \/ Refuse(d)
    BY DEF LimiterNext, CheckAndRecord, Tick, PruneStale, limiterVars
  <2>2. PICK d \in Clients : Admit(d) \/ Refuse(d)  BY <2>1
  <2>3. ClientKey(d) \in Addresses  BY KeyIsAddress
  <2>. QED  BY <1>1, <2>2, <2>3 DEF Admit, Refuse
<1>3. Spent(k)  BY <1>2 DEF Refuse
<1>4. bucket[k] # None /\ bucket[k].age < Window /\ bucket[k].count >= MaxPerMinute
  BY <1>3 DEF Spent
<1>5. Cardinality(Within(k)) >= MaxPerMinute
  BY <1>1, <1>4 DEF CountsInv, KeyCounts
<1>6. \A e \in Clients : ClientKey(e) = AddressOf(e)  BY DEF ClientKey, AddressOf
<1>7. Within(k) \subseteq AdmittedTo(c)
  BY <1>6 DEF Within, Admitted, AdmittedTo, CountsInv, RecentTyped
<1>8. IsFiniteSet(AdmittedTo(c))
  BY FS_Subset DEF AdmittedTo, CountsInv, RecentTyped
<1>9. Cardinality(Within(k)) <= Cardinality(AdmittedTo(c))  BY <1>7, <1>8, FS_Subset
<1>10. Cardinality(Within(k)) \in Nat /\ Cardinality(AdmittedTo(c)) \in Nat
  BY <1>7, <1>8, FS_Subset, FS_CardinalityType
<1>. QED  BY <1>5, <1>9, <1>10

\* For any clients, window and limit: in no Window does a key get more than twice
\* the limit, and a client with an address of its own is refused only when it has
\* spent the limit within the Window.
THEOREM LimitsAreFair == Spec => LimitIsFair
<1>1. Init => LimiterInit  BY DEF Init
<1>2. Spec => []CountsInv
  BY <1>1, CountsStart, CountsStep, LimiterPart, PTL DEF Spec
<1>3. Spec => []TwiceTheLimitAtMost  BY <1>2, TwoWindows, PTL
<1>4. Spec => [][RefusedHadSpent]_vars
  <2>1. CountsInv /\ [Next]_vars => [RefusedHadSpent]_vars  BY RefusalStep, LimiterPart
  <2>. QED  BY <1>2, <2>1, PTL DEF Spec
<1>. QED  BY <1>3, <1>4 DEF LimitIsFair, RefusedOnlyWhenSpent, RefusedHadSpent

-----------------------------------------------------------------------------
(* What follows from the invariant.                                        *)

LEMMA TypesThen == PipelineInv => TypeOK
<1> SUFFICES ASSUME PipelineInv PROVE TypeOK  OBVIOUS
<1>1. BatcherTypeOK
  <2>1. /\ queue \in Seq(Events) /\ handed \in Seq(Seq(Events) \cup {Stop})
        /\ flying \subseteq Seq(Events) /\ lost \subseteq Losses
    BY DEF PipelineInv, SdkInv, Containers
  <2>2. \A n \in DOMAIN handed : handed[n] = Stop \/ handed[n] \in Seq(Events)  BY <2>1
  <2>3. lost \subseteq [event : Events, reason : {"back-pressure", "exit", "network", "limited"}]
    BY <2>1 DEF Losses
  <2>. QED  BY <2>1, <2>2, <2>3 DEF PipelineInv, SdkInv, BatcherTypeOK
<1>2. IngestTypeOK
  <2>1. ASSUME NEW r \in Requests
        PROVE  /\ req[r].kind \in Kinds /\ req[r].org \in Orgs
               /\ req[r].checked \in 0 .. Len(req[r].items)
               /\ req[r].sampled \in 0 .. Len(req[r].items)
               /\ req[r].kept \subseteq DOMAIN req[r].items
               /\ req[r].unseen \subseteq DOMAIN req[r].items
               /\ req[r].answer \in
                    {"absent", "none", "accepted", "unprocessable", "forbidden", "error"}
    <3>1. req[r] \in Records /\ Measured(req[r]) /\ Len(req[r].items) \in Nat
      BY RequestIs DEF PipelineInv
    <3>. QED  BY <3>1 DEF Records, Measured
  <2>. QED  BY <2>1 DEF PipelineInv, IngestInv, IngestTypeOK
<1>3. ScanTypeOK  BY DEF PipelineInv, ScanInv
<1>. QED  BY <1>1, <1>2, <1>3 DEF PipelineInv, TypeOK

LEMMA SdkKeepsThen == SdkInv => BackPressureIsIdle /\ DestroyLeavesNothing
BY DEF SdkInv, Containers, Divided, BackPressureIsIdle, DestroyLeavesNothing, Losses

LEMMA BatchesAreWholeThen == IngestInv => BatchesAreWhole
BY DEF IngestInv, BatchesAreWhole, UniqueItems, Evented

\* An event is an item of one request, and a row is of an item.
LEMMA StoredOnceThen == SdkInv /\ IngestInv => StoredAtMostOnce
<1> SUFFICES ASSUME SdkInv, IngestInv, NEW e \in Events PROVE Cardinality(RowsOf(e)) <= 1
  BY DEF StoredAtMostOnce
<1>1. \A x, y \in RowsOf(e) : x = y
  <2> SUFFICES ASSUME NEW x \in RowsOf(e), NEW y \in RowsOf(e) PROVE x = y  OBVIOUS
  <2>1. ASSUME NEW z \in RowsOf(e)
        PROVE  /\ z.request \in Requests /\ z.n \in DOMAIN Asked[z.request]
               /\ z = Row(z.request, z.n) /\ Asked[z.request][z.n].event = e
    <3>1. z \in rows /\ z.item.event = e  BY DEF RowsOf
    <3>2. z.request \in Requests /\ z.n \in req[z.request].kept /\ z = Row(z.request, z.n)
      BY <3>1 DEF IngestInv
    <3>3. z.item = req[z.request].items[z.n]  BY <3>2 DEF Row
    <3>4. z.n \in DOMAIN req[z.request].items  BY <3>2, RequestIs DEF Measured
    <3>. QED  BY <3>1, <3>2, <3>3, <3>4 DEF Asked
  <2>2. x.request = y.request /\ x.n = y.n  BY <2>1 DEF SdkInv, OnceAsked
  <2>. QED  BY <2>1, <2>2
<1>2. CASE RowsOf(e) = {}  BY <1>2, FS_EmptySet
<1>3. CASE RowsOf(e) # {}
  <2>1. PICK x : RowsOf(e) = {x}  BY <1>1, <1>3
  <2>2. Cardinality(RowsOf(e)) = 1  BY <2>1, FS_Singleton
  <2>. QED  BY <2>2
<1>. QED  BY <1>2, <1>3

\* The five kinds of place.
LEMMA OnePlace ==
    ASSUME SdkInv, IngestInv, NEW e \in 1 .. pushed
    PROVE  Cardinality(Places(e)) = 1
<1> DEFINE Q == {<<"queue", n>> : n \in {n \in DOMAIN queue : queue[n] = e}}
           H == {<<"handed", n>> :
                   n \in {n \in DOMAIN handed : handed[n] # Stop /\ Contains(handed[n], e)}}
           F == {<<"flying", b>> : b \in {b \in flying : Contains(b, e)}}
           L == {<<"lost", l.reason>> : l \in {l \in lost : l.event = e}}
           R == {<<"request", r>> : r \in {r \in Requests : Has(r, e)}}
<1>0. e \in Events /\ e <= pushed  BY BatcherAssumption DEF SdkInv, Events
<1>1. \A b \in Seq(Events) : Contains(b, e) <=> e \in ToSet(b)
  BY InSequence DEF Contains
<1>2. /\ queue \in Seq(Events) /\ flying \subseteq Seq(Events)
      /\ \A n \in DOMAIN handed : handed[n] # Stop => handed[n] \in Seq(Events)
  BY DEF SdkInv, Containers
<1>3. \A r \in Requests : Has(r, e) <=> \E n \in DOMAIN Asked[r] : Asked[r][n].event = e
  BY RequestIs DEF Has, Asked, Arrived, Measured
<1>4. Q = {} <=> e \notin ToSet(queue)
  <2>1. \A x : x \in Q <=> \E n \in DOMAIN queue : queue[n] = e /\ x = <<"queue", n>>
    OBVIOUS
  <2> HIDE DEF Q
  <2>2. Q = {} <=> ~ \E n \in DOMAIN queue : queue[n] = e  BY <2>1
  <2>. QED  BY <2>2, InSequence
<1>5. H = {} <=> ~ InBatches(e, handed)  BY <1>1, <1>2 DEF InBatches
<1>6. F = {} <=> ~ InFlight(e, flying)  BY <1>1, <1>2 DEF InFlight
<1>7. L = {} <=> ~ IsLost(e, lost)  BY DEF IsLost
<1>8. R = {} <=> ~ InRequest(e, Asked)  BY <1>3 DEF InRequest
<1>9. \A x, y \in Q : x = y  BY DEF SdkInv, Containers, IsInjective
<1>10. \A x, y \in H : x = y  BY <1>1, <1>2 DEF SdkInv, Containers, OnceHanded
<1>11. \A x, y \in F : x = y  BY <1>1, <1>2 DEF SdkInv, Containers, OnceFlying
<1>12. \A x, y \in L : x = y  BY DEF SdkInv, OnceLost
<1>13. \A x, y \in R : x = y  BY <1>0, <1>3 DEF SdkInv, OnceAsked
<1>14. Spread(queue, handed, flying, lost, Asked, pushed)  BY DEF SdkInv, Containers
<1>15. Places(e) = Q \cup H \cup F \cup L \cup R  BY DEF Places
<1> HIDE DEF Q, H, F, L, R
<1>16. \/ Q # {} /\ H = {} /\ F = {} /\ L = {} /\ R = {}
       \/ Q = {} /\ H # {} /\ F = {} /\ L = {} /\ R = {}
       \/ Q = {} /\ H = {} /\ F # {} /\ L = {} /\ R = {}
       \/ Q = {} /\ H = {} /\ F = {} /\ L # {} /\ R = {}
       \/ Q = {} /\ H = {} /\ F = {} /\ L = {} /\ R # {}
  BY <1>0, <1>4, <1>5, <1>6, <1>7, <1>8, <1>14 DEF Spread
<1>17. \E p : Places(e) = {p}
  <2>1. Places(e) # {} /\ \A x, y \in Places(e) : x = y
    BY <1>9, <1>10, <1>11, <1>12, <1>13, <1>15, <1>16
  <2>. QED  BY <2>1
<1>. QED  BY <1>17, FS_Singleton

LEMMA AccountedForThen == SdkInv /\ IngestInv => EveryEventIsAccountedFor
<1> SUFFICES ASSUME SdkInv, IngestInv PROVE EveryEventIsAccountedFor  OBVIOUS
<1>1. ASSUME NEW r \in Requests, NEW e \in Events, Has(r, e), req[r].answer = "accepted"
      PROVE  RowsOf(e) # {} \/ EventItem(e).field
  <2>1. PICK n \in DOMAIN req[r].items : req[r].items[n].event = e  BY <1>1 DEF Has
  <2>2. /\ req[r].kind = "usage" /\ req[r].items[n].field = EventItem(e).field
        /\ n \in req[r].kept \/ req[r].items[n].field
    BY <2>1 DEF IngestInv, Proper, Excused
  <2>3. CASE n \in req[r].kept
    <3>1. Row(r, n) \in rows  BY <1>1, <2>2, <2>3 DEF IngestInv, Evented
    <3>2. Row(r, n).item.event = e  BY <2>1 DEF Row
    <3>. QED  BY <3>1, <3>2 DEF RowsOf
  <2>. QED  BY <2>2, <2>3
<1>. QED  BY <1>1, OnePlace DEF EveryEventIsAccountedFor

(* Evidence on its way, for any numbers of events, batches, requests, runs  *)
(* of the scan and files: push() never drops, destroy() leaves nothing      *)
(* behind, an event is in one place and stored once at most, batches are    *)
(* stored whole, and a scan has stored what it says.                        *)
THEOREM EvidenceIsKept == Spec => []EventsAreKept
<1>1. PipelineInv => EventsAreKept
  BY TypesThen, SdkKeepsThen, BatchesAreWholeThen, StoredOnceThen, AccountedForThen,
     ScansAreHonestThen
     DEF PipelineInv, EventsAreKept
<1>. QED  BY <1>1, PipelineHolds, PTL

-----------------------------------------------------------------------------
\* A handler stores only what it has kept, and that has passed the checks.
LEMMA HandlerStores ==
    ASSUME IngestInv, NEW r \in Requests, Handler(r) \/ Fails(r)
    PROVE  \/ Stored' = Stored /\ rows' = rows
           \/ /\ WriteDue(r)
              /\ rows' \subseteq rows \cup {Row(r, n) : n \in req[r].kept}
              /\ Stored' \subseteq Stored \cup {Row(r, n) : n \in req[r].kept}
<1>1. CASE Commit(r)  BY <1>1, CommitKeeps DEF Commit
<1>2. CASE CheckItem(r) \/ PassedOver(r) \/ SampleItem(r) \/ Fails(r)
  BY <1>2 DEF CheckItem, PassedOver, SampleItem, Fails, Stored
<1>. QED  BY <1>1, <1>2 DEF Handler

InOrg == \A x \in Stored' \ Stored :
            LET q == req[x.request] IN
            /\ q.org = NoOrg \/ x.item.consumer \in {Free, NoOrg, q.org}
            /\ q.org = NoOrg \/ owner \in {Free, NoOrg, q.org} \/ x.n \in q.unseen

NotDenied == \A x \in rows' \ rows :
               LET q == req[x.request] IN
               (q.kind = "usage" /\ ~ q.touched) => ~ (x.item.field /\ denied[q.org])

LEMMA HandlerIsScoped ==
    ASSUME IngestInv, NEW r \in Requests, Handler(r) \/ Fails(r)
    PROVE  InOrg /\ NotDenied
<1>1. CASE Stored' = Stored /\ rows' = rows  BY <1>1 DEF InOrg, NotDenied
<1>2. CASE /\ WriteDue(r)
           /\ rows' \subseteq rows \cup {Row(r, n) : n \in req[r].kept}
           /\ Stored' \subseteq Stored \cup {Row(r, n) : n \in req[r].kept}
  <2>1. /\ \A n \in req[r].kept : /\ MayUse(req[r].items[n].consumer, req[r].org)
                                  /\ n \in req[r].unseen \/ MayUse(owner, req[r].org)
        /\ (req[r].kind = "usage" /\ ~ req[r].touched) =>
             \A n \in req[r].kept : ~ (req[r].items[n].field /\ denied[req[r].org])
    BY <1>2, CommitIsLast
  <2>2. \A n : Row(r, n).request = r /\ Row(r, n).n = n /\ Row(r, n).item = req[r].items[n]
    BY DEF Row
  <2>3. InOrg
    <3> SUFFICES ASSUME NEW x \in Stored', x \notin Stored
                 PROVE  LET q == req[x.request] IN
                        /\ q.org = NoOrg \/ x.item.consumer \in {Free, NoOrg, q.org}
                        /\ q.org = NoOrg \/ owner \in {Free, NoOrg, q.org} \/ x.n \in q.unseen
      BY DEF InOrg
    <3>1. PICK n \in req[r].kept : x = Row(r, n)  BY <1>2
    <3>. QED  BY <2>1, <2>2, <3>1 DEF MayUse
  <2>4. NotDenied
    <3> SUFFICES ASSUME NEW x \in rows', x \notin rows
                 PROVE  LET q == req[x.request] IN
                        (q.kind = "usage" /\ ~ q.touched) => ~ (x.item.field /\ denied[q.org])
      BY DEF NotDenied
    <3>1. PICK n \in req[r].kept : x = Row(r, n)  BY <1>2
    <3>. QED  BY <2>1, <2>2, <3>1
  <2>. QED  BY <2>3, <2>4
<1>. QED  BY <1>1, <1>2, HandlerStores

LEMMA StepIsScoped == PipelineInv /\ [Next]_vars => InOrg /\ NotDenied
<1> SUFFICES ASSUME PipelineInv, [Next]_vars PROVE InOrg /\ NotDenied  OBVIOUS
<1>0. IngestInv  BY DEF PipelineInv
<1>1. UNCHANGED <<rows, siteRows, evidence>> => InOrg /\ NotDenied
  BY DEF InOrg, NotDenied, Stored
<1>2. ASSUME NEW r \in Requests, Handler(r) \/ Fails(r) PROVE InOrg /\ NotDenied
  BY <1>0, <1>2, HandlerIsScoped
<1>3. CASE SdkNext
  BY <1>1, <1>2, <1>3 DEF SdkNext, Deliver, NetworkLoses, ClockTicks, ingestVars
<1>4. CASE PostsNext
  BY <1>1, <1>2, <1>4 DEF PostsNext, Post, RegisterService, PutSampling
<1>. QED  BY <1>1, <1>3, <1>4 DEF Next, vars, ingestVars

(* What is stored is of the caller's organisation, unless the service was   *)
(* registered between the check and the transaction; and a denied field is  *)
(* not stored, unless the list changed or could not be read meanwhile.      *)
THEOREM IngestionStaysScoped == Spec => IngestionIsScoped
<1>1. PipelineInv /\ [Next]_vars => [InOrg]_ingestVars /\ [NotDenied]_ingestVars
  BY StepIsScoped
<1>2. Spec => [][InOrg]_ingestVars /\ [][NotDenied]_ingestVars
  BY <1>1, PipelineHolds, PTL DEF Spec
<1>. QED
  BY <1>2 DEF IngestionIsScoped, EvidenceStaysInOrg, DeniedFieldsStayOut, InOrg, NotDenied
=============================================================================
