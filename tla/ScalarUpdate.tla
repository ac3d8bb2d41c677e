---------------------------- MODULE ScalarUpdate ----------------------------
(***************************************************************************)
(* The documentation viewer's bundle (radar-api/src/scalar_update.rs): it  *)
(* is compiled into the binary, and in the desktop build POST              *)
(* /scalar/update puts a newer one beside the database, in two files that  *)
(* are written one after the other.  Whoever asks for the bundle or its    *)
(* version reads one of the files, while requests write them, writes break *)
(* off and the process dies.                                               *)
(***************************************************************************)
EXTENDS Naturals

CONSTANTS
    MaxVersion, \* bound on the versions npm publishes
    Updates,    \* requests that may be under way together
    NoFile,
    Torn        \* what is in a file that has not been written to its end

ASSUME ScalarAssumption ==
    /\ MaxVersion \in Nat
    /\ NoFile \notin Nat /\ Torn \notin Nat /\ NoFile # Torn

Versions == 0 .. MaxVersion

VARIABLES
    hasDir,    \* OVERRIDE_DIR is set: the database is a SQLite file
    bundled,   \* the version compiled in
    latest,    \* the version npm answers with
    js,        \* scalar_override.js: the version its bytes are of
    version,   \* scalar_override.version
    update,    \* per request: how far it is, the version it brings, and whether another
               \* one wrote while it did: at all, or other bytes into the same file
    disturbed  \* for the properties: an update broke off or met another, and none
               \* has run from end to end by itself since

scalarVars == <<hasDir, bundled, latest, js, version, update, disturbed>>

NoUpdate == [at |-> "none", brings |-> 0, met |-> FALSE, mixed |-> FALSE]

ScalarInit ==
    /\ hasDir \in BOOLEAN
    /\ bundled = 0 /\ latest \in Versions
    /\ js = NoFile /\ version = NoFile
    /\ update = [u \in Updates |-> NoUpdate]
    /\ disturbed = FALSE

Writing(u) == update[u].at \in {"js", "written", "version"}

\* fs::write of js truncates the file and writes it in pieces: two at once leave
\* pieces of both.
Mixes(u, w) == update[w].at = "js" /\ update[w].brings # update[u].brings

-----------------------------------------------------------------------------
(* POST /scalar/update.                                                    *)

\* The caller has a token, if the server asks for one, and the files have a place.
\* fetch_latest_npm_version, and download_bytes of that version.
Ask(u) ==
    /\ update[u].at = "none" /\ hasDir
    /\ update' = [update EXCEPT ![u] = [NoUpdate EXCEPT !.at = "loading", !.brings = latest]]
    /\ UNCHANGED <<hasDir, bundled, latest, js, version, disturbed>>

DownloadFails(u) ==
    /\ update[u].at = "loading"
    /\ update' = [update EXCEPT ![u] = NoUpdate]
    /\ UNCHANGED <<hasDir, bundled, latest, js, version, disturbed>>

BeginJs(u) ==
    /\ update[u].at = "loading"
    /\ js' = Torn
    /\ update' = [w \in Updates |->
                    IF w = u
                    THEN [update[u] EXCEPT !.at = "js", !.met = \E x \in Updates : Writing(x),
                                           !.mixed = \E x \in Updates : Mixes(u, x)]
                    ELSE [update[w] EXCEPT !.met = @ \/ Writing(w), !.mixed = @ \/ Mixes(u, w)]]
    /\ disturbed' = (disturbed \/ \E x \in Updates : Writing(x))
    /\ UNCHANGED <<hasDir, bundled, latest, version>>

\* Whole, unless another request is still at it or has left pieces of its own.
EndJs(u) ==
    /\ update[u].at = "js"
    /\ update' = [update EXCEPT ![u].at = "written"]
    /\ LET v == update[u].brings IN
       js' \in IF \E w \in Updates \ {u} : update[w].at = "js" THEN {Torn}
               ELSE IF update[u].mixed THEN {Torn, v} ELSE {v}
    /\ UNCHANGED <<hasDir, bundled, latest, version, disturbed>>

BeginVersion(u) ==
    /\ update[u].at = "written"
    /\ version' = Torn
    /\ update' = [update EXCEPT ![u].at = "version"]
    /\ UNCHANGED <<hasDir, bundled, latest, js, disturbed>>

\* An update that met no other leaves nothing of an earlier one.
EndVersion(u) ==
    /\ update[u].at = "version"
    /\ version' = update[u].brings
    /\ update' = [update EXCEPT ![u] = NoUpdate]
    /\ UNCHANGED <<hasDir, bundled, latest, js>>
    /\ disturbed' = (disturbed /\ update[u].met)

\* A write fails, at once or half way; the handler answers 500 and leaves the files.
WriteFails(u) ==
    /\ Writing(u)
    /\ update' = [update EXCEPT ![u] = NoUpdate]
    /\ disturbed' = TRUE
    /\ UNCHANGED <<hasDir, bundled, latest, js, version>>

-----------------------------------------------------------------------------
(* What is read.                                                           *)

\* active_js: the bytes of the file, whatever they are, if there is one.
ActiveJs == IF hasDir /\ js # NoFile THEN js ELSE bundled

\* override_version: none when the file is missing or empty.
OverrideVersion == IF hasDir /\ version \in Versions THEN version ELSE NoFile

\* active_version
ActiveVersion == IF OverrideVersion = NoFile THEN bundled ELSE OverrideVersion

\* is_newer, as get_version uses it; npm may not answer.
UpdateAvailable == latest > ActiveVersion

-----------------------------------------------------------------------------
(* What happens around it.                                                 *)

\* A release of Scalar, or the withdrawal of one.
Publish ==
    /\ latest' \in Versions \ {latest}
    /\ UNCHANGED <<hasDir, bundled, js, version, update, disturbed>>

\* The application ends and is started again, perhaps after it was upgraded.
ScalarCrash ==
    /\ bundled' \in bundled .. MaxVersion
    /\ update' = [u \in Updates |-> NoUpdate]
    /\ disturbed' = (disturbed \/ \E u \in Updates : Writing(u))
    /\ UNCHANGED <<hasDir, latest, js, version>>

ScalarNext ==
    \/ \E u \in Updates : Ask(u) \/ DownloadFails(u) \/ BeginJs(u) \/ EndJs(u)
                          \/ BeginVersion(u) \/ EndVersion(u) \/ WriteFails(u)
    \/ Publish

-----------------------------------------------------------------------------
ScalarTypeOK ==
    /\ hasDir \in BOOLEAN /\ disturbed \in BOOLEAN
    /\ bundled \in Versions /\ latest \in Versions
    /\ js \in Versions \cup {NoFile, Torn} /\ version \in Versions \cup {NoFile, Torn}
    /\ update \in [Updates -> [at : {"none", "loading", "js", "written", "version"},
                               brings : Versions, met : BOOLEAN, mixed : BOOLEAN]]

(* When no update is writing, the version that is shown is that of the     *)
(* bundle that is served, the bundle is whole, and an update is offered    *)
(* when npm has a newer one, unless an update broke off between its two    *)
(* files or met another one; and then the next update that nothing         *)
(* disturbs sets all right.                                                *)
BundleIsNamed ==
    (\A u \in Updates : ~ Writing(u)) /\ ~ disturbed =>
        /\ ActiveJs = ActiveVersion
        /\ UpdateAvailable <=> latest > ActiveJs
=============================================================================
