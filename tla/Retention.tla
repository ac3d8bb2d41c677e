------------------------------ MODULE Retention ------------------------------
(***************************************************************************)
(* Settings of an organisation (radar-api/src/settings.rs) and the hourly  *)
(* pass of radar-api/src/main.rs that deletes what is older than the       *)
(* window an organisation has set, or than the default.                    *)
(*                                                                         *)
(* PUT /v1/settings writes its four keys by four statements.  The pass     *)
(* reads all windows once and then runs its statements one by one; a       *)
(* statement that fails is logged and left.                                *)
(***************************************************************************)
EXTENDS Naturals, FiniteSets, Sequences, SequencesExt

CONSTANTS
    Tenants,     \* organisations, the scope "" among them
    Items,       \* rows the pass looks at, see RetentionAssumption
    Windows,     \* values of retention.days that clients choose
    DefaultDays, \* RETENTION_DEFAULT_DAYS
    MaxPuts,     \* bound on the PUT requests of a behaviour
    Unset,       \* no row, no request, no time
    Purged,      \* a row that a pass has deleted
    Rest,        \* the scope of every organisation that is not configured
    MaxDay,      \* bound on the days that pass
    MaxFaults    \* bound on failed statements and crashes

ASSUME RetentionAssumption ==
    /\ IsFiniteSet(Tenants)
    /\ Items \subseteq [kind : {"usage", "csv", "evidence"}, org : Tenants]
    /\ Windows \subseteq Nat \ {0}
    /\ DefaultDays \in Nat \ {0}
    /\ MaxPuts \in Nat /\ MaxDay \in Nat /\ MaxFaults \in Nat
    /\ Rest \notin Tenants
    /\ {Unset, Purged} \cap Nat = {}

Puts == 1 .. MaxPuts \* numbered as they arrive

VARIABLES
    day,      \* the time
    setting,  \* per organisation and key, the PUT that wrote the row
    put,      \* per PUT: its body and how far it is
    row,      \* per item: the day it was recorded, Unset or Purged
    pass,     \* the retention pass: the windows read, its statements to come
    promised, \* for the properties: the windows in force when a pass began
    faults    \* failed statements and crashes so far

retentionVars == <<day, setting, put, row, pass, promised, faults>>

Keys == <<"policy.block_on", "policy.lookback_days",
          "policy.allow_override_with", "retention.days">>
KeySet == {Keys[k] : k \in 1 .. Len(Keys)}

Asleep == [statements |-> <<>>, read |-> Unset]

NoPass == [o \in Tenants |-> DefaultDays]

RetentionInit ==
    /\ day = 0
    /\ setting = [o \in Tenants |-> [k \in KeySet |-> Unset]]
    /\ put = [p \in Puts |-> Unset]
    /\ row = [i \in Items |-> Unset]
    /\ pass = Asleep
    /\ promised = NoPass
    /\ faults = 0

-----------------------------------------------------------------------------
(* PUT /v1/settings.                                                       *)

InFlight(p) == put[p] # Unset /\ put[p].next \in 1 .. Len(Keys)

\* alone, kept for the properties: no other PUT of the organisation met it.
BeginPut(p) ==
    /\ put[p] = Unset
    /\ \A x \in 1 .. p - 1 : put[x] # Unset
    /\ \E o \in Tenants, w \in Windows :
          LET met == {x \in Puts : InFlight(x) /\ put[x].org = o}
          IN  put' = [x \in Puts |->
                        IF x = p THEN [org |-> o, days |-> w, next |-> 1, alone |-> met = {}]
                        ELSE IF x \in met THEN [put[x] EXCEPT !.alone = FALSE]
                        ELSE put[x]]
    /\ UNCHANGED <<day, setting, row, pass, promised, faults>>

\* ON CONFLICT(org_id, key) DO UPDATE SET value.
Upserted(old, p) == p

UpsertKey(p) ==
    /\ InFlight(p)
    /\ setting' = [setting EXCEPT ![put[p].org][Keys[put[p].next]] = Upserted(@, p)]
    /\ put' = [put EXCEPT ![p].next = @ + 1]
    /\ UNCHANGED <<day, row, pass, promised, faults>>

\* A statement fails, or the handler is dropped between two of them: what is
\* written stays.
PutBreaksOff(p) ==
    /\ InFlight(p)
    /\ put' = [put EXCEPT ![p].next = 0]
    /\ UNCHANGED <<day, setting, row, pass, promised, faults>>

-----------------------------------------------------------------------------
(* The retention pass.                                                     *)

\* The window get_settings shows, and configured_retention_days reads.
WindowOf(o) ==
    IF setting[o]["retention.days"] = Unset THEN DefaultDays
    ELSE put[setting[o]["retention.days"]].days

ConfiguredRetentionDays ==
    [o \in {x \in Tenants : setting[x]["retention.days"] # Unset} |-> WindowOf(o)]

Statement(kind, scope) == [kind |-> kind, scope |-> scope]

\* Two statements per configured organisation, in the order of the rows, and
\* three for the rest.
Statements(order) ==
    [n \in 1 .. 2 * Len(order) |->
        Statement(IF n % 2 = 1 THEN "usage" ELSE "csv", order[(n + 1) \div 2])]
    \o <<Statement("usage", Rest), Statement("evidence", Rest), Statement("csv", Rest)>>

\* An hour has gone by.  A failed SELECT is taken for an empty answer.
ReadWindows ==
    /\ pass = Asleep
    /\ \E ok \in BOOLEAN :
          LET read == IF ok THEN ConfiguredRetentionDays ELSE <<>>
          IN  /\ ok \/ faults < MaxFaults
              /\ faults' = IF ok THEN faults ELSE faults + 1
              /\ promised' = [o \in Tenants |-> IF ok THEN WindowOf(o) ELSE DefaultDays]
              /\ \E order \in SetToSeqs(DOMAIN read) :
                    pass' = [read |-> read, statements |-> Statements(order)]
    /\ UNCHANGED <<day, setting, put, row>>

\* Mutant: the default window is applied to every organisation.
InScope_All(scope, o) == IF scope = Rest THEN TRUE ELSE o = scope

\* RetentionScope::org_predicate.
InScope(scope, o) == IF scope = Rest THEN o \notin DOMAIN pass.read ELSE o = scope

DaysFor(scope) == IF scope = Rest THEN DefaultDays ELSE pass.read[scope]

\* The rows a statement deletes.  Those of impact_evidence go by a column
\* expires_at that no statement ever writes.
Doomed(s) ==
    {i \in Items :
        /\ row[i] \notin {Unset, Purged}
        /\ i.kind = s.kind /\ s.kind # "evidence"
        /\ InScope(s.scope, i.org)
        /\ day - row[i] > DaysFor(s.scope)}

Proceed == IF Len(pass.statements) = 1 THEN Asleep
           ELSE [pass EXCEPT !.statements = Tail(@)]

\* The pass goes on whatever became of a statement.
AfterFault == Proceed

RunStatement ==
    /\ pass.statements # <<>>
    /\ row' = [i \in Items |-> IF i \in Doomed(Head(pass.statements)) THEN Purged ELSE row[i]]
    /\ pass' = Proceed
    /\ promised' = IF pass' = Asleep THEN NoPass ELSE promised
    /\ UNCHANGED <<day, setting, put, faults>>

StatementFails ==
    /\ pass.statements # <<>>
    /\ faults < MaxFaults
    /\ faults' = faults + 1
    /\ pass' = AfterFault
    /\ promised' = IF pass' = Asleep THEN NoPass ELSE promised
    /\ UNCHANGED <<day, setting, put, row>>

\* A new process sleeps first; PUTs that were under way break off.
RetentionCrash ==
    /\ faults < MaxFaults /\ faults' = faults + 1
    /\ pass' = Asleep /\ promised' = NoPass
    /\ put' = [p \in Puts |-> IF InFlight(p) THEN [put[p] EXCEPT !.next = 0] ELSE put[p]]
    /\ UNCHANGED <<day, setting, row>>

-----------------------------------------------------------------------------
(* Time and data.                                                          *)

Record(i) ==
    /\ row[i] = Unset
    /\ row' = [row EXCEPT ![i] = day]
    /\ UNCHANGED <<day, setting, put, pass, promised, faults>>

NextDay ==
    /\ day < MaxDay
    /\ day' = day + 1
    /\ UNCHANGED <<setting, put, row, pass, promised, faults>>

RetentionStep == ReadWindows \/ RunStatement \/ StatementFails

RetentionNext ==
    \/ \E p \in Puts : BeginPut(p) \/ UpsertKey(p) \/ PutBreaksOff(p)
    \/ RetentionStep
    \/ \E i \in Items : Record(i)
    \/ NextDay

-----------------------------------------------------------------------------
Requested == [org : Tenants, days : Windows, next : 0 .. Len(Keys) + 1, alone : BOOLEAN]

RetentionTypeOK ==
    /\ day \in 0 .. MaxDay
    /\ setting \in [Tenants -> [KeySet -> Puts \cup {Unset}]]
    /\ put \in [Puts -> Requested \cup {Unset}]
    /\ row \in [Items -> 0 .. MaxDay \cup {Unset, Purged}]
    /\ promised \in [Tenants -> Windows \cup {DefaultDays}]
    /\ pass # Asleep => DOMAIN pass.read \subseteq Tenants
    /\ faults \in 0 .. MaxFaults

(* A PUT that has written its last key and met no other PUT of its         *)
(* organisation is in force as a whole: settings are a mixture only after  *)
(* a PUT that overlapped or broke off.                                     *)
PutTakesEffect ==
    [][\A p \in Puts :
         (UpsertKey(p) /\ put[p].next = Len(Keys) /\ put[p].alone)
            => \A k \in KeySet : setting'[put[p].org][k] = p]_retentionVars

(* A row is deleted only when it is older than the window its organisation *)
(* had in force when the pass began, whatever other organisations have set *)
(* and whatever the clients set since; a pass whose SELECT failed may      *)
(* instead delete by the default.  Evidence is never deleted.              *)
WindowsAreHonoured ==
    [][\A i \in Items :
         (row'[i] = Purged /\ row[i] # Purged) =>
            i.kind # "evidence" /\ day - row[i] > promised[i.org]]_retentionVars

Overdue(i) == /\ row[i] \notin {Unset, Purged} /\ i.kind # "evidence"
              /\ day - row[i] > WindowOf(i.org)

(* What is older than its window is deleted in the end, though statements  *)
(* fail and windows change: a later pass makes up for an earlier one.      *)
NothingStaysOverdue == <>[](\A i \in Items : ~ Overdue(i))
=============================================================================
