----------------------------- MODULE PolicyGate -----------------------------
(***************************************************************************)
(* The gate of a pull request: runs of `radar check` (radar-cli: main.rs,  *)
(* policy.rs, api_client.rs, github.rs) against radar-api and GitHub.      *)
(* A run posts its diff, asks for the blast radius and the coverage, looks *)
(* for an override, decides, records the decision and posts or updates the *)
(* one comment of the pull request.  Every call is a step: between two of  *)
(* them evidence arrives or ages, labels and acknowledgements change and   *)
(* the other runs of the pull request move.  A call fails or times out at  *)
(* any point, and one that is not answered may have been carried out.      *)
(*                                                                         *)
(* One service with one operation "op" whose field "f" may change.  A diff *)
(* is known by its content (create_diff fingerprints it), so its id is the *)
(* report it was made from.                                                *)
(***************************************************************************)
EXTENDS Naturals

CONSTANTS
    Runs,          \* jobs that run `radar check` for the pull request
    Consumers,
    Evidence,      \* rows that may be ingested
    Subscribers,   \* consumers that subscribed before the first run
    Configs,       \* .radar.yml and flags, the same for every run
    MaxEvents      \* bound: changes made by others than the runs

Servers  == {"api", "github"}
Reports  == {"safe", "field", "operation"}
Sources  == {"runtime", "static", "collection"}
Verdicts == {"pass", "warn", "block", "overridden"}

\* A "safe" report has a change of the operation that breaks nothing.
\* An operation "other" is one that no report changes; a field "" was not recorded.
EvidenceRows ==
    [consumer : Consumers, source : Sources, operation : {"op", "other"}, field : {"f", ""}]

\* connected: --api-url and --service-id are given.  serial: the jobs of the pull
\* request are in one concurrency group.  "other" is a value without "label:".
AllConfigs ==
    [blockOn : {"never", "any_break", "active_consumers"},
     failMode : {"closed", "open", "warn"},
     allow : {"none", "label", "other"},
     connected : BOOLEAN, serial : BOOLEAN]

ASSUME EvidenceAssumption == Evidence \subseteq EvidenceRows
ASSUME SubscribersAssumption == Subscribers \subseteq Consumers
ASSUME ConfigsAssumption == Configs \subseteq AllConfigs
ASSUME MaxEventsAssumption == MaxEvents \in Nat

VARIABLES
    config,
    evidence,      \* usage_event within the 30 days, call_site, and collections
    recorded,      \* a blast radius has written impact_evidence of the service
    subscribed,    \* consumers with a row in subscription
    acks,          \* acks[d]: acknowledgements of diff d: "none", "active" or "expired"
    label,         \* of the pull request: "never", "on" or "off"
    decisions,     \* rows of policy_decision
    comments,      \* number of marker comments on the pull request
    hung,          \* servers that answer nothing any more
    events,
    run            \* run[r]: the local state of a run

apiVars == <<evidence, recorded, subscribed, acks, decisions>>
ghVars  == <<label, comments>>
vars    == <<config, apiVars, ghVars, hung, events, run>>

\* certain is a history variable: the consumers a reader of the database could have
\* named as users of the changed surface at every moment since the run began.
Idle == [pc |-> "idle", report |-> "safe", posted |-> FALSE, apiError |-> FALSE,
         todo |-> {}, affected |-> FALSE, consumers |-> "unknown", override |-> FALSE,
         verdict |-> "none", exit |-> 0, update |-> FALSE, certain |-> {}]

\* A process that has ended is forgotten.
Gone == [Idle EXCEPT !.pc = "done"]

Breaking(rep) == rep # "safe"

\* The WHERE clauses of blast_radius.  A call site is found by its field alone, and only a
\* collection may leave the field open.
Matches(e, rep) ==
    IF rep # "field" THEN e.operation = "op"
    ELSE CASE e.source = "runtime"    -> e.operation = "op" /\ e.field = "f"
           [] e.source = "static"     -> e.field = "f"
           [] e.source = "collection" -> e.operation = "op" /\ e.field \in {"f", ""}

HasCollection(c) == \E e \in evidence : e.consumer = c /\ e.source = "collection"

KnownUsers(rep) ==
    {c \in Consumers : /\ c \in subscribed \/ HasCollection(c)
                       /\ \E e \in evidence : e.consumer = c /\ Matches(e, rep)}

Init ==
    /\ config \in Configs
    /\ evidence = {}
    /\ recorded = FALSE
    /\ subscribed = Subscribers
    /\ acks = [d \in Reports |-> "none"]
    /\ label = "never"
    /\ decisions = {}
    /\ comments = 0
    /\ hung = {}
    /\ events = 0
    /\ run = [r \in Runs |-> Idle]

-----------------------------------------------------------------------------
(* Calls *)

Answers(s) == s \notin hung

\* Mutant: no timeout, so that a call to a server that hangs never returns.
Fails_NoTimeout(s) == s \notin hung

\* Refused, answered with an error, or cut off after 30 s (build_client).
Fails(s) == s \in Servers

\* r leaves pc `from` with the fields of `new`.
Step(r, from, new) ==
    /\ run[r].pc = from
    /\ run' = [run EXCEPT ![r] = new]

-----------------------------------------------------------------------------
(* A run *)

\* The specs are read and compared, without any call.
Start(r, rep) ==
    /\ config.serial => \A q \in Runs : run[q].pc \in {"idle", "done"}
    /\ Step(r, "idle", [Idle EXCEPT !.pc = IF config.connected THEN "post" ELSE "label",
                                    !.report = rep, !.certain = KnownUsers(rep)])
    /\ UNCHANGED <<config, apiVars, ghVars, hung, events>>

PostDiff(r) ==
    /\ \/ /\ Answers("api")
          /\ Step(r, "post", [run[r] EXCEPT !.pc = "list", !.posted = TRUE])
       \/ /\ Fails("api")
          /\ Step(r, "post", [run[r] EXCEPT !.pc = "label", !.apiError = TRUE])
    /\ UNCHANGED <<config, apiVars, ghVars, hung, events>>

\* Mutant: consumers are found by their subscriptions only.
Listed_Subscribed(c) == c \in subscribed

\* The consumers blast_radius looks at.
Listed(c) == c \in subscribed \/ HasCollection(c)

ListConsumers(r) ==
    /\ Answers("api")
    /\ Step(r, "list", [run[r] EXCEPT !.pc = "radius", !.todo = {c \in Consumers : Listed(c)}])
    /\ UNCHANGED <<config, apiVars, ghVars, hung, events>>

\* One turn of the loop of blast_radius: what of the evidence of c is about the changes,
\* and the copy of it that goes to impact_evidence, collections excepted.
ReadConsumer(r, c) ==
    LET hits == {e \in evidence : e.consumer = c /\ Matches(e, run[r].report)} IN
    /\ Answers("api")
    /\ c \in run[r].todo
    /\ Step(r, "radius", [run[r] EXCEPT !.todo = @ \ {c}, !.affected = @ \/ hits # {}])
    /\ recorded' = (recorded \/ \E e \in hits : e.source # "collection")
    /\ UNCHANGED <<config, evidence, subscribed, acks, decisions, ghVars, hung, events>>

\* The response: no entries leaves the question whether that is an answer.
AnswerRadius(r) ==
    /\ Answers("api")
    /\ run[r].todo = {}
    /\ \/ /\ run[r].affected
          /\ Step(r, "radius", [run[r] EXCEPT !.pc = "label", !.consumers = "affected"])
       \/ /\ ~run[r].affected
          /\ Step(r, "radius", [run[r] EXCEPT !.pc = "coverage"])
    /\ UNCHANGED <<config, apiVars, ghVars, hung, events>>

FailRadius(r) ==
    /\ Fails("api")
    /\ \E from \in {"list", "radius"} :
         Step(r, from, [run[r] EXCEPT !.pc = "label", !.apiError = TRUE, !.todo = {},
                                      !.affected = FALSE])
    /\ UNCHANGED <<config, apiVars, ghVars, hung, events>>

\* GET /v1/evidence/coverage has rows: it counts impact_evidence, where usage events and
\* call sites are only once a blast radius has found them.
Covered == recorded \/ \E e \in evidence : e.source = "collection"

\* What a run takes for granted when the coverage cannot be read.
OnCoverageError == "unknown"

ReadCoverage(r) ==
    /\ \/ /\ Answers("api")
          /\ Step(r, "coverage", [run[r] EXCEPT !.pc = "label",
                       !.consumers = IF Covered THEN "none_affected" ELSE "unknown"])
       \/ /\ Fails("api")
          /\ Step(r, "coverage", [run[r] EXCEPT !.pc = "label", !.consumers = OnCoverageError])
    /\ UNCHANGED <<config, apiVars, ghVars, hung, events>>

\* pr_has_label, called when allow_override_with names a label; an error is a "no".
ReadLabel(r) ==
    /\ \/ /\ config.allow # "label"
          /\ Step(r, "label", [run[r] EXCEPT !.pc = "ack"])
       \/ /\ config.allow = "label"
          /\ Answers("github")
          /\ Step(r, "label", [run[r] EXCEPT !.pc = "ack", !.override = (label = "on")])
       \/ /\ config.allow = "label"
          /\ Fails("github")
          /\ Step(r, "label", [run[r] EXCEPT !.pc = "ack"])
    /\ UNCHANGED <<config, apiVars, ghVars, hung, events>>

-----------------------------------------------------------------------------
(* The decision *)

\* exit_code
ExitCode(rep, consumers, override) ==
    IF \/ override /\ config.allow # "none"
       \/ config.blockOn = "never"
       \/ ~Breaking(rep)
       \/ config.blockOn = "active_consumers" /\ consumers = "none_affected"
    THEN 0 ELSE 1

\* Without the API, fail_mode open takes every consumer for affected.
OpenExitCode(rep, consumers, override, apiError) ==
    ExitCode(rep, IF apiError THEN "affected" ELSE consumers, override)

\* The verdict of fail_mode closed on the wire: insufficient coverage is a block.
ClosedVerdict(code, override, apiError, consumers) ==
    CASE apiError                            -> "block"
      [] ~apiError /\ override /\ config.allow # "none" -> "overridden"
      [] OTHER -> IF code = 0 THEN "pass" ELSE "block"

\* decide
Decided(l) ==
    LET open == OpenExitCode(l.report, l.consumers, l.override, l.apiError)
        code == CASE config.failMode = "warn" -> 0
                  [] config.failMode = "open" -> open
                  [] OTHER -> IF l.apiError THEN 1
                              ELSE ExitCode(l.report, l.consumers, l.override)
    IN  [l EXCEPT !.exit = code,
                  !.verdict = IF config.failMode # "closed" THEN "warn"
                              ELSE ClosedVerdict(code, l.override, l.apiError, l.consumers),
                  !.pc = IF config.connected THEN "record" ELSE "find"]

\* Mutant: any acknowledgement of the service will do.
HasAck_AnyDiff(d) == \E x \in Reports : acks[x] = "active"

\* GET /v1/diffs/{d}/acknowledgements has entries.
HasAck(d) == acks[d] = "active"

\* check_diff_acknowledged: what it can return; a status of failure is a "no".
AckAnswers(d) ==
    {a \in BOOLEAN : (Answers("api") /\ a = HasAck(d)) \/ (Fails("api") /\ ~ a)}

\* Asked when there is a diff and no label; an error is a "no".  The decision follows
\* without another call.
ReadAckAndDecide(r) ==
    LET ask == run[r].posted /\ ~run[r].override IN
    /\ \/ /\ ~ask
          /\ Step(r, "ack", Decided(run[r]))
       \/ /\ ask
          /\ \E a \in AckAnswers(run[r].report) :
                Step(r, "ack", Decided([run[r] EXCEPT !.override = a]))
    /\ UNCHANGED <<config, apiVars, ghVars, hung, events>>

\* post_policy_decision: the body, without a diff when none was posted.
DecisionRow(l) == [report |-> IF l.posted THEN l.report ELSE "none", verdict |-> l.verdict]

\* create_policy_decision: a row for every request that names a verdict.
DecisionsWith(row) == IF row.verdict = "none" THEN decisions ELSE decisions \cup {row}

\* An error is a warning; the row may be there all the same.
RecordDecision(r) ==
    LET written == DecisionsWith(DecisionRow(run[r])) IN
    /\ Step(r, "record", [run[r] EXCEPT !.pc = "find"])
    /\ \/ Answers("api") /\ decisions' = written
       \/ Fails("api") /\ decisions' \in {decisions, written}
    /\ UNCHANGED <<config, evidence, recorded, subscribed, acks, ghVars, hung, events>>

-----------------------------------------------------------------------------
(* The comment *)

\* Mutant: the comments of the pull request are not looked at.
Existing_None == FALSE

\* find_existing_comment: the first with the marker, on whichever page.
Existing == comments > 0

FindComment(r) ==
    /\ \/ Answers("github") /\ Step(r, "find", [run[r] EXCEPT !.pc = "write", !.update = Existing])
       \/ Fails("github") /\ Step(r, "find", Gone)
    /\ UNCHANGED <<config, apiVars, ghVars, hung, events>>

\* post_or_update_comment; the request may have been carried out when it fails.
WriteComment(r) ==
    LET written == IF run[r].update THEN comments ELSE comments + 1 IN
    /\ Step(r, "write", Gone)
    /\ \/ Answers("github") /\ comments' = written
       \/ Fails("github") /\ comments' \in {comments, written}
    /\ UNCHANGED <<config, apiVars, label, hung, events>>

RunStep(r) ==
    \/ PostDiff(r)
    \/ ListConsumers(r)
    \/ \E c \in Consumers : ReadConsumer(r, c)
    \/ AnswerRadius(r)
    \/ FailRadius(r)
    \/ ReadCoverage(r)
    \/ ReadLabel(r)
    \/ ReadAckAndDecide(r)
    \/ RecordDecision(r)
    \/ FindComment(r)
    \/ WriteComment(r)

-----------------------------------------------------------------------------
(* Everybody else *)

Event ==
    /\ events < MaxEvents
    /\ events' = events + 1
    /\ UNCHANGED <<config, recorded, decisions, comments>>

\* usage-events, OTLP traces and gateway logs; call-sites; evidence/collection.  A row
\* that is there already is refreshed or left alone.
Ingest(e) ==
    /\ Event
    /\ evidence' = evidence \cup {e}
    /\ UNCHANGED <<subscribed, acks, label, hung, run>>

\* A usage event is more than 30 days old; call sites and collections do not age.
Age(e) ==
    LET left == evidence \ {e} IN
    /\ Event
    /\ e \in evidence /\ e.source = "runtime"
    /\ evidence' = left
    /\ run' = [r \in Runs |-> [run[r] EXCEPT !.certain =
                 {c \in @ : \E x \in left : x.consumer = c /\ Matches(x, run[r].report)}]]
    /\ UNCHANGED <<subscribed, acks, label, hung>>

Subscribe(c) ==
    /\ Event
    /\ subscribed' = subscribed \cup {c}
    /\ UNCHANGED <<evidence, acks, label, hung, run>>

\* The diff of a report may be on file before a run posts it: compare and other pull
\* requests make the same one.
Acknowledge(d) ==
    /\ Event
    /\ acks' = [acks EXCEPT ![d] = "active"]
    /\ UNCHANGED <<evidence, subscribed, label, hung, run>>

\* expires_at has passed.
ExpireAck(d) ==
    /\ Event
    /\ acks[d] = "active"
    /\ acks' = [acks EXCEPT ![d] = "expired"]
    /\ UNCHANGED <<evidence, subscribed, label, hung, run>>

Relabel ==
    /\ Event
    /\ label' = IF label = "on" THEN "off" ELSE "on"
    /\ UNCHANGED <<evidence, subscribed, acks, hung, run>>

Hang(s) ==
    /\ Event
    /\ hung' = hung \cup {s}
    /\ UNCHANGED <<evidence, subscribed, acks, label, run>>

Next ==
    \/ \E r \in Runs : RunStep(r) \/ \E rep \in Reports : Start(r, rep)
    \/ \E e \in Evidence : Ingest(e) \/ Age(e)
    \/ \E c \in Consumers : Subscribe(c)
    \/ \E d \in Reports : Acknowledge(d) \/ ExpireAck(d)
    \/ Relabel
    \/ \E s \in Servers : Hang(s)

Spec == Init /\ [][Next]_vars

\* A job that has begun goes on: what it calls answers, or the call times out.
FairSpec == Spec /\ \A r \in Runs : WF_vars(RunStep(r))

-----------------------------------------------------------------------------
(* Properties *)

RunRecords ==
    [pc : {"idle", "post", "list", "radius", "coverage", "label", "ack", "record", "find",
           "write", "done"},
     report : Reports, posted : BOOLEAN, apiError : BOOLEAN, todo : SUBSET Consumers,
     affected : BOOLEAN, consumers : {"affected", "none_affected", "unknown"},
     override : BOOLEAN, verdict : Verdicts \cup {"none"}, exit : {0, 1}, update : BOOLEAN,
     certain : SUBSET Consumers]

\* The values the tables and the local state of the runs have; the verdicts that reach
\* policy_decision are the four its readers know (policy.rs wire_str).
TypeOK ==
    /\ config \in AllConfigs
    /\ evidence \subseteq EvidenceRows
    /\ recorded \in BOOLEAN
    /\ subscribed \subseteq Consumers
    /\ acks \in [Reports -> {"none", "active", "expired"}]
    /\ label \in {"never", "on", "off"}
    /\ decisions \subseteq [report : Reports \cup {"none"}, verdict : Verdicts]
    /\ comments \in Nat
    /\ hung \subseteq Servers
    /\ events \in 0..MaxEvents
    /\ run \in [Runs -> RunRecords]

HasDecided(r) == run[r].verdict # "none"
Overridden(r) == run[r].override /\ config.allow # "none"
Enforced      == config.blockOn # "never" /\ config.failMode # "warn"

\* r lets a breaking change through where the policy is meant to stop one.
GreenOnBreak(r) ==
    /\ HasDecided(r)
    /\ run[r].exit = 0
    /\ Breaking(run[r].report)
    /\ Enforced
    /\ ~Overridden(r)

\* However calls fail and whatever arrives meanwhile, a run that is enforced and not
\* overridden never passes a breaking change while the database named, from its first
\* step on, a consumer that uses the changed surface.
AffectedConsumersBlock == \A r \in Runs : GreenOnBreak(r) => run[r].certain = {}

\* Such a pass needs the narrow policy and evidence on file for the service: silence of a
\* service nobody instrumented, or of an API that failed, is never read as safety.
EmptinessIsInformed ==
    \A r \in Runs : GreenOnBreak(r) => config.blockOn = "active_consumers" /\ Covered

\* A decision on record as overridden was allowed by the configuration, and somebody had
\* labelled the pull request or acknowledged this very diff, not one of an earlier push.
OverridesAreBacked ==
    \A row \in decisions : row.verdict = "overridden" =>
        /\ config.allow # "none"
        /\ \/ config.allow = "label" /\ label # "never"
           \/ row.report # "none" /\ acks[row.report] # "none"

\* A build without a breaking change fails only when the API failed under fail_mode closed.
NoFalseBlock ==
    \A r \in Runs : run[r].exit = 1 =>
        Breaking(run[r].report) \/ (config.failMode = "closed" /\ run[r].apiError)

\* Every verdict has its reason: a pass its evidence, an override its author, a block
\* its break.
VerdictsAreJustified == TypeOK /\ EmptinessIsInformed /\ OverridesAreBacked /\ NoFalseBlock

\* When the runs of a pull request take turns it has at most one comment of Radar's, also
\* after requests that failed or were carried out unanswered.
OneCommentWhenSerial == config.serial => comments <= 1

\* A run that has begun ends, though a server hangs for good.
RunsEnd == \A r \in Runs : run[r].pc # "idle" ~> run[r].pc = "done"

\* docs/policy-reference.md: acknowledgements take effect on the next run without the label.
AcknowledgedRunIsNotBlocked ==
    \A r \in Runs : run[r].override /\ HasDecided(r) /\ ~run[r].apiError => run[r].exit = 0
=============================================================================
