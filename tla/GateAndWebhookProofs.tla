------------------------ MODULE GateAndWebhookProofs ------------------------
(***************************************************************************)
(* Proofs about the two that act on a stored diff, each a specification of *)
(* its own: the policy gate, for any number of runs and any evidence and   *)
(* configuration, and the webhooks, for every set of webhooks and events   *)
(* and every number of attempts, crashes and failed statements.            *)
(*                                                                         *)
(* The gate: RunInv says of one run what its local state has to do with    *)
(* the tables; what the tables forget, only Age forgets, so every other    *)
(* step of somebody else keeps it (Kept).  The webhooks: IInv adds to what *)
(* was sent what may still be sent.                                        *)
(***************************************************************************)
EXTENDS PolicyGate, WebhookDelivery, TLAPS

-----------------------------------------------------------------------------
(* The policy gate.                                                        *)

Undecided == {"idle", "post", "list", "radius", "coverage", "label", "ack"}

\* What the local state l of a run has to do with the tables.
Consistent(l) ==
    /\ l.certain \subseteq KnownUsers(l.report)
    /\ l.pc = "radius" => l.affected \/ l.certain \subseteq l.todo
    /\ l.pc = "coverage" => l.certain = {}
    /\ l.consumers = "none_affected" => l.certain = {} /\ Covered
    /\ l.pc \in Undecided => l.verdict = "none" /\ l.exit = 0
    /\ l.pc \in {"record", "find", "write"} => l.verdict # "none"
    /\ l.override => \/ config.allow = "label" /\ label # "never"
                     \/ l.posted /\ acks[l.report] # "none"

\* What has been decided follows from what the run has read.
Justified(l) ==
    /\ l.verdict # "none" /\ l.exit = 0 /\ Breaking(l.report) /\ Enforced
         => \/ l.override /\ config.allow # "none"
            \/ config.blockOn = "active_consumers" /\ l.consumers = "none_affected"
    /\ l.verdict = "overridden" => l.override /\ config.allow # "none"
    /\ l.exit = 1 => Breaking(l.report) \/ (config.failMode = "closed" /\ l.apiError)

RunInv(r) == Consistent(run[r]) /\ Justified(run[r])

GateInv == TypeOK /\ (\A r \in Runs : RunInv(r)) /\ OverridesAreBacked

\* The tables have lost nothing.
Grows ==
    /\ config' = config
    /\ evidence \subseteq evidence'
    /\ subscribed \subseteq subscribed'
    /\ recorded => recorded'
    /\ label # "never" => label' # "never"
    /\ \A d \in Reports : acks[d] # "none" => acks'[d] # "none"

-----------------------------------------------------------------------------
(* The type invariant *)

\* What decide returns is a run record again, with a verdict policy_decision knows.
LEMMA DecidedType ==
    ASSUME NEW l \in RunRecords, config \in AllConfigs
    PROVE  Decided(l) \in RunRecords
<1>1. ExitCode(l.report, l.consumers, l.override) \in {0, 1}
  BY DEF ExitCode
<1>2. OpenExitCode(l.report, l.consumers, l.override, l.apiError) \in {0, 1}
  BY DEF OpenExitCode, ExitCode
<1>3. \A code : ClosedVerdict(code, l.override, l.apiError, l.consumers) \in Verdicts
  BY DEF ClosedVerdict, Verdicts, RunRecords
<1> QED BY <1>1, <1>2, <1>3 DEF Decided, RunRecords, Verdicts

\* A step of r that ends in a run record keeps the types of the runs.
LEMMA MoveType ==
    ASSUME run \in [Runs -> RunRecords], NEW r \in Runs, NEW from, NEW new \in RunRecords,
           Step(r, from, new)
    PROVE  run' \in [Runs -> RunRecords]
BY DEF Step

\* Every step of r leaves a run record.
LEMMA RunTypes ==
    ASSUME TypeOK, NEW r \in Runs, RunStep(r)
    PROVE  run' \in [Runs -> RunRecords]
<1> DEFINE l == run[r]
<1>1. run \in [Runs -> RunRecords] /\ l \in RunRecords /\ config \in AllConfigs
  BY DEF TypeOK
<1> HIDE DEF l
<1>2. CASE PostDiff(r)
  <2>1. /\ [l EXCEPT !.pc = "list", !.posted = TRUE] \in RunRecords
        /\ [l EXCEPT !.pc = "label", !.apiError = TRUE] \in RunRecords
    BY <1>1 DEF RunRecords
  <2> QED BY <1>1, <1>2, <2>1, MoveType DEF PostDiff, l
<1>3. CASE ListConsumers(r)
  <2>1. [l EXCEPT !.pc = "radius", !.todo = {c \in Consumers : Listed(c)}] \in RunRecords
    BY <1>1 DEF RunRecords
  <2> QED BY <1>1, <1>3, <2>1, MoveType DEF ListConsumers, l
<1>4. ASSUME NEW c \in Consumers, ReadConsumer(r, c) PROVE run' \in [Runs -> RunRecords]
  <2>1. \A hit \in BOOLEAN :
          [l EXCEPT !.todo = @ \ {c}, !.affected = @ \/ hit] \in RunRecords
    BY <1>1 DEF RunRecords
  <2> QED BY <1>1, <1>4, <2>1, MoveType DEF ReadConsumer, l
<1>5. CASE AnswerRadius(r)
  <2>1. /\ [l EXCEPT !.pc = "label", !.consumers = "affected"] \in RunRecords
        /\ [l EXCEPT !.pc = "coverage"] \in RunRecords
    BY <1>1 DEF RunRecords
  <2> QED BY <1>1, <1>5, <2>1, MoveType DEF AnswerRadius, l
<1>6. CASE FailRadius(r)
  <2>1. [l EXCEPT !.pc = "label", !.apiError = TRUE, !.todo = {}, !.affected = FALSE]
          \in RunRecords
    BY <1>1 DEF RunRecords
  <2> QED BY <1>1, <1>6, <2>1, MoveType DEF FailRadius, l
<1>7. CASE ReadCoverage(r)
  <2>1. \A a \in {"none_affected", "unknown"} :
          [l EXCEPT !.pc = "label", !.consumers = a] \in RunRecords
    BY <1>1 DEF RunRecords
  <2> QED BY <1>1, <1>7, <2>1, MoveType DEF ReadCoverage, OnCoverageError, l
<1>8. CASE ReadLabel(r)
  <2>1. [l EXCEPT !.pc = "ack"] \in RunRecords
    BY <1>1 DEF RunRecords
  <2>2. [l EXCEPT !.pc = "ack", !.override = (label = "on")] \in RunRecords
    BY <1>1 DEF RunRecords
  <2> QED BY <1>1, <1>8, <2>1, <2>2, MoveType DEF ReadLabel, l
<1>9. CASE ReadAckAndDecide(r)
  <2>1. \A a \in BOOLEAN : [l EXCEPT !.override = a] \in RunRecords
    BY <1>1 DEF RunRecords
  <2>2. /\ Decided(l) \in RunRecords
        /\ \A a \in AckAnswers(l.report) : Decided([l EXCEPT !.override = a]) \in RunRecords
    BY <1>1, <2>1, DecidedType DEF AckAnswers
  <2> QED BY <1>1, <1>9, <2>2, MoveType DEF ReadAckAndDecide, l
<1>10. CASE RecordDecision(r)
  <2>1. [l EXCEPT !.pc = "find"] \in RunRecords
    BY <1>1 DEF RunRecords
  <2> QED BY <1>1, <1>10, <2>1, MoveType DEF RecordDecision, l
<1>11. Gone \in RunRecords
  BY DEF Gone, Idle, RunRecords, Reports
<1>12. CASE FindComment(r)
  <2>0. Existing \in BOOLEAN
    BY DEF Existing
  <2>1. [l EXCEPT !.pc = "write", !.update = Existing] \in RunRecords
    BY <1>1, <2>0 DEF RunRecords
  <2> QED BY <1>1, <1>11, <1>12, <2>1, MoveType DEF FindComment, l
<1>13. CASE WriteComment(r)
  BY <1>1, <1>11, <1>13, MoveType DEF WriteComment, l
<1> QED
  BY <1>2, <1>3, <1>4, <1>5, <1>6, <1>7, <1>8, <1>9, <1>10, <1>12, <1>13 DEF RunStep

\* The same for the first step of r, and for what a row that ages leaves of the runs.
LEMMA StartType ==
    ASSUME TypeOK, NEW r \in Runs, NEW rep \in Reports, Start(r, rep)
    PROVE  run' \in [Runs -> RunRecords]
<1>1. [Idle EXCEPT !.pc = IF config.connected THEN "post" ELSE "label",
                   !.report = rep, !.certain = KnownUsers(rep)] \in RunRecords
  BY DEF Idle, RunRecords, KnownUsers, Reports
<1> QED BY <1>1, MoveType DEF Start, TypeOK

LEMMA AgeType ==
    ASSUME TypeOK, NEW e \in Evidence, Age(e)
    PROVE  run' \in [Runs -> RunRecords]
<1>1. ASSUME NEW l \in RunRecords, NEW S \in SUBSET l.certain
      PROVE  [l EXCEPT !.certain = S] \in RunRecords
  BY <1>1 DEF RunRecords
<1>2. ASSUME NEW r \in Runs
      PROVE  [run[r] EXCEPT !.certain =
                {c \in @ : \E x \in evidence \ {e} : x.consumer = c /\ Matches(x, run[r].report)}]
               \in RunRecords
  BY <1>1 DEF TypeOK
<1> QED BY <1>2 DEF Age

\* Every step keeps the types of the tables too; the decision on record is a verdict because
\* a run records nothing before it has decided.
LEMMA TypeStep == GateInv /\ [Next]_vars => TypeOK'
<1> SUFFICES ASSUME GateInv, [Next]_vars PROVE TypeOK'
  OBVIOUS
<1>0. TypeOK
  BY DEF GateInv
<1>1. ASSUME NEW r \in Runs, NEW rep \in Reports, Start(r, rep) PROVE TypeOK'
  <2>1. run' \in [Runs -> RunRecords]
    BY <1>0, <1>1, StartType
  <2> QED BY <1>0, <1>1, <2>1 DEF Start, TypeOK, apiVars, ghVars
<1>2. ASSUME NEW r \in Runs, RunStep(r) PROVE TypeOK'
  <2>1. run' \in [Runs -> RunRecords]
    BY <1>0, <1>2, RunTypes
  <2> USE DEF TypeOK, apiVars, ghVars
  <2>2. CASE PostDiff(r) \/ ListConsumers(r) \/ AnswerRadius(r) \/ FailRadius(r)
               \/ ReadCoverage(r) \/ ReadLabel(r) \/ ReadAckAndDecide(r) \/ FindComment(r)
    BY <1>0, <2>1, <2>2 DEF PostDiff, ListConsumers, AnswerRadius, FailRadius,
         ReadCoverage, ReadLabel, ReadAckAndDecide, FindComment
  <2>3. ASSUME NEW c \in Consumers, ReadConsumer(r, c) PROVE TypeOK'
    BY <1>0, <2>1, <2>3 DEF ReadConsumer
  <2>4. CASE RecordDecision(r)
    <3>1. run[r].pc = "record" => run[r].verdict # "none"
      BY DEF GateInv, RunInv, Consistent
    <3>2. run[r].verdict \in Verdicts \cup {"none"} /\ run[r].report \in Reports
      BY <1>0 DEF RunRecords
    <3>3. DecisionRow(run[r]) \in [report : Reports \cup {"none"}, verdict : Verdicts]
      BY <3>1, <3>2, <2>4 DEF RecordDecision, Step, DecisionRow
    <3> QED BY <1>0, <2>1, <2>4, <3>3 DEF RecordDecision, DecisionsWith
  <2>5. CASE WriteComment(r)
    BY <1>0, <2>1, <2>5 DEF WriteComment
  <2> QED BY <1>2, <2>2, <2>3, <2>4, <2>5 DEF RunStep
<1>3. ASSUME NEW e \in Evidence, Age(e) PROVE TypeOK'
  <2>1. run' \in [Runs -> RunRecords]
    BY <1>0, <1>3, AgeType
  <2> QED BY <1>0, <1>3, <2>1, MaxEventsAssumption DEF Age, Event, TypeOK
<1>4. ASSUME NEW e \in Evidence, Ingest(e) PROVE TypeOK'
  BY <1>0, <1>4, EvidenceAssumption, MaxEventsAssumption DEF Ingest, Event, TypeOK
<1>5. ASSUME NEW c \in Consumers, Subscribe(c) PROVE TypeOK'
  BY <1>0, <1>5, MaxEventsAssumption DEF Subscribe, Event, TypeOK
<1>6. ASSUME NEW d \in Reports, Acknowledge(d) \/ ExpireAck(d) PROVE TypeOK'
  BY <1>0, <1>6, MaxEventsAssumption DEF Acknowledge, ExpireAck, Event, TypeOK
<1>7. CASE Relabel
  BY <1>0, <1>7, MaxEventsAssumption DEF Relabel, Event, TypeOK
<1>8. ASSUME NEW x \in Servers, Hang(x) PROVE TypeOK'
  BY <1>0, <1>8, MaxEventsAssumption DEF Hang, Event, TypeOK
<1>9. CASE UNCHANGED vars
  BY <1>0, <1>9 DEF vars, apiVars, ghVars, TypeOK
<1> QED BY <1>1, <1>2, <1>3, <1>4, <1>5, <1>6, <1>7, <1>8, <1>9 DEF Next

-----------------------------------------------------------------------------
(* The invariant of a run *)

\* Tables that only grow leave a run that does not move consistent with them.
LEMMA Kept ==
    ASSUME Grows, NEW l \in RunRecords, Consistent(l)
    PROVE  Consistent(l)'
<1>1. l.report \in Reports
  BY DEF RunRecords
<1>2. KnownUsers(l.report) \subseteq KnownUsers(l.report)'
  <2>1. \A e, rep : Matches(e, rep)' = Matches(e, rep)
    BY DEF Matches
  <2> QED BY <2>1 DEF KnownUsers, HasCollection, Grows
<1>3. Covered => Covered'
  BY DEF Covered, Grows
<1> QED BY <1>1, <1>2, <1>3 DEF Consistent, Grows

\* Only the configuration matters to what has been decided.
LEMMA KeptJustified ==
    ASSUME config' = config, NEW l, Justified(l)
    PROVE  Justified(l)'
BY DEF Justified, Enforced, Breaking

\* decide: no verdict and exit code but those that what the run has read justifies.
LEMMA DecideKeeps ==
    ASSUME config \in AllConfigs, NEW l \in RunRecords, Consistent(l), l.pc = "ack"
    PROVE  Consistent(Decided(l)) /\ Justified(Decided(l))
<1> DEFINE code == ExitCode(l.report, l.consumers, l.override)
           open == OpenExitCode(l.report, l.consumers, l.override, l.apiError)
           d == Decided(l)
<1>1. /\ d.certain = l.certain /\ d.report = l.report /\ d.consumers = l.consumers
      /\ d.override = l.override /\ d.posted = l.posted /\ d.apiError = l.apiError
      /\ d.pc \in {"record", "find"}
  BY DEF Decided, RunRecords
<1>2. /\ config.failMode = "warn" => d.exit = 0
      /\ config.failMode = "open" => d.exit = open
      /\ config.failMode = "closed" => d.exit = IF l.apiError THEN 1 ELSE code
  BY DEF Decided, RunRecords
<1>3. /\ config.failMode # "closed" => d.verdict = "warn"
      /\ config.failMode = "closed" =>
            d.verdict = ClosedVerdict(d.exit, l.override, l.apiError, l.consumers)
  BY DEF Decided, RunRecords
<1> HIDE DEF d
<1>4. /\ d.verdict # "none"
      /\ d.verdict = "overridden" => l.override /\ config.allow # "none"
  BY <1>3 DEF ClosedVerdict
<1>5. Consistent(d)
  BY <1>1, <1>4 DEF Consistent, Undecided
<1>6. /\ code = 0 /\ Breaking(l.report) /\ config.blockOn # "never"
           => \/ l.override /\ config.allow # "none"
              \/ config.blockOn = "active_consumers" /\ l.consumers = "none_affected"
      /\ code = 1 => Breaking(l.report)
      /\ open = 1 => Breaking(l.report)
      /\ open = 0 => code = 0
  BY DEF ExitCode, OpenExitCode
<1>7. config.failMode \in {"warn", "open", "closed"}
  BY DEF AllConfigs
<1>8. Justified(d)
  BY <1>1, <1>2, <1>4, <1>6, <1>7 DEF Justified, Enforced
<1> QED BY <1>5, <1>8 DEF d

\* A call of r reads the tables into a run that fits them.
LEMMA Moved ==
    ASSUME GateInv, NEW r \in Runs, RunStep(r)
    PROVE  /\ Consistent(run'[r]) /\ Justified(run'[r])
           /\ \A q \in Runs \ {r} : run'[q] = run[q]
           /\ Grows
<1> DEFINE l == run[r]
           Good(x) == Consistent(x) /\ Justified(x)
           Goal == Good(run'[r]) /\ (\A q \in Runs \ {r} : run'[q] = run[q]) /\ Grows
<1>0. TypeOK /\ run \in [Runs -> RunRecords] /\ l \in RunRecords /\ Good(l)
  BY DEF GateInv, TypeOK, RunInv
<1>1. \A from, new : Step(r, from, new) =>
         l.pc = from /\ run'[r] = new /\ \A q \in Runs \ {r} : run'[q] = run[q]
  BY <1>0 DEF Step
<1> HIDE DEF l
<1>2. CASE PostDiff(r)
  <2>1. l.pc = "post" => /\ Good([l EXCEPT !.pc = "list", !.posted = TRUE])
                         /\ Good([l EXCEPT !.pc = "label", !.apiError = TRUE])
    BY <1>0 DEF Consistent, Justified, Undecided, RunRecords
  <2>2. Grows
    BY <1>2 DEF PostDiff, Grows, apiVars, ghVars
  <2> QED BY <1>1, <1>2, <2>1, <2>2 DEF PostDiff, l
<1>3. CASE ListConsumers(r)
  <2>1. KnownUsers(l.report) \subseteq {c \in Consumers : Listed(c)}
    BY DEF KnownUsers, Listed
  <2>2. l.pc = "list" => Good([l EXCEPT !.pc = "radius", !.todo = {c \in Consumers : Listed(c)}])
    BY <1>0, <2>1 DEF Consistent, Justified, Undecided, RunRecords
  <2>3. Grows
    BY <1>3 DEF ListConsumers, Grows, apiVars, ghVars
  <2> QED BY <1>1, <1>3, <2>2, <2>3 DEF ListConsumers, l
<1>4. ASSUME NEW c \in Consumers, ReadConsumer(r, c) PROVE Goal
  <2> DEFINE hits == {e \in evidence : e.consumer = c /\ Matches(e, l.report)}
             new == [l EXCEPT !.todo = @ \ {c}, !.affected = @ \/ hits # {}]
  <2>1. c \in KnownUsers(l.report) => hits # {}
    BY DEF KnownUsers
  <2> HIDE DEF hits
  <2>2. l.pc = "radius" => Good(new)
    BY <1>0, <2>1 DEF Consistent, Justified, Undecided, RunRecords
  <2>3. Grows
    BY <1>4 DEF ReadConsumer, Grows, ghVars
  <2> QED BY <1>1, <1>4, <2>2, <2>3 DEF ReadConsumer, l, hits
<1>5. CASE AnswerRadius(r)
  <2>1. l.pc = "radius" => Good([l EXCEPT !.pc = "label", !.consumers = "affected"])
    BY <1>0 DEF Consistent, Justified, Undecided, RunRecords
  <2>2. l.pc = "radius" /\ l.todo = {} /\ ~l.affected => Good([l EXCEPT !.pc = "coverage"])
    BY <1>0 DEF Consistent, Justified, Undecided, RunRecords
  <2>3. Grows
    BY <1>5 DEF AnswerRadius, Grows, apiVars, ghVars
  <2> QED BY <1>1, <1>5, <2>1, <2>2, <2>3 DEF AnswerRadius, l
<1>6. CASE FailRadius(r)
  <2>1. l.pc \in {"list", "radius"} =>
          Good([l EXCEPT !.pc = "label", !.apiError = TRUE, !.todo = {}, !.affected = FALSE])
    BY <1>0 DEF Consistent, Justified, Undecided, RunRecords
  <2>2. Grows
    BY <1>6 DEF FailRadius, Grows, apiVars, ghVars
  <2> QED BY <1>1, <1>6, <2>1, <2>2 DEF FailRadius, l
<1>7. CASE ReadCoverage(r)
  <2>1. l.pc = "coverage" => Good([l EXCEPT !.pc = "label", !.consumers = "unknown"])
    BY <1>0 DEF Consistent, Justified, Undecided, RunRecords
  <2>2. l.pc = "coverage" /\ Covered =>
          Good([l EXCEPT !.pc = "label", !.consumers = "none_affected"])
    BY <1>0 DEF Consistent, Justified, Undecided, RunRecords
  <2>3. Grows
    BY <1>7 DEF ReadCoverage, Grows, apiVars, ghVars
  <2> QED BY <1>1, <1>7, <2>1, <2>2, <2>3 DEF ReadCoverage, OnCoverageError, l
<1>8. CASE ReadLabel(r)
  <2>1. l.pc = "label" => Good([l EXCEPT !.pc = "ack"])
    BY <1>0 DEF Consistent, Justified, Undecided, RunRecords
  <2>2. l.pc = "label" /\ config.allow = "label" =>
          Good([l EXCEPT !.pc = "ack", !.override = (label = "on")])
    BY <1>0 DEF Consistent, Justified, Undecided, RunRecords
  <2>3. Grows
    BY <1>8 DEF ReadLabel, Grows, apiVars, ghVars
  <2> QED BY <1>1, <1>8, <2>1, <2>2, <2>3 DEF ReadLabel, l
<1>9. CASE ReadAckAndDecide(r)
  <2>1. ASSUME NEW x \in RunRecords, Consistent(x), x.pc = "ack" PROVE Good(Decided(x))
    BY <1>0, <2>1, DecideKeeps DEF TypeOK
  <2>2. l.pc = "ack" /\ l.posted /\ ~l.override =>
          \A a \in AckAnswers(l.report) : Consistent([l EXCEPT !.override = a])
    BY <1>0 DEF Consistent, Undecided, AckAnswers, HasAck, RunRecords
  <2>3. \A a \in AckAnswers(l.report) : [l EXCEPT !.override = a] \in RunRecords
    BY <1>0 DEF RunRecords, AckAnswers
  <2>4. \A a : l.pc = [l EXCEPT !.override = a].pc
    BY <1>0 DEF RunRecords
  <2>5. Grows
    BY <1>9 DEF ReadAckAndDecide, Grows, apiVars, ghVars
  <2> QED BY <1>0, <1>1, <1>9, <2>1, <2>2, <2>3, <2>4, <2>5 DEF ReadAckAndDecide, l
<1>10. CASE RecordDecision(r)
  <2>1. l.pc = "record" => Good([l EXCEPT !.pc = "find"])
    BY <1>0 DEF Consistent, Justified, Undecided, RunRecords
  <2>2. Grows
    BY <1>10 DEF RecordDecision, Grows, ghVars
  <2> QED BY <1>1, <1>10, <2>1, <2>2 DEF RecordDecision, l
<1>11. Good(Gone)
  BY DEF Gone, Idle, Consistent, Justified, Undecided
<1>12. CASE FindComment(r)
  <2>1. l.pc = "find" => Good([l EXCEPT !.pc = "write", !.update = Existing])
    BY <1>0 DEF Consistent, Justified, Undecided, RunRecords
  <2>2. Grows
    BY <1>12 DEF FindComment, Grows, apiVars, ghVars
  <2> QED BY <1>1, <1>11, <1>12, <2>1, <2>2 DEF FindComment, l
<1>13. CASE WriteComment(r)
  <2>1. Grows
    BY <1>13 DEF WriteComment, Grows, apiVars
  <2> QED BY <1>1, <1>11, <1>13, <2>1 DEF WriteComment
<1> QED
  BY <1>2, <1>3, <1>4, <1>5, <1>6, <1>7, <1>8, <1>9, <1>10, <1>12, <1>13 DEF RunStep

\* The first step of r fits the tables: what it may count on later is what is there now.
LEMMA Started ==
    ASSUME GateInv, NEW r \in Runs, NEW rep \in Reports, Start(r, rep)
    PROVE  /\ Consistent(run'[r]) /\ Justified(run'[r])
           /\ \A q \in Runs \ {r} : run'[q] = run[q]
           /\ Grows
<1> DEFINE new == [Idle EXCEPT !.pc = IF config.connected THEN "post" ELSE "label",
                               !.report = rep, !.certain = KnownUsers(rep)]
<1>1. Consistent(new) /\ Justified(new)
  BY DEF Idle, Consistent, Justified, Undecided
<1>2. run'[r] = new /\ \A q \in Runs \ {r} : run'[q] = run[q]
  BY DEF Start, Step, GateInv, TypeOK
<1>3. Grows
  BY DEF Start, Grows, apiVars, ghVars
<1> QED BY <1>1, <1>2, <1>3

\* If no table loses anything, runs that fit the tables before the step fit them after it.
LEMMA AllKept ==
    ASSUME GateInv, TypeOK', Grows,
           \A r \in Runs : Consistent(run'[r]) /\ Justified(run'[r])
    PROVE  (\A r \in Runs : RunInv(r))'
<1>1. ASSUME NEW r \in Runs PROVE RunInv(r)'
  <2>1. PICK l \in RunRecords : l = run'[r]
    BY DEF TypeOK
  <2>2. Consistent(l)' /\ Justified(l)'
    BY <2>1, Kept, KeptJustified DEF Grows
  <2> QED BY <2>1, <2>2 DEF RunInv
<1> QED BY <1>1

\* A usage event that leaves the window is forgotten by `certain` too, and it is no coverage.
LEMMA AgeKeeps ==
    ASSUME GateInv, TypeOK', NEW e \in Evidence, Age(e)
    PROVE  (\A r \in Runs : RunInv(r))'
<1> DEFINE Left(S, rep) ==
             {c \in S : \E x \in evidence \ {e} : x.consumer = c /\ Matches(x, rep)}
<1>1. ASSUME NEW r \in Runs PROVE RunInv(r)'
  <2>1. PICK l \in RunRecords : l = run[r]
    BY DEF GateInv, TypeOK
  <2>2. PICK m \in RunRecords : m = run'[r]
    BY DEF TypeOK
  <2>3. m = [l EXCEPT !.certain = Left(l.certain, l.report)]
    BY <2>1, <2>2 DEF Age
  <2>4. Consistent(l) /\ Justified(l)
    BY <2>1 DEF GateInv, RunInv
  <2>5. /\ config' = config /\ subscribed' = subscribed /\ recorded' = recorded
        /\ label' = label /\ acks' = acks /\ evidence' = evidence \ {e}
        /\ e.source = "runtime"
    BY DEF Age, Event
  <2>6. \A c : HasCollection(c) => HasCollection(c)'
    BY <2>5 DEF HasCollection
  <2>7. Left(KnownUsers(l.report), l.report) \subseteq KnownUsers(l.report)'
    <3>1. \A x, rep : Matches(x, rep)' = Matches(x, rep)
      BY DEF Matches
    <3> QED BY <2>5, <2>6, <3>1 DEF KnownUsers
  <2>8. Covered => Covered'
    BY <2>5 DEF Covered
  <2>9. /\ m.certain = Left(l.certain, l.report)
        /\ m.pc = l.pc /\ m.affected = l.affected /\ m.todo = l.todo
        /\ m.consumers = l.consumers /\ m.verdict = l.verdict /\ m.exit = l.exit
        /\ m.override = l.override /\ m.posted = l.posted /\ m.report = l.report
        /\ m.apiError = l.apiError
    BY <2>3 DEF RunRecords
  <2>10. Left(l.certain, l.report) \subseteq Left(KnownUsers(l.report), l.report)
    BY <2>4 DEF Consistent
  <2> HIDE DEF Left
  <2>11. Left(l.certain, l.report) \subseteq l.certain
    BY DEF Left
  <2>12. Consistent(m)'
    BY <2>4, <2>5, <2>7, <2>8, <2>9, <2>10, <2>11 DEF Consistent
  <2>13. Justified(m)'
    BY <2>4, <2>5, <2>9 DEF Justified, Enforced, Breaking
  <2> QED BY <2>2, <2>12, <2>13 DEF RunInv
<1> QED BY <1>1

\* Decisions on record stay backed: only a run that has the verdict and its ground adds one.
LEMMA OverridesKept ==
    ASSUME GateInv, Grows,
           \/ decisions' = decisions
           \/ \E r \in Runs : RecordDecision(r)
    PROVE  OverridesAreBacked'
<1>1. CASE decisions' = decisions
  <2>1. \A entry \in decisions : entry.report \in Reports \cup {"none"}
    BY DEF GateInv, TypeOK
  <2> QED BY <1>1, <2>1 DEF GateInv, OverridesAreBacked, Grows
<1>2. ASSUME NEW r \in Runs, RecordDecision(r) PROVE OverridesAreBacked'
  <2> DEFINE entry == DecisionRow(run[r])
  <2>1. decisions' \subseteq decisions \cup {entry}
    BY <1>2 DEF RecordDecision, DecisionsWith
  <2>2. run[r].report \in Reports /\ Consistent(run[r]) /\ Justified(run[r])
    BY DEF GateInv, TypeOK, RunInv, RunRecords
  <2>3. entry.verdict = "overridden" =>
          /\ config.allow # "none"
          /\ \/ config.allow = "label" /\ label # "never"
             \/ entry.report # "none" /\ acks[entry.report] # "none"
    BY <2>2 DEF DecisionRow, Consistent, Justified, Reports
  <2>4. \A x \in decisions \cup {entry} : x.report \in Reports \cup {"none"}
    BY <2>2 DEF DecisionRow, GateInv, TypeOK
  <2> HIDE DEF entry
  <2> QED BY <2>1, <2>3, <2>4 DEF GateInv, OverridesAreBacked, Grows
<1> QED BY <1>1, <1>2

\* GateInv is inductive.
LEMMA GateStep == GateInv /\ [Next]_vars => GateInv'
<1> SUFFICES ASSUME GateInv, [Next]_vars PROVE GateInv'
  OBVIOUS
<1>1. TypeOK'
  BY TypeStep
<1>2. \A r \in Runs : Consistent(run[r]) /\ Justified(run[r])
  BY DEF GateInv, RunInv
<1>3. CASE Grows /\ run' = run /\ decisions' = decisions
  BY <1>1, <1>2, <1>3, AllKept, OverridesKept DEF GateInv
<1>4. ASSUME NEW r \in Runs, RunStep(r) PROVE GateInv'
  <2>1. Grows /\ \A q \in Runs : Consistent(run'[q]) /\ Justified(run'[q])
    BY <1>2, <1>4, Moved
  <2>2. decisions' = decisions \/ RecordDecision(r)
    BY <1>4 DEF RunStep, PostDiff, ListConsumers, ReadConsumer, AnswerRadius, FailRadius,
         ReadCoverage, ReadLabel, ReadAckAndDecide, FindComment, WriteComment, apiVars
  <2> QED BY <1>1, <2>1, <2>2, AllKept, OverridesKept DEF GateInv
<1>5. ASSUME NEW r \in Runs, NEW rep \in Reports, Start(r, rep) PROVE GateInv'
  <2>1. Grows /\ \A q \in Runs : Consistent(run'[q]) /\ Justified(run'[q])
    BY <1>2, <1>5, Started
  <2>2. decisions' = decisions
    BY <1>5 DEF Start, apiVars
  <2> QED BY <1>1, <2>1, <2>2, AllKept, OverridesKept DEF GateInv
<1>6. ASSUME NEW e \in Evidence, Age(e) PROVE GateInv'
  <2>1. (\A r \in Runs : RunInv(r))'
    BY <1>1, <1>6, AgeKeeps
  <2>2. OverridesAreBacked'
    BY <1>6 DEF GateInv, OverridesAreBacked, Age, Event
  <2> QED BY <1>1, <2>1, <2>2 DEF GateInv
<1>7. ASSUME NEW e \in Evidence, Ingest(e) PROVE GateInv'
  BY <1>3, <1>7 DEF Ingest, Event, Grows
<1>8. ASSUME NEW c \in Consumers, Subscribe(c) PROVE GateInv'
  BY <1>3, <1>8 DEF Subscribe, Event, Grows
<1>9. ASSUME NEW d \in Reports, Acknowledge(d) \/ ExpireAck(d) PROVE GateInv'
  <2>1. \A x \in Reports : acks[x] # "none" => acks'[x] # "none"
    BY <1>9 DEF Acknowledge, ExpireAck, GateInv, TypeOK
  <2> QED BY <1>3, <1>9, <2>1 DEF Acknowledge, ExpireAck, Event, Grows
<1>10. CASE Relabel
  BY <1>3, <1>10 DEF Relabel, Event, Grows
<1>11. ASSUME NEW x \in Servers, Hang(x) PROVE GateInv'
  BY <1>3, <1>11 DEF Hang, Event, Grows
<1>12. CASE UNCHANGED vars
  BY <1>3, <1>12 DEF vars, apiVars, ghVars, Grows
<1> QED
  BY <1>4, <1>5, <1>6, <1>7, <1>8, <1>9, <1>10, <1>11, <1>12 DEF Next

\* Nothing has been read and nothing decided at first.
LEMMA GateInit == Init => GateInv
<1> SUFFICES ASSUME Init PROVE GateInv
  OBVIOUS
<1>1. Idle \in RunRecords
  BY DEF Idle, RunRecords, Reports
<1>2. TypeOK
  <2>1. acks \in [Reports -> {"none", "active", "expired"}]
    BY DEF Init
  <2>2. run \in [Runs -> RunRecords]
    BY <1>1 DEF Init
  <2>3. events \in 0..MaxEvents /\ comments \in Nat
    BY MaxEventsAssumption DEF Init
  <2>4. config \in AllConfigs /\ subscribed \subseteq Consumers
    BY SubscribersAssumption, ConfigsAssumption DEF Init
  <2> QED BY <2>1, <2>2, <2>3, <2>4 DEF Init, TypeOK
<1>3. Consistent(Idle) /\ Justified(Idle)
  BY DEF Idle, Consistent, Justified, Undecided
<1> QED BY <1>2, <1>3 DEF Init, GateInv, RunInv, OverridesAreBacked

-----------------------------------------------------------------------------
(* The theorems *)

\* GateInv holds in every reachable state.
THEOREM GateInvHolds == Spec => []GateInv
<1>1. Init => GateInv
  BY GateInit
<1>2. GateInv /\ [Next]_vars => GateInv'
  BY GateStep
<1> QED BY <1>1, <1>2, PTL DEF Spec

\* The tables and the runs keep their types; only the four verdicts are recorded.
THEOREM TypesHold == Spec => []TypeOK
<1>1. GateInv => TypeOK
  BY DEF GateInv
<1> QED BY <1>1, GateInvHolds, PTL

\* A run that lets a breaking change through where the policy is meant to stop one missed no
\* consumer that the database named from the first step of the run on.
THEOREM AffectedConsumersBlockHolds == Spec => []AffectedConsumersBlock
<1>1. GateInv => AffectedConsumersBlock
  BY DEF GateInv, RunInv, Consistent, Justified, AffectedConsumersBlock, GreenOnBreak,
     HasDecided, Overridden
<1> QED BY <1>1, GateInvHolds, PTL

\* Such a run follows the narrow policy and had coverage: silence is never read as safety.
THEOREM EmptinessIsInformedHolds == Spec => []EmptinessIsInformed
<1>1. GateInv => EmptinessIsInformed
  BY DEF GateInv, RunInv, Consistent, Justified, EmptinessIsInformed, GreenOnBreak,
     HasDecided, Overridden
<1> QED BY <1>1, GateInvHolds, PTL

\* A decision on record as overridden was allowed, and by a label or this diff's own
\* acknowledgement.
THEOREM OverridesAreBackedHolds == Spec => []OverridesAreBacked
<1>1. GateInv => OverridesAreBacked
  BY DEF GateInv
<1> QED BY <1>1, GateInvHolds, PTL

\* A build without a breaking change fails only for an API that failed under closed.
THEOREM NoFalseBlockHolds == Spec => []NoFalseBlock
<1>1. GateInv => NoFalseBlock
  BY DEF GateInv, RunInv, Justified, NoFalseBlock
<1> QED BY <1>1, GateInvHolds, PTL

\* Every verdict of the gate has its reason.
THEOREM VerdictsAreJustifiedHolds == Spec => []VerdictsAreJustified
BY TypesHold, EmptinessIsInformedHolds, OverridesAreBackedHolds, NoFalseBlockHolds, PTL
   DEF VerdictsAreJustified

-----------------------------------------------------------------------------
(* The comment *)

Active(r) == run[r].pc \notin {"idle", "done"}

\* Runs that take turns: the one that is about to post has seen what the others left.
TurnInv ==
    config.serial =>
        /\ \A r, q \in Runs : Active(r) /\ Active(q) => r = q
        /\ comments <= 1
        /\ \A r \in Runs : run[r].pc = "write" /\ ~run[r].update => comments = 0

\* Only FindComment goes on to the writing of the comment.
LEMMA PcAfter ==
    ASSUME TypeOK, NEW r \in Runs, RunStep(r), ~FindComment(r)
    PROVE  run'[r].pc # "write"
<1> DEFINE l == run[r]
<1>1. l \in RunRecords /\ run \in [Runs -> RunRecords]
  BY DEF TypeOK
<1>2. \A from, new : Step(r, from, new) => l.pc = from /\ run'[r] = new
  BY <1>1 DEF Step
<1> HIDE DEF l
<1>3. CASE PostDiff(r)
  <2>1. /\ [l EXCEPT !.pc = "list", !.posted = TRUE].pc # "write"
        /\ [l EXCEPT !.pc = "label", !.apiError = TRUE].pc # "write"
    BY <1>1 DEF RunRecords
  <2> QED BY <1>2, <1>3, <2>1, Zenon DEF PostDiff, l
<1>4. CASE ListConsumers(r)
  <2>1. [l EXCEPT !.pc = "radius", !.todo = {c \in Consumers : Listed(c)}].pc # "write"
    BY <1>1 DEF RunRecords
  <2> QED BY <1>2, <1>4, <2>1, Zenon DEF ListConsumers, l
<1>5. ASSUME NEW c \in Consumers, ReadConsumer(r, c) PROVE run'[r].pc # "write"
  <2> DEFINE hits == {e \in evidence : e.consumer = c /\ Matches(e, l.report)}
             new == [l EXCEPT !.todo = @ \ {c}, !.affected = @ \/ hits # {}]
  <2>1. new.pc = l.pc
    BY <1>1 DEF RunRecords
  <2>2. Step(r, "radius", new)
    BY <1>5 DEF ReadConsumer, l
  <2> HIDE DEF new
  <2> QED BY <1>2, <2>1, <2>2
<1>6. CASE AnswerRadius(r)
  <2>1. /\ [l EXCEPT !.pc = "label", !.consumers = "affected"].pc # "write"
        /\ [l EXCEPT !.pc = "coverage"].pc # "write"
    BY <1>1 DEF RunRecords
  <2> QED BY <1>2, <1>6, <2>1, Zenon DEF AnswerRadius, l
<1>7. CASE FailRadius(r)
  <2>1. [l EXCEPT !.pc = "label", !.apiError = TRUE, !.todo = {}, !.affected = FALSE].pc
          # "write"
    BY <1>1 DEF RunRecords
  <2> QED BY <1>2, <1>7, <2>1, Zenon DEF FailRadius, l
<1>8. CASE ReadCoverage(r)
  <2>1. \A a : [l EXCEPT !.pc = "label", !.consumers = a].pc # "write"
    BY <1>1 DEF RunRecords
  <2> QED BY <1>2, <1>8, <2>1, Zenon DEF ReadCoverage, l
<1>9. CASE ReadLabel(r)
  <2>1. /\ [l EXCEPT !.pc = "ack"].pc # "write"
        /\ [l EXCEPT !.pc = "ack", !.override = (label = "on")].pc # "write"
    BY <1>1 DEF RunRecords
  <2> QED BY <1>2, <1>9, <2>1, Zenon DEF ReadLabel, l
<1>10. CASE ReadAckAndDecide(r)
  <2>1. \A x \in RunRecords : Decided(x).pc # "write"
    BY DEF Decided, RunRecords
  <2>2. \A a \in AckAnswers(l.report) : [l EXCEPT !.override = a] \in RunRecords
    BY <1>1 DEF RunRecords, AckAnswers
  <2> QED BY <1>1, <1>2, <1>10, <2>1, <2>2, Zenon DEF ReadAckAndDecide, l
<1>11. CASE RecordDecision(r)
  <2>1. [l EXCEPT !.pc = "find"].pc # "write"
    BY <1>1 DEF RunRecords
  <2> QED BY <1>2, <1>11, <2>1, Zenon DEF RecordDecision, l
<1>12. CASE WriteComment(r)
  BY <1>2, <1>12 DEF WriteComment, Gone, Idle
<1> QED
  BY <1>3, <1>4, <1>5, <1>6, <1>7, <1>8, <1>9, <1>10, <1>11, <1>12 DEF RunStep

\* A step of r before its last two leaves the comments, and r, alone.
LEMMA TurnStep == GateInv /\ TurnInv /\ [Next]_vars => TurnInv'
<1> SUFFICES ASSUME GateInv, TurnInv, [Next]_vars, config'.serial PROVE TurnInv'
  BY DEF TurnInv
<1>0. /\ run \in [Runs -> RunRecords] /\ comments \in Nat
      /\ \A r \in Runs : run[r] \in RunRecords
  BY DEF GateInv, TypeOK
<1>1. ASSUME config' = config, comments' = comments,
             \A r \in Runs : run'[r].pc = run[r].pc /\ run'[r].update = run[r].update
      PROVE  TurnInv'
  BY <1>1 DEF TurnInv, Active
<1>2. ASSUME NEW r \in Runs, NEW rep \in Reports, Start(r, rep) PROVE TurnInv'
  <2>1. run'[r].pc # "write" /\ \A q \in Runs \ {r} : run'[q] = run[q]
    BY <1>0, <1>2 DEF Start, Step, Idle
  <2>2. config' = config /\ comments' = comments
    BY <1>2 DEF Start, ghVars
  <2>3. \A q \in Runs : ~Active(q)
    BY <1>2, <2>2 DEF Start, Active
  <2> QED BY <2>1, <2>2, <2>3 DEF TurnInv, Active
<1>3. ASSUME NEW r \in Runs, RunStep(r) PROVE TurnInv'
  <2>0. run' \in [Runs -> RunRecords]
    BY <1>3, RunTypes DEF GateInv
  <2>1. config' = config
    BY <1>3, Moved DEF Grows
  <2>2. CASE FindComment(r)
    <3>1. comments' = comments /\ \A q \in Runs \ {r} : run'[q] = run[q]
      BY <1>0, <2>2 DEF FindComment, Step, ghVars
    <3>2. run[r].pc = "find"
      BY <2>2 DEF FindComment, Step
    <3>3. run'[r] = Gone \/ run'[r].update = Existing
      BY <1>0, <2>2 DEF FindComment, Step, RunRecords
    <3>4. Gone.pc = "done"
      BY DEF Gone, Idle
    <3>5. \A q \in Runs : Active(q)' => Active(q)
      BY <3>1, <3>2 DEF Active
    <3>6. \A q \in Runs : run'[q].pc = "write" => q = r
      <4>1. \A q \in Runs : run'[q].pc = "write" => Active(q)
        BY <3>5 DEF Active
      <4>2. Active(r)
        BY <3>2 DEF Active
      <4> QED BY <2>1, <4>1, <4>2 DEF TurnInv
    <3>7. run'[r].pc = "write" => run'[r].update \/ comments = 0
      <4>1. Existing \/ comments = 0
        BY <1>0 DEF Existing
      <4> QED BY <3>3, <3>4, <4>1, Zenon
    <3> QED BY <1>0, <2>1, <3>1, <3>5, <3>6, <3>7 DEF TurnInv
  <2>3. CASE WriteComment(r)
    <3>1. run[r].pc = "write" /\ run'[r] = Gone /\ \A q \in Runs \ {r} : run'[q] = run[q]
      BY <1>0, <2>3 DEF WriteComment, Step
    <3>2. comments' = comments \/ (~run[r].update /\ comments' = comments + 1)
      BY <2>3 DEF WriteComment
    <3>3. Gone.pc = "done"
      BY DEF Gone, Idle
    <3> QED BY <1>0, <2>1, <3>1, <3>2, <3>3 DEF TurnInv, Active
  <2>4. CASE ~FindComment(r) /\ ~WriteComment(r)
    <3>1. comments' = comments
      BY <1>3, <2>4 DEF RunStep, PostDiff, ListConsumers, ReadConsumer, AnswerRadius,
           FailRadius, ReadCoverage, ReadLabel, ReadAckAndDecide, RecordDecision, ghVars
    <3>2. run[r].pc \in {"post", "list", "radius", "coverage", "label", "ack", "record"}
      BY <1>3, <2>4 DEF RunStep, PostDiff, ListConsumers, ReadConsumer, AnswerRadius,
           FailRadius, ReadCoverage, ReadLabel, ReadAckAndDecide, RecordDecision, Step
    <3>3. /\ run'[r].pc # "write"
          /\ \A q \in Runs \ {r} : run'[q] = run[q]
      <4>1. \A q \in Runs \ {r} : run'[q] = run[q]
        BY <1>3, Moved
      <4> QED BY <1>3, <2>4, <3>2, <4>1, PcAfter DEF GateInv
    <3> QED BY <1>0, <2>1, <3>1, <3>2, <3>3 DEF TurnInv, Active
  <2> QED BY <2>2, <2>3, <2>4
<1>4. ASSUME NEW e \in Evidence, Age(e) PROVE TurnInv'
  <2>1. \A r \in Runs : run'[r].pc = run[r].pc /\ run'[r].update = run[r].update
    BY <1>0, <1>4 DEF Age, RunRecords
  <2> QED BY <1>1, <1>4, <2>1 DEF Age, Event
<1>5. ASSUME NEW e \in Evidence, Ingest(e) PROVE TurnInv'
  BY <1>1, <1>5 DEF Ingest, Event
<1>6. ASSUME NEW c \in Consumers, Subscribe(c) PROVE TurnInv'
  BY <1>1, <1>6 DEF Subscribe, Event
<1>7. ASSUME NEW d \in Reports, Acknowledge(d) \/ ExpireAck(d) PROVE TurnInv'
  BY <1>1, <1>7 DEF Acknowledge, ExpireAck, Event
<1>8. CASE Relabel
  BY <1>1, <1>8 DEF Relabel, Event
<1>9. ASSUME NEW x \in Servers, Hang(x) PROVE TurnInv'
  BY <1>1, <1>9 DEF Hang, Event
<1>10. CASE UNCHANGED vars
  BY <1>1, <1>10 DEF vars, ghVars
<1> QED BY <1>2, <1>3, <1>4, <1>5, <1>6, <1>7, <1>8, <1>9, <1>10 DEF Next

\* Runs that take turns leave at most one comment of Radar's on the pull request.
THEOREM OneCommentWhenSerialHolds == Spec => []OneCommentWhenSerial
<1>1. Init => TurnInv
  BY DEF Init, TurnInv, Active, Idle
<1>2. GateInv /\ TurnInv /\ [Next]_vars => TurnInv'
  BY TurnStep
<1>3. TurnInv => OneCommentWhenSerial
  BY DEF TurnInv, OneCommentWhenSerial
<1> QED BY <1>1, <1>2, <1>3, GateInvHolds, PTL DEF Spec

-----------------------------------------------------------------------------
(* Webhooks.                                                               *)

\* A delivery names its event and its webhook.
LEMMA DeliveryParts == \A d \in Deliveries : d[1] \in Events /\ Hook(d) \in Webhooks
BY DEF Deliveries, Hook

\* One start more allows one round of attempts more.
LEMMA OneMoreStart ==
    \A c \in Nat : /\ MaxAttempts * (2 + (c + 1)) = MaxAttempts * (2 + c) + MaxAttempts
                  /\ MaxAttempts * (2 + c) \in Nat
<1> SUFFICES ASSUME NEW c \in Nat
             PROVE  /\ MaxAttempts * (2 + (c + 1)) = MaxAttempts * (2 + c) + MaxAttempts
                    /\ MaxAttempts * (2 + c) \in Nat
  OBVIOUS
<1>. QED  BY AttemptsAssumption

\* The budget is counted in natural numbers.
LEMMA LeftIsNat ==
    ASSUME DeliveryTypeOK, NEW d \in Deliveries
    PROVE  /\ \A k \in Kinds : SendsLeft(d, k) \in Nat /\ AcceptsLeft(d, k) \in Nat
           /\ ToStart(d, 1) \in Nat /\ ToStart(d, MaxAttempts) \in Nat
<1> USE AttemptsAssumption
<1>1. ASSUME NEW k \in Kinds PROVE SendsLeft(d, k) \in Nat /\ AcceptsLeft(d, k) \in Nat
  BY DEF DeliveryTypeOK, SendsLeft, AcceptsLeft
<1>2. ToStart(d, 1) \in Nat /\ ToStart(d, MaxAttempts) \in Nat  BY DEF ToStart
<1>. QED  BY <1>1, <1>2

\* Nothing is stored or sent at the first start.
LEMMA InitInv == DeliveryInit => IInv
<1> SUFFICES ASSUME DeliveryInit PROVE IInv  OBVIOUS
<1> USE AttemptsAssumption, CrashesAssumption, FaultsAssumption
<1>1. DeliveryTypeOK  BY DEF DeliveryInit, DeliveryTypeOK, PC
<1>2. NoUntrackedSend /\ StatusIsEarned  BY DEF DeliveryInit, NoUntrackedSend, StatusIsEarned, Answered
<1>3. ASSUME NEW d \in Deliveries PROVE WithinBudget(d) /\ \A k \in Kinds : TaskKnows(d, k)
  <2>1. \A k \in Kinds : pc[d][k] = "none" /\ sends[d] = 0 /\ accepted[d] = 0 /\ lost[d] = 0
    BY DEF DeliveryInit
  <2>2. sweep = "waiting" /\ event[d[1]] = "none" /\ crashes = 0
    BY DeliveryParts DEF DeliveryInit
  <2>. QED
    BY <2>1, <2>2 DEF WithinBudget, TaskKnows, Answered, SendsLeft, AcceptsLeft, ToStart, Kinds
<1>. QED  BY <1>1, <1>2, <1>3 DEF IInv

\* One task moves: what that says of all of them.
LEMMA TaskMoves ==
    ASSUME DeliveryTypeOK, NEW d \in Deliveries, NEW k \in Kinds, NEW v \in PC,
           pc' = [pc EXCEPT ![d][k] = v]
    PROVE  /\ pc' \in [Deliveries -> [Kinds -> PC]]
           /\ pc'[d][k] = v
           /\ \A q \in Deliveries, j \in Kinds : <<q, j>> # <<d, k>> => pc'[q][j] = pc[q][j]
BY DEF DeliveryTypeOK

LEMMA TriedMoves ==
    ASSUME DeliveryTypeOK, NEW d \in Deliveries, NEW k \in Kinds, NEW n \in 0 .. MaxAttempts,
           tried' = [tried EXCEPT ![d][k] = n]
    PROVE  /\ tried' \in [Deliveries -> [Kinds -> 0 .. MaxAttempts]]
           /\ tried'[d][k] = n
           /\ \A q \in Deliveries, j \in Kinds : <<q, j>> # <<d, k>> => tried'[q][j] = tried[q][j]
BY DEF DeliveryTypeOK

\* A row is updated, or not.
LEMMA RowMoves ==
    ASSUME DeliveryTypeOK, NEW d \in Deliveries, NEW s \in {"same", "delivered", "failed"},
           NEW n \in 0 .. MaxAttempts, UpdateRow(d, s, n)
    PROVE  /\ row' \in [Deliveries -> {"none", "pending", "delivered", "failed", "gone"}]
           /\ tries' \in [Deliveries -> 0 .. MaxAttempts]
           /\ faults' \in 0 .. MaxFaults
           /\ \A q \in Deliveries : row'[q] = row[q] \/ (q = d /\ row'[q] = s)
<1> USE FaultsAssumption
<1>1. CASE row[d] # "gone" /\ row' = [row EXCEPT ![d] = IF s = "same" THEN @ ELSE s]
           /\ tries' = [tries EXCEPT ![d] = n] /\ UNCHANGED faults
  BY <1>1 DEF DeliveryTypeOK
<1>2. CASE UNCHANGED <<rowVars, faults>>  BY <1>2 DEF DeliveryTypeOK, rowVars
<1>3. CASE SqlFault /\ UNCHANGED rowVars  BY <1>3 DEF DeliveryTypeOK, rowVars, SqlFault
<1>. QED  BY <1>1, <1>2, <1>3 DEF UpdateRow

\* A stored event only waits for its dispatch.
LEMMA StoreDiffInv ==
    ASSUME IInv, NEW e \in Events, StoreDiff(e)
    PROVE  IInv'
<1> USE AttemptsAssumption, CrashesAssumption, FaultsAssumption, DeliveryParts
<1>1. DeliveryTypeOK'
  BY DEF IInv, DeliveryTypeOK, PC, TaskKnows, Answered, StoreDiff, rowVars, taskVars, ghostVars, boundVars
<1>2. NoUntrackedSend'
  BY DEF IInv, DeliveryTypeOK, NoUntrackedSend, TaskKnows, Answered, StoreDiff, rowVars, taskVars, ghostVars, boundVars
<1>3. StatusIsEarned'
  BY DEF IInv, DeliveryTypeOK, StatusIsEarned, TaskKnows, Answered, StoreDiff, rowVars, taskVars, ghostVars, boundVars
<1>4. ASSUME NEW q \in Deliveries PROVE WithinBudget(q)'
  BY <1>1, LeftIsNat DEF IInv, DeliveryTypeOK, Kinds, WithinBudget, SendsLeft, AcceptsLeft, ToStart, StoreDiff, rowVars, taskVars, ghostVars, boundVars
<1>5. ASSUME NEW q \in Deliveries, NEW j \in Kinds PROVE TaskKnows(q, j)'
  BY DEF IInv, DeliveryTypeOK, Kinds, TaskKnows, Answered, StoreDiff, rowVars, taskVars, ghostVars, boundVars
<1>. QED  BY <1>1, <1>2, <1>3, <1>4, <1>5 DEF IInv

\* A ping starts the first task of its delivery.
LEMMA TestWebhookInv ==
    ASSUME IInv, NEW e \in Events, NEW w \in Webhooks, TestWebhook(e, w)
    PROVE  IInv'
<1> USE AttemptsAssumption, CrashesAssumption, FaultsAssumption, DeliveryParts
<1> DEFINE d == <<e, w>>
<1>d. d \in Deliveries /\ d[1] = e /\ "first" \in Kinds  BY DEF Deliveries, Kinds
<1>p. /\ pc' = [pc EXCEPT ![d]["first"] = "insert"]
      /\ event[e] = "none" /\ event' = [event EXCEPT ![e] = "dispatched"]
      /\ UNCHANGED <<hook, rowVars, sweep, tried, ghostVars, boundVars>>
  BY DEF TestWebhook
<1>. HIDE DEF d
<1>m. /\ pc' \in [Deliveries -> [Kinds -> PC]] /\ pc'[d]["first"] = "insert"
      /\ \A q \in Deliveries, j \in Kinds : <<q, j>> # <<d, "first">> => pc'[q][j] = pc[q][j]
  BY <1>d, <1>p, TaskMoves DEF IInv, PC
<1>1. DeliveryTypeOK'
  BY <1>p, <1>m DEF IInv, DeliveryTypeOK, rowVars, taskVars, ghostVars, boundVars
<1>2. NoUntrackedSend' /\ StatusIsEarned'
  BY <1>p DEF IInv, NoUntrackedSend, StatusIsEarned, Answered, rowVars, taskVars, ghostVars, boundVars
<1>4. ASSUME NEW q \in Deliveries PROVE WithinBudget(q)'
  <2>1. WithinBudget(q) /\ DeliveryTypeOK  BY DEF IInv
  <2>2. CASE q = d
    BY <1>d, <1>p, <1>m, <2>1, <2>2, LeftIsNat DEF DeliveryTypeOK, Kinds, WithinBudget, SendsLeft, AcceptsLeft, ToStart, rowVars, taskVars, ghostVars, boundVars
  <2>3. CASE q # d
    BY <1>d, <1>p, <1>m, <2>1, <2>3, LeftIsNat DEF DeliveryTypeOK, Kinds, WithinBudget, SendsLeft, AcceptsLeft, ToStart, rowVars, taskVars, ghostVars, boundVars
  <2>. QED  BY <2>2, <2>3
<1>5. ASSUME NEW q \in Deliveries, NEW j \in Kinds PROVE TaskKnows(q, j)'
  BY <1>d, <1>p, <1>m DEF IInv, DeliveryTypeOK, Kinds, TaskKnows, Answered, rowVars, taskVars, ghostVars, boundVars
<1>. QED  BY <1>1, <1>2, <1>4, <1>5 DEF IInv

\* Deleting a webhook takes rows, not tasks.
LEMMA DeleteWebhookInv ==
    ASSUME IInv, NEW w \in Webhooks, DeleteWebhook(w)
    PROVE  IInv'
<1> USE AttemptsAssumption, CrashesAssumption, FaultsAssumption, DeliveryParts
<1>1. DeliveryTypeOK'
  BY DEF IInv, DeliveryTypeOK, PC, TaskKnows, Answered, DeleteWebhook, rowVars, taskVars, ghostVars, boundVars
<1>2. NoUntrackedSend'
  BY DEF IInv, DeliveryTypeOK, NoUntrackedSend, TaskKnows, Answered, DeleteWebhook, rowVars, taskVars, ghostVars, boundVars
<1>3. StatusIsEarned'
  BY DEF IInv, DeliveryTypeOK, StatusIsEarned, TaskKnows, Answered, DeleteWebhook, rowVars, taskVars, ghostVars, boundVars
<1>4. ASSUME NEW q \in Deliveries PROVE WithinBudget(q)'
  BY <1>1, LeftIsNat DEF IInv, DeliveryTypeOK, Kinds, WithinBudget, SendsLeft, AcceptsLeft, ToStart, DeleteWebhook, rowVars, taskVars, ghostVars, boundVars
<1>5. ASSUME NEW q \in Deliveries, NEW j \in Kinds PROVE TaskKnows(q, j)'
  BY DEF IInv, DeliveryTypeOK, Kinds, TaskKnows, Answered, DeleteWebhook, rowVars, taskVars, ghostVars, boundVars
<1>. QED  BY <1>1, <1>2, <1>3, <1>4, <1>5 DEF IInv

\* A dispatch starts the first task of each delivery of its event.
LEMMA DispatchInv ==
    ASSUME IInv, NEW e \in Events, Dispatch(e)
    PROVE  IInv'
<1> USE AttemptsAssumption, CrashesAssumption, FaultsAssumption, DeliveryParts
<1>p. /\ event[e] = "queued" /\ event' = [event EXCEPT ![e] = "dispatched"]
      /\ UNCHANGED <<hook, rowVars, sweep, tried, ghostVars, crashes>>
      /\ faults' \in 0 .. MaxFaults
  BY DEF Dispatch, SqlFault, IInv, DeliveryTypeOK
<1>m. /\ pc' \in [Deliveries -> [Kinds -> PC]]
      /\ \A q \in Deliveries, j \in Kinds :
            pc'[q][j] = pc[q][j] \/ (q[1] = e /\ j = "first" /\ pc'[q][j] = "insert")
  <2>1. DeliveryTypeOK /\ "insert" \in PC /\ "first" \in Kinds  BY DEF IInv, PC, Kinds
  <2>2. CASE UNCHANGED pc  BY <2>1, <2>2 DEF DeliveryTypeOK
  <2>3. CASE pc' = [q \in Deliveries |-> IF q[1] = e /\ hook[Hook(q)] = "live"
                                       THEN [pc[q] EXCEPT !["first"] = "insert"] ELSE pc[q]]
    <3>1. ASSUME NEW q \in Deliveries
          PROVE  /\ pc'[q] \in [Kinds -> PC]
                 /\ \A j \in Kinds : pc'[q][j] = pc[q][j]
                                     \/ (q[1] = e /\ j = "first" /\ pc'[q][j] = "insert")
      <4>1. pc[q] \in [Kinds -> PC]  BY <2>1 DEF DeliveryTypeOK
      <4>2. CASE pc'[q] = pc[q]  BY <4>1, <4>2
      <4>3. CASE q[1] = e /\ pc'[q] = [pc[q] EXCEPT !["first"] = "insert"]
        BY <2>1, <4>1, <4>3
      <4>. QED  BY <2>3, <4>2, <4>3
    <3>. QED  BY <2>3, <3>1
  <2>. QED  BY <2>2, <2>3 DEF Dispatch
<1>1. DeliveryTypeOK'
  BY <1>p, <1>m DEF IInv, DeliveryTypeOK, rowVars, taskVars, ghostVars, boundVars
<1>2. NoUntrackedSend' /\ StatusIsEarned'
  BY <1>p DEF IInv, NoUntrackedSend, StatusIsEarned, Answered, rowVars, taskVars, ghostVars, boundVars
<1>4. ASSUME NEW q \in Deliveries PROVE WithinBudget(q)'
  <2>1. WithinBudget(q) /\ DeliveryTypeOK  BY DEF IInv
  <2>2. CASE q[1] = e
    BY <1>p, <1>m, <2>1, <2>2, LeftIsNat DEF DeliveryTypeOK, Kinds, WithinBudget, SendsLeft, AcceptsLeft, ToStart, rowVars, taskVars, ghostVars, boundVars
  <2>3. CASE q[1] # e
    BY <1>p, <1>m, <2>1, <2>3, LeftIsNat DEF DeliveryTypeOK, Kinds, WithinBudget, SendsLeft, AcceptsLeft, ToStart, rowVars, taskVars, ghostVars, boundVars
  <2>. QED  BY <2>2, <2>3
<1>5. ASSUME NEW q \in Deliveries, NEW j \in Kinds PROVE TaskKnows(q, j)'
  BY <1>p, <1>m, SMTT(30) DEF IInv, DeliveryTypeOK, Kinds, TaskKnows, Answered, rowVars, taskVars, ghostVars, boundVars
<1>. QED  BY <1>1, <1>2, <1>4, <1>5 DEF IInv

\* The row is there before the first request.
LEMMA RecordPendingInv ==
    ASSUME IInv, NEW d \in Deliveries, RecordPending(d)
    PROVE  IInv'
<1> USE AttemptsAssumption, CrashesAssumption, FaultsAssumption, DeliveryParts
<1>p. /\ pc[d]["first"] = "insert" /\ "first" \in Kinds
      /\ UNCHANGED <<hook, event, sweep, sends, accepted, lost, crashes>>
  BY DEF RecordPending, Kinds
<1>m. \/ /\ pc' = [pc EXCEPT ![d]["first"] = "none"] /\ UNCHANGED tried
      \/ /\ pc' = [pc EXCEPT ![d]["first"] = "send"]
         /\ tried' = [tried EXCEPT ![d]["first"] = 0]
         /\ row'[d] = "pending"
  BY DEF RecordPending, Connect, Recorded, IInv, DeliveryTypeOK
<1>f. refused' \in [Deliveries -> BOOLEAN]
  <2>1. refused \in [Deliveries -> BOOLEAN]  BY DEF IInv, DeliveryTypeOK
  <2>2. UNCHANGED refused \/ refused' = [refused EXCEPT ![d] = TRUE]
    BY DEF RecordPending, Connect
  <2>. QED  BY <2>1, <2>2
<1>r. /\ row' \in [Deliveries -> {"none", "pending", "delivered", "failed", "gone"}]
      /\ tries' \in [Deliveries -> 0 .. MaxAttempts]
      /\ faults' \in 0 .. MaxFaults
      /\ \A q \in Deliveries : row'[q] = row[q] \/ (q = d /\ row'[q] = "pending")
  <2>0. DeliveryTypeOK  BY DEF IInv
  <2>1. CASE /\ hook[Hook(d)] = "live" /\ UNCHANGED faults
             /\ row' = [row EXCEPT ![d] = IF hook[Hook(d)] = "live" THEN "pending" ELSE "none"]
             /\ tries' = [tries EXCEPT ![d] = 0]
    BY <2>0, <2>1 DEF DeliveryTypeOK
  <2>2. CASE UNCHANGED <<row, tries, faults>>
    BY <2>0, <2>2 DEF DeliveryTypeOK
  <2>3. CASE SqlFault /\ UNCHANGED <<row, tries>>
    BY <2>0, <2>3 DEF SqlFault, DeliveryTypeOK
  <2>. QED  BY <2>1, <2>2, <2>3 DEF RecordPending, Recorded, rowVars
<1>t. /\ pc' \in [Deliveries -> [Kinds -> PC]]
      /\ tried' \in [Deliveries -> [Kinds -> 0 .. MaxAttempts]]
      /\ pc'[d]["first"] \in {"none", "send"}
      /\ pc'[d]["first"] = "send" => tried'[d]["first"] = 0 /\ row'[d] = "pending"
      /\ \A q \in Deliveries, j \in Kinds : <<q, j>> # <<d, "first">> =>
            pc'[q][j] = pc[q][j] /\ tried'[q][j] = tried[q][j]
  <2>0. DeliveryTypeOK /\ "none" \in PC /\ "send" \in PC /\ 0 \in 0 .. MaxAttempts  BY DEF IInv, PC
  <2>1. CASE pc' = [pc EXCEPT ![d]["first"] = "none"] /\ UNCHANGED tried
    <3>1. tried' \in [Deliveries -> [Kinds -> 0 .. MaxAttempts]]  BY <2>0, <2>1 DEF DeliveryTypeOK
    <3>2. /\ pc' \in [Deliveries -> [Kinds -> PC]] /\ pc'[d]["first"] = "none"
          /\ \A q \in Deliveries, j \in Kinds : <<q, j>> # <<d, "first">> => pc'[q][j] = pc[q][j]
      BY <1>p, <2>0, <2>1 DEF DeliveryTypeOK
    <3>3. \A q \in Deliveries, j \in Kinds : tried'[q][j] = tried[q][j]  BY <2>1
    <3>. QED  BY <3>1, <3>2, <3>3
  <2>2. CASE /\ pc' = [pc EXCEPT ![d]["first"] = "send"]
             /\ tried' = [tried EXCEPT ![d]["first"] = 0] /\ row'[d] = "pending"
    <3>1. /\ pc' \in [Deliveries -> [Kinds -> PC]] /\ pc'[d]["first"] = "send"
          /\ \A q \in Deliveries, j \in Kinds : <<q, j>> # <<d, "first">> => pc'[q][j] = pc[q][j]
      BY <1>p, <2>0, <2>2 DEF DeliveryTypeOK
    <3>2. /\ tried' \in [Deliveries -> [Kinds -> 0 .. MaxAttempts]] /\ tried'[d]["first"] = 0
          /\ \A q \in Deliveries, j \in Kinds : <<q, j>> # <<d, "first">> => tried'[q][j] = tried[q][j]
      BY <1>p, <2>0, <2>2 DEF DeliveryTypeOK
    <3>. QED  BY <2>2, <3>1, <3>2
  <2>. QED  BY <1>m, <2>1, <2>2
<1>1. DeliveryTypeOK'
  BY <1>p, <1>f, <1>r, <1>t DEF IInv, DeliveryTypeOK
<1>2. NoUntrackedSend'
  BY <1>p, <1>r DEF IInv, NoUntrackedSend
<1>3. StatusIsEarned'
  BY <1>p, <1>r DEF IInv, StatusIsEarned, Answered
<1>4. ASSUME NEW q \in Deliveries PROVE WithinBudget(q)'
  <2>1. WithinBudget(q) /\ DeliveryTypeOK  BY DEF IInv
  <2>2. CASE q = d
    BY <1>p, <1>t, <2>1, <2>2, LeftIsNat DEF DeliveryTypeOK, Kinds, WithinBudget, SendsLeft, AcceptsLeft, ToStart
  <2>3. CASE q # d
    BY <1>p, <1>t, <2>1, <2>3, LeftIsNat DEF DeliveryTypeOK, Kinds, WithinBudget, SendsLeft, AcceptsLeft, ToStart
  <2>. QED  BY <2>2, <2>3
<1>5. ASSUME NEW q \in Deliveries, NEW j \in Kinds PROVE TaskKnows(q, j)'
  <2>1. TaskKnows(q, j) /\ DeliveryTypeOK  BY DEF IInv
  <2>2. row[q] # "none" => row'[q] # "none"  BY <1>r
  <2>3. CASE <<q, j>> = <<d, "first">>
    BY <1>p, <1>t, <2>1, <2>2, <2>3 DEF DeliveryTypeOK, Kinds, TaskKnows, Answered
  <2>4. CASE <<q, j>> # <<d, "first">>
    BY <1>p, <1>t, <2>1, <2>2, <2>4 DEF DeliveryTypeOK, Kinds, TaskKnows, Answered
  <2>. QED  BY <2>3, <2>4
<1>. QED  BY <1>1, <1>2, <1>3, <1>4, <1>5 DEF IInv

\* The outbox takes up a row that is there.
LEMMA TakeUpInv ==
    ASSUME IInv, NEW d \in Deliveries, TakeUp(d)
    PROVE  IInv'
<1> USE AttemptsAssumption, CrashesAssumption, FaultsAssumption, DeliveryParts
<1>p. /\ pc[d]["outbox"] = "connect" /\ "outbox" \in Kinds
      /\ UNCHANGED <<hook, event, rowVars, sweep, sends, accepted, lost, boundVars>>
      /\ refused' \in [Deliveries -> BOOLEAN]
  BY DEF TakeUp, Connect, Kinds, IInv, DeliveryTypeOK
<1>m. \/ /\ pc' = [pc EXCEPT ![d]["outbox"] = "none"]
         /\ UNCHANGED tried
      \/ /\ pc' = [pc EXCEPT ![d]["outbox"] = "send"]
         /\ tried' = [tried EXCEPT ![d]["outbox"] = 0]
  BY DEF TakeUp, Connect
<1>t. /\ pc' \in [Deliveries -> [Kinds -> PC]]
      /\ tried' \in [Deliveries -> [Kinds -> 0 .. MaxAttempts]]
      /\ pc'[d]["outbox"] \in {"none", "send"}
      /\ pc'[d]["outbox"] = "send" => tried'[d]["outbox"] = 0
      /\ \A q \in Deliveries, j \in Kinds : <<q, j>> # <<d, "outbox">> =>
            pc'[q][j] = pc[q][j] /\ tried'[q][j] = tried[q][j]
  <2>0. DeliveryTypeOK /\ "none" \in PC /\ "send" \in PC /\ 0 \in 0 .. MaxAttempts  BY DEF IInv, PC
  <2>1. CASE pc' = [pc EXCEPT ![d]["outbox"] = "none"] /\ UNCHANGED tried
    <3>1. tried' \in [Deliveries -> [Kinds -> 0 .. MaxAttempts]]  BY <2>0, <2>1 DEF DeliveryTypeOK
    <3>2. /\ pc' \in [Deliveries -> [Kinds -> PC]] /\ pc'[d]["outbox"] = "none"
          /\ \A q \in Deliveries, j \in Kinds : <<q, j>> # <<d, "outbox">> => pc'[q][j] = pc[q][j]
      BY <1>p, <2>0, <2>1 DEF DeliveryTypeOK
    <3>3. \A q \in Deliveries, j \in Kinds : tried'[q][j] = tried[q][j]  BY <2>1
    <3>. QED  BY <3>1, <3>2, <3>3
  <2>2. CASE /\ pc' = [pc EXCEPT ![d]["outbox"] = "send"]
             /\ tried' = [tried EXCEPT ![d]["outbox"] = 0]
    <3>1. /\ pc' \in [Deliveries -> [Kinds -> PC]] /\ pc'[d]["outbox"] = "send"
          /\ \A q \in Deliveries, j \in Kinds : <<q, j>> # <<d, "outbox">> => pc'[q][j] = pc[q][j]
      BY <1>p, <2>0, <2>2 DEF DeliveryTypeOK
    <3>2. /\ tried' \in [Deliveries -> [Kinds -> 0 .. MaxAttempts]] /\ tried'[d]["outbox"] = 0
          /\ \A q \in Deliveries, j \in Kinds : <<q, j>> # <<d, "outbox">> => tried'[q][j] = tried[q][j]
      BY <1>p, <2>0, <2>2 DEF DeliveryTypeOK
    <3>. QED  BY <2>2, <3>1, <3>2
  <2>. QED  BY <1>m, <2>1, <2>2
<1>1. DeliveryTypeOK'
  BY <1>p, <1>t DEF IInv, DeliveryTypeOK, rowVars, boundVars
<1>2. NoUntrackedSend' /\ StatusIsEarned'
  BY <1>p DEF IInv, NoUntrackedSend, StatusIsEarned, Answered, rowVars
<1>4. ASSUME NEW q \in Deliveries PROVE WithinBudget(q)'
  <2>1. WithinBudget(q) /\ DeliveryTypeOK  BY DEF IInv
  <2>2. CASE q = d
    BY <1>p, <1>t, <2>1, <2>2, LeftIsNat DEF DeliveryTypeOK, Kinds, boundVars, WithinBudget, SendsLeft, AcceptsLeft, ToStart
  <2>3. CASE q # d
    BY <1>p, <1>t, <2>1, <2>3, LeftIsNat DEF DeliveryTypeOK, Kinds, boundVars, WithinBudget, SendsLeft, AcceptsLeft, ToStart
  <2>. QED  BY <2>2, <2>3
<1>5. ASSUME NEW q \in Deliveries, NEW j \in Kinds PROVE TaskKnows(q, j)'
  <2>1. TaskKnows(q, j) /\ DeliveryTypeOK  BY DEF IInv
  <2>2. CASE <<q, j>> = <<d, "outbox">>
    BY <1>p, <1>t, <2>1, <2>2 DEF DeliveryTypeOK, Kinds, TaskKnows, Answered, rowVars
  <2>3. CASE <<q, j>> # <<d, "outbox">>
    BY <1>p, <1>t, <2>1, <2>3 DEF DeliveryTypeOK, Kinds, TaskKnows, Answered, rowVars
  <2>. QED  BY <2>2, <2>3
<1>. QED  BY <1>1, <1>2, <1>4, <1>5 DEF IInv

\* A request and its answer are paid from what the task had left.
LEMMA SendAttemptInv ==
    ASSUME IInv, NEW d \in Deliveries, NEW k \in Kinds, SendAttempt(d, k)
    PROVE  IInv'
<1> USE AttemptsAssumption, CrashesAssumption, FaultsAssumption, DeliveryParts
<1>p. pc[d][k] = "send" /\ tried[d][k] < MaxAttempts
  BY DEF SendAttempt, IInv, TaskKnows, Answered
<1>t. pc' \in [Deliveries -> [Kinds -> PC]]
  BY TaskMoves DEF SendAttempt, IInv, PC
<1>n. tried' \in [Deliveries -> [Kinds -> 0 .. MaxAttempts]]
  <2>1. tried[d][k] + 1 \in 0 .. MaxAttempts  BY <1>p DEF IInv, DeliveryTypeOK
  <2>2. tried' = [tried EXCEPT ![d][k] = tried[d][k] + 1]  BY DEF SendAttempt
  <2>. QED  BY <2>1, <2>2, TriedMoves DEF IInv
<1>1. DeliveryTypeOK'
  BY <1>t, <1>n DEF IInv, DeliveryTypeOK, SendAttempt, rowVars, taskVars, ghostVars, boundVars
<1>2. NoUntrackedSend'
  BY DEF IInv, DeliveryTypeOK, NoUntrackedSend, TaskKnows, Answered, SendAttempt, rowVars, taskVars, ghostVars, boundVars
<1>3. StatusIsEarned'
  BY DEF IInv, DeliveryTypeOK, StatusIsEarned, TaskKnows, Answered, SendAttempt, rowVars, taskVars, ghostVars, boundVars
<1>4. ASSUME NEW q \in Deliveries PROVE WithinBudget(q)'
  BY <1>1, LeftIsNat DEF IInv, DeliveryTypeOK, Kinds, WithinBudget, SendsLeft, AcceptsLeft, ToStart, SendAttempt, rowVars, taskVars, ghostVars, boundVars
<1>5. ASSUME NEW q \in Deliveries, NEW j \in Kinds PROVE TaskKnows(q, j)'
  BY DEF IInv, DeliveryTypeOK, Kinds, TaskKnows, Answered, SendAttempt, rowVars, taskVars, ghostVars, boundVars
<1>. QED  BY <1>1, <1>2, <1>3, <1>4, <1>5 DEF IInv

\* The status delivered is written after an answer that earned it.
LEMMA MarkDeliveredInv ==
    ASSUME IInv, NEW d \in Deliveries, NEW k \in Kinds, MarkDelivered(d, k)
    PROVE  IInv'
<1> USE AttemptsAssumption, CrashesAssumption, FaultsAssumption, DeliveryParts
<1>t. pc' \in [Deliveries -> [Kinds -> PC]]
  BY TaskMoves DEF MarkDelivered, IInv, PC
<1>r. /\ row' \in [Deliveries -> {"none", "pending", "delivered", "failed", "gone"}]
      /\ tries' \in [Deliveries -> 0 .. MaxAttempts] /\ faults' \in 0 .. MaxFaults
  <2>1. tried[d][k] \in 0 .. MaxAttempts /\ UpdateRow(d, "delivered", tried[d][k]) /\ DeliveryTypeOK
    BY DEF IInv, DeliveryTypeOK, MarkDelivered
  <2>. QED  BY <2>1, RowMoves
<1>1. DeliveryTypeOK'
  BY <1>t, <1>r DEF IInv, DeliveryTypeOK, MarkDelivered, ghostVars
<1>2. NoUntrackedSend'
  BY DEF IInv, DeliveryTypeOK, NoUntrackedSend, TaskKnows, Answered, MarkDelivered, UpdateRow, SqlFault, rowVars, taskVars, ghostVars, boundVars
<1>3. StatusIsEarned'
  BY DEF IInv, DeliveryTypeOK, StatusIsEarned, TaskKnows, Answered, MarkDelivered, UpdateRow, SqlFault, rowVars, taskVars, ghostVars, boundVars
<1>4. ASSUME NEW q \in Deliveries PROVE WithinBudget(q)'
  BY <1>1, LeftIsNat DEF IInv, DeliveryTypeOK, Kinds, WithinBudget, SendsLeft, AcceptsLeft, ToStart, MarkDelivered, UpdateRow, SqlFault, rowVars, taskVars, ghostVars, boundVars
<1>5. ASSUME NEW q \in Deliveries, NEW j \in Kinds PROVE TaskKnows(q, j)'
  BY DEF IInv, DeliveryTypeOK, Kinds, TaskKnows, Answered, MarkDelivered, UpdateRow, SqlFault, rowVars, taskVars, ghostVars, boundVars
<1>. QED  BY <1>1, <1>2, <1>3, <1>4, <1>5 DEF IInv

\* A failed attempt leads to the next one or to the end of the table.
LEMMA NoteFailureInv ==
    ASSUME IInv, NEW d \in Deliveries, NEW k \in Kinds, NoteFailure(d, k)
    PROVE  IInv'
<1> USE AttemptsAssumption, CrashesAssumption, FaultsAssumption, DeliveryParts
<1>t. pc' \in [Deliveries -> [Kinds -> PC]]
  BY TaskMoves DEF NoteFailure, AfterFailure, IInv, PC
<1>r. /\ row' \in [Deliveries -> {"none", "pending", "delivered", "failed", "gone"}]
      /\ tries' \in [Deliveries -> 0 .. MaxAttempts] /\ faults' \in 0 .. MaxFaults
  <2>1. tried[d][k] \in 0 .. MaxAttempts /\ UpdateRow(d, "same", tried[d][k]) /\ DeliveryTypeOK
    BY DEF IInv, DeliveryTypeOK, NoteFailure
  <2>. QED  BY <2>1, RowMoves
<1>1. DeliveryTypeOK'
  BY <1>t, <1>r DEF IInv, DeliveryTypeOK, NoteFailure, ghostVars
<1>2. NoUntrackedSend'
  BY DEF IInv, DeliveryTypeOK, NoUntrackedSend, TaskKnows, Answered, NoteFailure, AfterFailure, UpdateRow, SqlFault, rowVars, taskVars, ghostVars, boundVars
<1>3. StatusIsEarned'
  BY DEF IInv, DeliveryTypeOK, StatusIsEarned, TaskKnows, Answered, NoteFailure, AfterFailure, UpdateRow, SqlFault, rowVars, taskVars, ghostVars, boundVars
<1>4. ASSUME NEW q \in Deliveries PROVE WithinBudget(q)'
  BY <1>1, LeftIsNat DEF IInv, DeliveryTypeOK, Kinds, WithinBudget, SendsLeft, AcceptsLeft, ToStart, NoteFailure, AfterFailure, UpdateRow, SqlFault, rowVars, taskVars, ghostVars, boundVars
<1>5. ASSUME NEW q \in Deliveries, NEW j \in Kinds PROVE TaskKnows(q, j)'
  BY DEF IInv, DeliveryTypeOK, Kinds, TaskKnows, Answered, NoteFailure, AfterFailure, UpdateRow, SqlFault, rowVars, taskVars, ghostVars, boundVars
<1>. QED  BY <1>1, <1>2, <1>3, <1>4, <1>5 DEF IInv

\* The status failed is written after all attempts.
LEMMA MarkFailedInv ==
    ASSUME IInv, NEW d \in Deliveries, NEW k \in Kinds, MarkFailed(d, k)
    PROVE  IInv'
<1> USE AttemptsAssumption, CrashesAssumption, FaultsAssumption, DeliveryParts
<1>t. pc' \in [Deliveries -> [Kinds -> PC]]
  BY TaskMoves DEF MarkFailed, IInv, PC
<1>r. /\ row' \in [Deliveries -> {"none", "pending", "delivered", "failed", "gone"}]
      /\ tries' \in [Deliveries -> 0 .. MaxAttempts] /\ faults' \in 0 .. MaxFaults
  <2>1. tries[d] \in 0 .. MaxAttempts /\ UpdateRow(d, "failed", tries[d]) /\ DeliveryTypeOK
    BY DEF IInv, DeliveryTypeOK, MarkFailed
  <2>. QED  BY <2>1, RowMoves
<1>1. DeliveryTypeOK'
  BY <1>t, <1>r DEF IInv, DeliveryTypeOK, MarkFailed, ghostVars
<1>2. NoUntrackedSend'
  BY DEF IInv, DeliveryTypeOK, NoUntrackedSend, TaskKnows, Answered, MarkFailed, UpdateRow, SqlFault, rowVars, taskVars, ghostVars, boundVars
<1>3. StatusIsEarned'
  BY DEF IInv, DeliveryTypeOK, StatusIsEarned, TaskKnows, Answered, MarkFailed, UpdateRow, SqlFault, rowVars, taskVars, ghostVars, boundVars
<1>4. ASSUME NEW q \in Deliveries PROVE WithinBudget(q)'
  BY <1>1, LeftIsNat DEF IInv, DeliveryTypeOK, Kinds, WithinBudget, SendsLeft, AcceptsLeft, ToStart, MarkFailed, UpdateRow, SqlFault, rowVars, taskVars, ghostVars, boundVars
<1>5. ASSUME NEW q \in Deliveries, NEW j \in Kinds PROVE TaskKnows(q, j)'
  BY DEF IInv, DeliveryTypeOK, Kinds, TaskKnows, Answered, MarkFailed, UpdateRow, SqlFault, rowVars, taskVars, ghostVars, boundVars
<1>. QED  BY <1>1, <1>2, <1>3, <1>4, <1>5 DEF IInv

\* The sweep starts its tasks once in the life of the process.
LEMMA OutboxSweepInv ==
    ASSUME IInv, OutboxSweep
    PROVE  IInv'
<1> USE AttemptsAssumption, CrashesAssumption, FaultsAssumption, DeliveryParts
<1>t. pc' \in [Deliveries -> [Kinds -> PC]]
  BY DEF OutboxSweep, IInv, DeliveryTypeOK, Kinds, PC
<1>1. DeliveryTypeOK'
  BY <1>t DEF IInv, DeliveryTypeOK, OutboxSweep, AfterSweep, SqlFault, rowVars, ghostVars
<1>2. NoUntrackedSend'
  BY DEF IInv, DeliveryTypeOK, NoUntrackedSend, TaskKnows, Answered, OutboxSweep, AfterSweep, Abandoned, SqlFault, rowVars, taskVars, ghostVars, boundVars
<1>3. StatusIsEarned'
  BY DEF IInv, DeliveryTypeOK, StatusIsEarned, TaskKnows, Answered, OutboxSweep, AfterSweep, Abandoned, SqlFault, rowVars, taskVars, ghostVars, boundVars
<1>4. ASSUME NEW q \in Deliveries PROVE WithinBudget(q)'
  BY <1>1, LeftIsNat DEF IInv, DeliveryTypeOK, Kinds, WithinBudget, SendsLeft, AcceptsLeft, ToStart, OutboxSweep, AfterSweep, Abandoned, SqlFault, rowVars, taskVars, ghostVars, boundVars
<1>5. ASSUME NEW q \in Deliveries, NEW j \in Kinds PROVE TaskKnows(q, j)'
  BY DEF IInv, DeliveryTypeOK, Kinds, TaskKnows, Answered, OutboxSweep, AfterSweep, Abandoned, SqlFault, rowVars, taskVars, ghostVars, boundVars
<1>. QED  BY <1>1, <1>2, <1>3, <1>4, <1>5 DEF IInv

\* A crash ends every task and allows one sweep more.
LEMMA CrashInv ==
    ASSUME IInv, Crash
    PROVE  IInv'
<1> USE AttemptsAssumption, CrashesAssumption, FaultsAssumption, DeliveryParts
<1>1. DeliveryTypeOK'
  BY DEF IInv, DeliveryTypeOK, PC, TaskKnows, Answered, Crash, rowVars, taskVars, ghostVars, boundVars
<1>2. NoUntrackedSend'
  BY DEF IInv, DeliveryTypeOK, NoUntrackedSend, TaskKnows, Answered, Crash, rowVars, taskVars, ghostVars, boundVars
<1>3. StatusIsEarned'
  BY DEF IInv, DeliveryTypeOK, StatusIsEarned, TaskKnows, Answered, Crash, rowVars, taskVars, ghostVars, boundVars
<1>4. ASSUME NEW q \in Deliveries PROVE WithinBudget(q)'
  <2>1. WithinBudget(q) /\ DeliveryTypeOK /\ crashes \in Nat
    BY DEF IInv, DeliveryTypeOK
  <2>2. /\ crashes' = crashes + 1 /\ UNCHANGED <<sends, accepted, lost>>
        /\ \A k \in Kinds : pc'[q][k] = "none"
        /\ sweep' = "waiting" /\ event'[q[1]] # "queued"
        /\ event'[q[1]] # "dispatched" => event[q[1]] # "dispatched"
    BY DEF Crash, ghostVars
  <2>3. \A k \in Kinds : SendsLeft(q, k)' = 0 /\ AcceptsLeft(q, k)' = 0
    BY <2>2 DEF SendsLeft, AcceptsLeft
  <2>4. ToStart(q, 1)' <= ToStart(q, 1) + 1 /\ ToStart(q, 1)' \in Nat
    BY <2>2 DEF ToStart
  <2>5. ToStart(q, MaxAttempts)' <= ToStart(q, MaxAttempts) + MaxAttempts /\ ToStart(q, MaxAttempts)' \in Nat
    BY <2>2 DEF ToStart
  <2>6. /\ sends[q] \in Nat /\ accepted[q] \in Nat /\ lost[q] \in Nat
        /\ "first" \in Kinds /\ "outbox" \in Kinds
    BY <2>1 DEF DeliveryTypeOK, Kinds
  <2>7. sends[q] + ToStart(q, MaxAttempts) <= MaxAttempts * (2 + crashes)
    BY <2>1, <2>6, LeftIsNat, OneMoreStart DEF WithinBudget
  <2>8. accepted[q] + ToStart(q, 1) <= 2 + crashes + lost[q]
    BY <2>1, <2>6, LeftIsNat DEF WithinBudget
  <2>9. sends'[q] + ToStart(q, MaxAttempts)' <= MaxAttempts * (2 + crashes')
    BY <2>1, <2>2, <2>5, <2>6, <2>7, LeftIsNat, OneMoreStart
  <2>10. accepted'[q] + ToStart(q, 1)' <= 2 + crashes' + lost'[q]
    BY <2>1, <2>2, <2>4, <2>6, <2>8, LeftIsNat
  <2>. QED  BY <2>2, <2>3, <2>4, <2>5, <2>6, <2>9, <2>10 DEF WithinBudget
<1>5. ASSUME NEW q \in Deliveries, NEW j \in Kinds PROVE TaskKnows(q, j)'
  BY DEF IInv, DeliveryTypeOK, Kinds, TaskKnows, Answered, Crash, rowVars, taskVars, ghostVars, boundVars
<1>. QED  BY <1>1, <1>2, <1>3, <1>4, <1>5 DEF IInv

\* Steps that change nothing.
LEMMA StutterInv == IInv /\ UNCHANGED deliveryVars => IInv'
BY DEF IInv, DeliveryTypeOK, NoUntrackedSend, StatusIsEarned, Answered, WithinBudget, SendsLeft, AcceptsLeft,
       ToStart, TaskKnows, Answered, deliveryVars, rowVars, taskVars, ghostVars, boundVars

LEMMA NextInv == IInv /\ [DeliveryNext]_deliveryVars => IInv'
<1> SUFFICES ASSUME IInv, [DeliveryNext]_deliveryVars PROVE IInv'  OBVIOUS
<1>1. ASSUME NEW e \in Events, StoreDiff(e) \/ Dispatch(e) PROVE IInv'
  BY <1>1, StoreDiffInv, DispatchInv
<1>2. ASSUME NEW e \in Events, NEW w \in Webhooks, TestWebhook(e, w) PROVE IInv'
  BY <1>2, TestWebhookInv
<1>3. ASSUME NEW w \in Webhooks, DeleteWebhook(w) PROVE IInv'  BY <1>3, DeleteWebhookInv
<1>4. ASSUME NEW d \in Deliveries, Deliver(d) PROVE IInv'
  BY <1>4, RecordPendingInv, TakeUpInv, SendAttemptInv, MarkDeliveredInv, NoteFailureInv,
     MarkFailedInv DEF Deliver
<1>. QED
  BY <1>1, <1>2, <1>3, <1>4, OutboxSweepInv, CrashInv, StutterInv DEF DeliveryNext

(* The inductive invariant: each task knows its row and its attempts, and    *)
(* what was sent and may still be sent fits into the starts so far.          *)
THEOREM DeliveryInvariantHolds == DeliverySpec => []IInv
BY InitInv, NextInv, PTL DEF DeliverySpec

(* What the table of deliveries says is so, for every number of webhooks,    *)
(* events, crashes and failures: no request leaves without its row, and each *)
(* verdict has the answers it stands for.                                    *)
THEOREM DeliveriesAreTrackedHolds == DeliverySpec => []DeliveriesAreTracked
<1>1. IInv => DeliveriesAreTracked  BY DEF IInv, DeliveriesAreTracked
<1>. QED  BY <1>1, DeliveryInvariantHolds, PTL

(* A delivery is accepted at most once for its own task, once for each start *)
(* of the process and once for each answer that did not come, and sent at    *)
(* most MaxAttempts times for the task and for each start.                   *)
THEOREM DuplicatesAreBoundedHolds == DeliverySpec => []DuplicatesAreBounded
<1>1. ASSUME IInv, NEW d \in Deliveries
      PROVE  accepted[d] <= 2 + crashes + lost[d] /\ sends[d] <= MaxAttempts * (2 + crashes)
  <2>1. WithinBudget(d) /\ DeliveryTypeOK  BY <1>1 DEF IInv
  <2>2. /\ crashes \in Nat /\ sends[d] \in Nat /\ accepted[d] \in Nat /\ lost[d] \in Nat
        /\ MaxAttempts * (2 + crashes) \in Nat
    BY <2>1, OneMoreStart, CrashesAssumption DEF DeliveryTypeOK
  <2>. DEFINE B == MaxAttempts * (2 + crashes)
  <2>3. /\ sends[d] + SendsLeft(d, "first") + SendsLeft(d, "outbox") + ToStart(d, MaxAttempts) <= B
        /\ accepted[d] + AcceptsLeft(d, "first") + AcceptsLeft(d, "outbox") + ToStart(d, 1)
             <= 2 + crashes + lost[d]
    BY <2>1 DEF WithinBudget
  <2>4. B \in Nat  BY <2>2
  <2>5. "first" \in Kinds /\ "outbox" \in Kinds  BY DEF Kinds
  <2>. HIDE DEF B
  <2>6. sends[d] <= B /\ accepted[d] <= 2 + crashes + lost[d]
    BY <2>1, <2>2, <2>3, <2>4, <2>5, LeftIsNat
  <2>. QED  BY <2>6 DEF B
<1>2. IInv => DuplicatesAreBounded  BY <1>1 DEF DuplicatesAreBounded
<1>. QED  BY <1>2, DeliveryInvariantHolds, PTL
=============================================================================
