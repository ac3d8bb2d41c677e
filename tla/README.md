# Verification of API Radar

API Radar compares versions of API specifications, names the consumers that a breaking change affects, and blocks the pull request. This directory holds TLA+ models of the parts of it whose correctness depends on order: what happens between two SQL statements, during a request that times out, after a crash, or when two processes do the same thing at once. It also holds models of the engines that compare OpenAPI, GraphQL and Protobuf specifications, where there is no concurrency and the difficulty is the combination of rules.

Every module is translated from the source: Rust for the server, the command line and the engines, TypeScript for the desktop shell, TypeScript and Python for the SDKs. TLC checks each on a small instance, and TLAPS proves the most important properties of all of them for every instance.

    tlc -workers 2 -config csv_runner.cfg CsvRunner      check one run
    tlapm CsvRunnerProofs.tla                            check one set of proofs

`PROJECT.json` maps each definition to its lines of source, lists the runs, the mutants (a plausible bug for each property, which the property finds) and the hazards at their lines.

## 1. The system

The repository has a server (`radar-api`: axum, one SQL pool, SQLite on a desktop or Postgres with several replicas), a command line (`radar-cli`, run in CI), a library of diff engines (`radar-core`), a static scanner, a desktop shell that runs the server as a child process, two SDKs that report usage, and a dashboard.

    pull request ── radar check ──► POST /v1/diffs ─────► DiffStore ──► webhooks (background tasks)
                        │               ▲                     ▲              │
                        │               │ diff engine         │              └► outbox sweep after a start
                        │               │ (radar-core)   scheduled scans (one loop per replica)
                        ├─► blast radius, coverage ◄── evidence ◄── SDKs, OTLP, gateway logs, radar scan
                        ├─► label (GitHub), acknowledgement ──► decision ──► policy_decision
                        └─► one comment on the pull request

Three facts shape nearly all behaviour:

- State is in SQL tables. Most handlers are several statements outside a transaction, so handlers interleave statement by statement. Only `persist_diff_atomic` and the ingestion handlers open transactions.
- Background work is a `tokio::spawn`. It is not persisted: a crash loses it, and only webhook deliveries and scans have something that looks for lost work.
- Errors of background statements are mostly logged or dropped, and the task carries on.

### Components

| Component | State | Operations | What is hard | What makes it correct |
|---|---|---|---|---|
| CSV Runner (`csv_runner.rs`) | `csv_run_job`, `csv_run_result`; the local state of one task per job | create, cancel, the executor's eight awaits, hourly purge | cancel and purge race the executor; any statement may fail; crash | a verdict means what it says and is final; cancellation stops requests; no request is repeated that must not be |
| Webhooks (`webhooks.rs`) | `webhook`, `webhook_delivery`; one task per delivery | register, delete, test, dispatch, deliver with delays, outbox sweep | the sweep and the live tasks; deletion cascades; crash between send and update | no untracked request, earned statuses, bounded duplicates, nothing pending forever |
| Scheduled scans (`scans.rs`) | `scheduled_scan` with its lease, `spec_version`; one loop per replica | register, delete, poll, claim, execute | replicas, runs that outlast a poll, bodies that do not parse, crash | one run at a time, a lease that is not lost, no drift unreported |
| Diff store (`diffs.rs`) | `spec_version`, `diff`, `change`, share tokens | `create_diff`, `compare_specs`, `batch_compare`, `get_diff` | equal requests at once; requests dropped in a transaction | a transition is stored once, completely, and everybody is given the same id |
| OpenAPI engine (`diff.rs`) | none | `diff_openapi` | recursion, composition, direction of data | unchanged means no change; what breaks is not called safe |
| GraphQL engine (`graphql.rs`) | none | `parse`, `diff_graphql` | extensions in any order; one rule per kind and direction | what breaks a client is breaking, and little else |
| Protobuf engine (`proto.rs`) | a cursor over the text, a stack of blocks | `strip_comments`, `parse_proto`, `diff_proto` | a hand-written parser that skips what it does not know | everything written in a form it knows is read, where it is written; wire numbers are identities |
| Policy gate (`radar-cli`) | a run's local state; reads most tables; one comment | `radar check` | nine calls that fail independently; data that changes between two of them; configuration | never green over a known affected consumer; never red without cause |
| Blast radius, coverage (`diffs.rs`, `sampling.rs`) | `usage_event`, `call_site`, `impact_evidence`, `subscription` | two reads, the first of which writes | the two reads are not one | part of the gate |
| Ingestion (`ingestion.rs`, `consumers.rs`) | evidence tables, deny lists | five batch endpoints | owners and the deny list are read item by item before the transaction | batches are all or nothing, in one organisation, without denied fields |
| Acknowledgements, decisions | their tables | create, list | expiry | part of the gate |
| Settings and retention (`settings.rs`, `main.rs`) | `settings` per organisation | read, four upserts, hourly purge | failing reads, concurrent PUTs, requests that break off | no organisation is purged with another's window; what is due goes |
| Digest (`notifications.rs`) | a key per week in `settings` | hourly loop | restarts, replicas, a clock that drifts against the hour | one digest a week |
| Viewer's bundle (`scalar_update.rs`) | two files beside the database | update, readers of bundle and version, upgrade | updates that overlap, writes that break off, a crash between the files | the bundle served is of the version shown |
| `radar scan` (`scan.rs`) | a run's local state; `call_site`, `impact_evidence` | chunks, collections, registration with its fallback | calls that fail after they were carried out, runs at the same time | a run has stored what it says it has |
| Release notes (`release_notes.rs`) | `release_note` with two statuses | generate in the background, poll, PATCH status | read-check-write; crash | only allowed transitions; whole notes; generation ends |
| Authentication (`auth.rs`) | two cookies, state tokens at the provider | login, callback, logout, the scope of a request | replayed and mixed-up callbacks, providers that answer anything | a session names an organisation, and is of an unused login its browser asked for |
| Registration (`services.rs`, `consumers.rs`, `webhooks.rs`, `scans.rs`, `evolution.rs`, `playground.rs`, `catalog.rs`) | one table each | upserts by SELECT then INSERT, deletions, toggles, catalog sync | equal requests at once, owners that appear between two statements | tenants stay apart; harm needs two requests at once |
| Rate limiter (`lib.rs`) | a map behind a mutex | check, prune | window boundary, clients behind one proxy | bounded rate; nobody is refused for ever |
| SDKs (Node, Python) | queue, timer, worker thread | push, flush, destroy | timer against threads against shutdown | nothing is sent twice, left behind, or lost without a reason |
| Desktop shell (`index.ts`) | child process, guard flag, PID file, windows | start, health check, recovery of the database, one restart, stop | callbacks in any order, kills, reboots, reused PIDs | one backend of its own; nothing that works is harmed; a loss is answered |
| Audit, AI features, syntax-tree scanner, dashboard, action | | | | see section 7 |

## 2. Modules

### CsvRunner, JobLifecycle

`CsvRunner` has one variable per column of `csv_run_job`, the verdict of each row, and for each job the local variables of its executor with a program counter for the next await. Each SQL statement and each HTTP request is one action: `SetJobRunning`, `NextRow` (with `job_is_cancelled`), `RejectRow`, `SendAttempt`, `RetryCheck`, `RecordResult`, `UpdateProgress`, `FinalizeJob` are the executor's; `CreateCsvRun`, `CancelCsvRun` are handlers; `PurgeCsvRun` is the retention pass; `Crash` kills all tasks and leaves the tables. Any statement of an executor may fail (`SqlFault`), with the consequence the code has for it: a failed read of the status means "not cancelled", a failed progress update ends the run as failed, the others are dropped. A job's status is a column that three parties write without a transaction; that is the whole difficulty.

`JobLifecycle` is what a client may rely on: pending, running, a verdict; progress that only grows; rows left undone only in a failed or cancelled job. `ImplementsLifecycle` says CsvRunner implements it, with status, total and completed rows as the refinement mapping. The abstract module is wider than the documentation in two places that the code needs: a cancellation before the start is overwritten, and progress may be written after a cancellation.

### WebhookDelivery

An event dispatches one delivery per live webhook. A delivery has its row and up to two tasks: the one that was spawned for it, and one of the outbox sweep that runs once after each start. The tasks share no lock and update the row by id whatever its status, so they are two processes per delivery in the model. The delays of the retries are not modelled: the steps are separate, so any delay is covered. A request has three outcomes: a 2xx, a refusal or an unreachable receiver, and a receiver that takes the request but whose answer is lost or later than the timeout (webhooks.rs:560), which the loop cannot tell from a refusal and sends again. Deleting a webhook takes its deliveries along through the foreign key; later updates find no row.

### ScheduledScan

One scan, any number of replicas. `Poll` is the SELECT of the scheduler, `Claim` the compare-and-swap on `last_run_at` with the spawn of `execute_scan`, and the eight steps of an execution follow the code's statements. Time matters for the lease: a timestamp is represented by its age, one unit is `MaxRun`, the longest time from a poll to its claim and from a claim to the end of the run. `Tick` waits for anything that is late. That `Interval` is more than twice `MaxRun` is the assumption `TimeAssumption`: the code allows intervals from 15 minutes, and a run is one fetch with a timeout of 30 s and a handful of statements. Equality of timestamps is identity of the write that made them, which is what a snapshot's `fresh` says. The handlers of DiffStore that insert a `spec_version` too (diffs.rs:432, :451, and `batch_compare` at :1628) are left out here: drift is between the rows that scans store.

### DiffStore

`stored`, `diff`, `changes`, `share` are the tables by transition; a request has a program counter, the transition it is about and the number of change rows in its open transaction. The ids of `spec_version` are hashes of the content, so one pair of ids is one transition with one list of changes. `InsertDiff` waits while another open transaction holds the key, as the unique index makes it in Postgres; SQLite has a single writer, which allows fewer interleavings. A request may be dropped at every await (`Drop`) or fail at every statement (`Fail`); either way its transaction is rolled back. `batch_compare` never announces what it stores.

### OpenApiDiff, MCOpenApiDiff

A specification is a map of operations and a graph of schema objects; a `$ref` is an edge, so recursive components are cycles. `Start` compares operations, parameters, bodies and responses, and `Visit` is one call of `diff_schema_properties`; the frames to run are a set because the calls share nothing but the list of changes. The guard against cycles is the code's: it looks for the pointer of the base schema on the path. A pointer is a schema and its copy: what a `$ref` leads to is the specification's own (copy 0), but `merge_all_of` clones the properties it collects, so below a flattened `allOf` everything up to the next `$ref` is a copy made by that call (`CopyBelow`). `StackLimit` is the number of nested calls that the stack has room for; a call beyond it is the step `Overflow`, which ends the process. A change is at a label, the path below its operation (`Property`, `Position`).

Lengths behave as bounds do and patterns as formats do, so they are not kept apart. Security schemes, response headers and media types other than `application/json` are not compared by the engine and not in the model.

What is left uncompared is recorded with one of six reasons, each a blind spot of the engine:

- `cycle`: the base schema is its own ancestor, while the head is another schema than there;
- `untyped`: one side has no type;
- `composed`: an `allOf` with members that are not plain objects, or whose properties overlap;
- `unresolved`: a `$ref` leads nowhere;
- `undeclared`: `required` names a property that is not declared;
- `range`: `2XX` on one side and several codes on the other.

The property that matters, `BreaksAreNotSafeUnlessSkipped`, does not use the engine's rules at all: `MCOpenApiDiff` generates the values that a schema accepts and tries them on the other side (`Values`, `Accepts`). A request that an old client may send and the new server rejects, or an answer that the new server may give and an old client cannot read, must be reported as breaking or risky.

### PolicyGate, MCPolicyGate

Runs of `radar check` on one pull request, against the tables they read and the comment they write. A run is: post the diff, list the consumers, read each consumer's evidence, answer; read the coverage when the answer was empty; read the label; read the acknowledgement and decide; record the decision; find the comment; write it. `exit_code` and `decide` of policy.rs are the operators `ExitCode` and `Decided`. Every call may fail, and one that failed may have been carried out; a server may stop answering for good. Meanwhile evidence arrives and ages, consumers subscribe, labels and acknowledgements come and go. The configuration (`block_on`, `fail_mode`, `allow_override_with`, connected or not, serial or not) is chosen in the initial state.

Abstractions: one service with one operation and one field; the id of a diff is the report it was made from, since `create_diff` fingerprints the content; the three statements of blast radius for one consumer are one step; a comment is counted, its text and author are not kept; the limit of five rows per consumer is ignored, because one row is enough for an entry.

### Session, Registry, MCRegistry

`Session` is the OIDC login of `auth.rs`: the nonce in the cookie of a browser, the state token, the callback, the session, and `ScopeOf`, the organisation a request acts for (or the whole installation, the empty string that the SQL reads as "any"). A callback has two steps: `CheckState` compares the state with the cookie the browser sent (auth.rs:316-318), and `OidcCallback` is what follows the first await: the provider's answers, whatever they are, the spending of the authorization code, and the two cookies (:624-634), which are set without another look. Between them the same browser may log in again in another tab, finish another callback or log out. Signatures are not modelled: a token is valid or it is not.

`Registry` extends it with the handlers that write rows of an organisation: services, subscriptions, webhooks, scans, consumers, catalog sources and their sync, sandbox environments, evolution rules. A request sits in a slot with a program counter, each SQL statement is a step, and a request may be dropped at any await (the router's timeout of 30 s, lib.rs:606-626, or a client that hangs up). `since`, a history variable, collects what others committed while a request was under way; the properties use it to say that something goes wrong only when two requests overlap. `MCWorkloads` lists the operations that meet in the same rows; a behaviour mixes those of one workload.

### Retention, Digest, ReleaseNotes, ScalarUpdate, Housekeeping

`Retention`: PUT /v1/settings writes key by key; the hourly pass reads the windows of all organisations and deletes with one statement each, any of which may fail; a row has the day it was made. `Digest`: the loop of each replica sleeps an hour, looks at the clock, mails, and marks the week with a statement that always fails. `ReleaseNotes`: a note made by hand or by a background task with polling, PATCH in two statements, crashes, dropped requests; a note is the sets of changes under its headings. `ScalarUpdate`: an update of the documentation viewer downloads a bundle and writes it and its version into two files, one after the other; a file is torn while it is written, and stays so when the write fails or the process dies. `Housekeeping` puts the four in one specification: the variable `area`, fixed by Init, says which of them a behaviour is about, so that TLC explores the sum of four state spaces that share no rows rather than their product.

### Batcher, RateLimiter, FixedWindow, Ingestion, ScanCommand, UsagePipeline

`Batcher` is both SDKs: Node with a timer in the event loop, Python with a timer thread, a worker thread and a queue that ends with a sentinel. `RateLimiter` has the buckets by client address with their ages; `FixedWindow` is what it implements: a counter that starts with a request and ends by age. `Ingestion` is the five batch endpoints: per item a check of the owners of its service and consumer and a look at the deny list, then one transaction; a request carries the list of its remaining statements. `ScanCommand` is `radar scan`: call sites in chunks, then for each collection file a registration and its evidence, under the collection's name or, when the registration fails, under the fallback. `UsagePipeline` composes them: an event is pushed, batched, put on a network that may lose it, admitted or refused by the limiter, checked, sampled and stored. Again `area` separates the way of SDK events, the limiter among its clients, requests that meet in Ingestion, and runs of the scan. Inside the area "sdk", the SDK waits while a batch is on its way: neither SDK looks at an answer, so the two sides share no state and every interleaving is equivalent to one of those explored.

### DesktopShell

The main process of the Electron shell, from the kill of what an earlier shell left behind to `before-quit`. Sidecars are numbered by their spawn; each has its own state, and the shell learns of an exit one event later and of its log later still. Killing the shell, rebooting, the reuse of a PID by another program, a program that answers on the port, and a database that the migrations refuse are actions or initial states. Spawning the sidecar and writing its PID file (index.ts:162-172) is one step, so a kill of the shell between the two is left out.

### SchemaChange, GraphQlDiff, ProtoDiff, ProtoParser, SchemaEngines

`GraphQlDiff` and `ProtoDiff` are the engines as operators. `ProtoParser` is the hand-written parser as a state machine: a stack of scopes, one action per branch of its loops, and `StripComments` on characters. It reads words with their class (a name, a decimal number, a number with options glued to it, a word with other characters in it, a label, a map): `FieldStmt`, `EnumValueStmt` and `Signature` take statements apart word by word as `parse_field_stmt`, `parse_enum_value_stmt` and `parse_rpc_sig` do, and `Package` looks for the package between semicolons as `find_package` does. `SchemaEngines` releases versions one after the other and compares each with the one before. What a release breaks is defined by its users (`GraphQlBroken`: what a client sends and reads; `ProtoBroken`: what a peer sends and reads by number), not by the engines' rules. The types of both schemas are those of the code's structs (`GqlTypes`, `IsProtoSchema`); `DocumentsAssumption` says that the versions compared have them, and that in a Protobuf schema a message has a field number once and an enum or service a name once, which protoc enforces. `TokensAssumption` and `TextsAssumption` say that documents are sequences of tokens and texts sequences of characters.

## 3. Runs

| Run | Module | States | Shows |
|---|---|---|---|
| `csv_runner` | CsvRunner | 372,967 | safety, finality, refinement and termination of one job |
| `webhook` | WebhookDelivery | 241,830 | deliveries across two crashes |
| `scan` | ScheduledScan | 556,614 | lease and drift with two replicas |
| `diff_store` | DiffStore | 599,025 | storing and announcing transitions |
| `openapi_diff` | MCOpenApiDiff | 794,918 | all pairs of 456 specifications, and of 8 that recurse through compositions |
| `policy_gate` | MCPolicyGate | 498,069 | two runs of a pull request, five configurations |
| `registry` | MCRegistry | 235,654 | logins, and registrations of two organisations that overlap |
| `housekeeping` | MCHousekeeping | 317,472 | retention, digest, release notes and the viewer's bundle with failures and crashes |
| `usage_pipeline` | MCUsagePipeline | 291,279 | events from the SDK to the tables; limiter; ingestion; `radar scan` |
| `desktop` | DesktopShell | 731,366 | two launches of the shell with three sidecars |
| `schema_engines` | MCSchemaEngines | 249,138 | three releases in GraphQL and Protobuf; the Protobuf parser |
| `catalog_sync` | MCRegistry | violation | a sync that reports ok has registered nobody |

A property of a run is often a conjunction of named parts, each with its own comment where it is defined; this section explains the parts.

Deadlock is checked in `schema_engines`, where it means that the parser cannot go on in the middle of a document. Elsewhere clients, tasks and engines come to an end, as they do in the code, and the shell is off after its last launch.

### Bounds, and why they are enough

- `csv_runner`: one job, because jobs share no row and no variable (the theorems are for any set of jobs); three rows and three attempts, so that a row can be first, middle and last and every outcome can follow every other; two failing statements, which is one more than any property can absorb by accident. Crashes are not bounded: a crash ends all tasks and nothing restarts them.
- `webhook`: one event and one webhook, for the same reason; the code's four attempts; two crashes, so that the sweep of the second start meets what the first sweep had taken up; one failing statement.
- `scan`: two replicas and two executions that may be alive (`OneRunAtATime` is about the second); two readable specs and one page of HTML; one crash and one failing statement; `Interval` = 3 is the smallest value that `TimeAssumption` allows.
- `diff_store`: three requests of which two can race while one is dropped, two transitions so that the wrong one can be meant, two changes so that a transaction can be half-way, one failing statement, one reader.
- `openapi_diff`: six families of specifications (scalars, objects, recursion, composition, parameters, messages), and all pairs across families; a seventh, of schemas that recurse through an `allOf` or a `oneOf`, inline or behind a `$ref`, is compared with itself. `StackLimit` is 20, more than the 16 calls that `DepthIsBounded` allows four schemas, so that a stack that overflows is not one that was too small. Four schema objects suffice for a cycle through two components with a third below. Values are tried to depth 3, deeper than a non-recursive specification here goes.
- `policy_gate`: two runs, two consumers (one subscribed and traced, one known by a collection only), a row of evidence for each, two events by others, five configurations: the policy that blocks for active consumers with either way to fail and either override, the same without an API, and the two other policies. They differ in what they can get wrong; a sixth row or configuration doubles the state space and adds no new order of steps. Runs that are not serial are checked in an unconnected configuration only, to keep the state space small; the theorems cover every configuration.
- `registry`: two organisations and the wildcard, two browsers, two logins so that one callback can arrive in place of the other, or one tab's while another's is under way; three requests in two slots, so that a request can start after another has finished while a third is half-way; one id of each kind, since requests for different ids do not meet. The theorems are for any number of each.
- `housekeeping`: two organisations with their rows, two PUTs, one failing statement per behaviour, three days against windows of one and two; two replicas over two weeks of ten ticks with the digest hour in the middle; two notes, two PATCHes (two are needed to overlap), a diff of two changes; two updates of the bundle, of up to two published versions.
- `usage_pipeline`: three events and batches of two, so that one batch fills up and one is left for timer or shutdown; two clients behind one proxy, with the forwarded address believed or not; a limit of one in a window of two; two requests of any kind and organisation in Ingestion; two runs of the scan over two chunks and two files of one collection.
- `desktop`: three sidecars, so that a restart can follow the one restart allowed; two launches, so that one finds what the other left; two attempts per wait; two deaths of a sidecar. At the bound on sidecars `spawn` throws, which it may do at any time. Writes of the PID file are assumed to succeed.
- `schema_engines`: for each engine a handful of types that vary in every attribute the engine looks at, in all sequences of three releases, so that a step can be skipped; for the parser, files with a service and a message. The message has any two of thirteen parts in either order, and any three of seven: fields with each label, with glued and spaced options and with a number protoc reads and the parser does not, maps, a oneof, a nested message, an enum, a group, reserved statements over two lines, and options with a block for their value in the message, in an enum and in a oneof. The service has unary and streaming calls, bodies with blocks and options, one of them with a block. The package is first, last or absent. Besides, every sequence of words up to a short length behind each kind of beginning.

### What the properties say

CsvRunner. `VerdictsAreHonest`: a job called completed has done all its rows, and a job never looks cleaner than its results. `RequestsAreBounded`: one request at most follows a cancellation, plus one for each failed read, and a request that is not safe to repeat is sent once. `SettledStays`: verdicts are final and a cancelled job is not revived once its executor is past its first statement. `ImplementsLifecycle`. `JobSettles`: without crash, failure or a dropped POST, a job ends.

WebhookDelivery. `DeliveriesAreTracked`: no request before its row, delivered only after a request that was answered with a 2xx, failed only after four that were not. `DuplicatesAreBounded`: a receiver takes a delivery at most 2 + crashes times, and once more for each answer that was lost or came after the timeout; whatever is lost, it is called at most 4 * (2 + crashes) times. `NothingStaysPending`: the sweep does what it is for.

ScheduledScan. `ScansAreExclusive`: one run at a time, also across replicas. `LeaseNeverRewinds`: no write makes a scan due early. `UndisturbedDriftIsReported`: without crash or failure, whenever `last_spec_hash` moves from one spec that parses to another, a diff of exactly these two is stored, unless the last body did not parse. `RunEnds`: no scan stays "running".

DiffStore. `StoredOnceForGood`: a transition is stored whole, everybody is given one id, it is announced once (`StoredOnce`), and no racing request replaces the diff (`DiffsAreKept`; the code has no retention of diffs). `RequestsEnd`.

OpenApiDiff. `WalkIsSound`: if the base, its `allOf`s written out, unfolds to finite schemas (`Unfolds`), the walk is bounded however `$ref`s recurse, and it finds nothing in equal specifications. Without `Unfolds` the walk does not end, which `RecursionStops` (section 4) says. `KindChangeReportedOnce`: at a path that is one place, a change of type is one change. `BreaksAreNotSafeUnlessSkipped`.

PolicyGate. `AffectedConsumersBlock`: an enforced run that is not overridden never passes a breaking change while the database named, from the run's first step on, a consumer of the changed surface. `VerdictsAreJustified`: silence counts as safety only with evidence on file and only under the narrow policy; an override had a label or an acknowledgement of this very diff; a block has a break. `OneCommentWhenSerial`. `RunsEnd`: also when a server hangs.

Registry. `TenantsAreApart`: every session names an organisation, the wildcard scope exists only on a server without tenants, a subscription or scan that saw its service stays in its organisation, and so a tenant's service lists the tenant's consumers. The exception is explicit: `require_org_owned` lets an absent service through, and whoever registers the id later owns what was tied to it. `NobodyActsForAnother`: a new session is of a login that its own browser started and has not used, the latest it had started when the callback's cookie was compared (a login of another tab that starts later, while the provider is asked, is passed over: the code does not look again); and a request writes rows of its own scope only, except for a service that another organisation registered between the check and the upsert. `HarmNeedsOverlap`: second rows of one key and tokens that come back take two requests at once.

Housekeeping. `NoticesAreRight`: a replica mails a week's digest once however often it restarts, whoever polls a generation sees nothing or the whole diff, and when nobody writes and nothing was disturbed the viewer's bundle is of the version shown. `WindowsArePromises`: a PUT that met no other is in force, and no row goes before the window its organisation had when the pass began. `StatusFollowsWorkflow`: a status skips a step only by PATCHes that overlap. `NothingIsLeftUndone`: overdue rows go in the end, and a pending generation ends unless its task was lost.

UsagePipeline. `EventsAreKept`: each event is in exactly one place or lost to a known reason, stored at most once, batches are whole, nothing is left in a closed SDK, the back-pressure is never needed, and what a scan counts as stored is stored. `ImplementsFixedWindow`. `LimitIsFair`: twice the limit at most in any window, and nobody with an address of its own is refused before spending it. `IngestionIsScoped`: nothing is stored for another organisation or against the deny list, except around a registration, a change of the list or a failed read. `NothingWaitsForEver`: refusals end, events leave the SDK.

DesktopShell. `OneOwnBackend`: every live sidecar is the one in the PID file, the one that serves knows the shell's token, and one restart is made per incident unless another program answered for the sidecar. `WhatWorksIsKept`: a serving sidecar is not killed except to quit, on Windows the start-up kill is checked against the reuse of a PID, a good database is never moved away, and a sidecar that was declared healthy and crashes is restarted, also the second time. `LossIsAnswered`: a lost backend serves again or is told, and every boot ends.

SchemaEngines. `ReportsAreTrue`: a release that breaks a user is reported as breaking; one that is reported breaks a user, but for GraphQL fields and arguments whose nullability changed and whose type did not; equal versions have no changes. `SafeStepsCompose`: compatible steps add up to a compatible release, so who skips a version is not broken. `DocumentsAreRead`: extensions may come before or after their type, comments go and line breaks stay, and every turn of the parser's loops uses up text. `EveryDeclarationIsRead`: every field, value and rpc of a written file ends up, with its type and number, in the declaration it is written in, under its qualified name. Three things are excepted and named by the file: what is written in a form the parser does not know is left out, but takes nothing else with it (a hexadecimal number, `=` or `map <` spaced otherwise, a group, a field with a block among its options); a package behind a declaration qualifies nothing; and if a block in an option ends its declaration early, only what stands before is read. `OptionsAreSkipped` (violated, section 4) would have the rest read too.

### Fairness

All fairness is weak. For CsvRunner, DiffStore and WebhookDelivery it is the promise of the tokio runtime to poll a spawned task or a handler whose await is ready; HTTP requests have timeouts of ten seconds, so they always get an outcome. For ScheduledScan it is the scheduler's endless loop, the fetch's timeout and the passing of time. For PolicyGate it is that each call of a run ends in at most 30 s, which `build_client` (api_client.rs:79-84) and the clients of github.rs set. For Housekeeping it is the endless loop of main.rs, the passing of days and the spawned generation tasks. For UsagePipeline it is that a batch on the network arrives or is lost, that a handler, the clock, the timer and the worker thread go on, and that `destroy()` does not stop half way. For DesktopShell it is the event loop: its timers fire and its exit events are delivered, and what a sidecar wrote reaches its log; a sidecar may hang while it starts, and users decide nothing. Clients, operators, evidence, labels, crashes and failures owe nothing. Registry and the engines state safety only, and need none.

## 4. Findings

The run `catalog_sync` shows a bug: the INSERT of the catalog sync (catalog.rs:280) lists the column `created_at`, which the table `consumer` has in no migration. It fails for every owner that is not registered yet, the error is dropped, the owner is counted and the source reports "ok". catalog.rs:227 says "upsert one Consumer per unique owner".

Eight more places do not do what a comment or document of the repository says. Each is stated as a formula in its module; adding it to the configuration of the component's run (as INVARIANT or PROPERTY) makes TLC print the steps that lead there.

| Formula | Code | What happens | What is said |
|---|---|---|---|
| `CancelAckIsFinal` (CsvRunner) | csv_runner.rs:333 | `set_job_running` overwrites an acknowledged cancellation; every row is sent | docs/openapi.yaml:1448 "Cancels a pending or running job" |
| `AcceptedIsDelivered` (WebhookDelivery) | webhooks.rs:718 | the outbox takes up deliveries in flight; an accepted one may end as failed | EPIC-K-L-PLAN.md:295-296, lib.rs:296 |
| `DriftIsReported` (ScheduledScan) | scans.rs:527 | `last_spec_hash` moves to a body that does not parse; the drift across it is never stored | EPIC-K-L-PLAN.md:355 "And if the spec changed: a Diff is created" |
| `HandedOutTokenWorks` (DiffStore; needs two readers) | diffs.rs:590 | the share token is minted without a condition; of two first readers one gets a dead link | diffs.rs:582-584 "Set only when missing, then reused." |
| `RootKindChangeIsBreaking` (OpenApiDiff) | diff.rs:829 | the arm for `allOf` precedes the comparison of kinds; an array that becomes an envelope written with `allOf` is a safe addition | EPIC-O-MITIGATION-PLAN.md:88-90 |
| `AcknowledgedRunIsNotBlocked` (PolicyGate) | policy.rs:170 | an acknowledgement counts only when `allow_override_with` is set | docs/policy-reference.md:95 |
| `RecursionStops` (OpenApiDiff) | diff.rs:941 | a schema that refers to itself from inside an inline `allOf` is cloned at every level; the walk overflows the stack | diff.rs:772-776 "stop recursing to avoid a stack overflow" |
| `OptionsAreSkipped` (SchemaEngines) | proto.rs:446 | an option with a block for its value ends its declaration; what stands behind is lost | proto.rs:444 "Skip a statement up to (and including) its terminating ';' or newline." |

The last two are bugs that a user meets with ordinary specifications.

`RecursionStops`: `merge_all_of` puts a clone of every property into the flattened object (diff.rs:941), so a schema that is written inside an `allOf` has a new address at every level, and the guard, which looks for an address it has seen (diff.rs:779), never finds one. A component `Node` with a property `child: {allOf: [$ref Node]}` makes the walk recurse until the stack overflows and the process aborts, even when the specification is compared with itself. diff.rs:772-776 says the walker stops "recursing to avoid a stack overflow", which holds for `$ref`s only.

`OptionsAreSkipped`: `skip_statement` stops at any `}` (proto.rs:446), so of `option (x) = { a: 1 };` it leaves the brace that closes the value, and the message, enum or service that holds the option ends there. What is declared behind it is lost or, if it is a message or enum, gets another name, and `parse_proto` returns Ok: removing such a field later is reported as no change. proto.rs:444 says "Skip a statement up to (and including) its terminating ';' or newline."

Read in the code while modelling.

Server:

- `get_release_note` (release_notes.rs:128-152) does not select the status, so it always answers "draft".
- A note whose generation is pending or has failed can be PATCHed to published; the task overwrites its content afterwards. A crash leaves it pending for ever, and so does a handler that is dropped between the INSERT and the spawn.
- The digest's mark (notifications.rs:233) uses ON CONFLICT(key), which migration 035 made invalid; the error is dropped and no week is ever marked. A restart does not double a digest only because a new process first sleeps for an hour. Two replicas both send; a loop whose hours drift past Monday 8:59, or a restart in that hour, sends none. The comment at :217 says the key "prevents duplicate sends across restarts".
- If the windows of the organisations cannot be read, `unwrap_or_default` (main.rs:169) makes the list empty, and all organisations are purged with the default of 90 days.
- `impact_evidence.expires_at` is written by no code, so `expire_old_evidence` deletes nothing.
- The router's timeout drops handlers at any await: PUT /v1/settings is then written in part, a catalog sync done in part.
- `require_org_owned` lets an absent service through; `update_sandbox_env` reads the token and writes it back, which can undo a concurrent change; a service without an owner lists the subscribers of all organisations.
- `sampling.rs:39`: a SELECT of the deny list that fails counts as an empty list, and denied fields are stored.
- `collection_evidence_id` (utils.rs:167) does not contain the organisation: a second organisation's row is dropped by ON CONFLICT DO NOTHING although the answer is 202.
- lib.rs:85 calls the limiter a sliding window and :92 says it is keyed on a prefix of the token; it is a fixed window per address, which lets twice the limit through around a boundary.

- A write of `scalar_override.js` that fails leaves a torn bundle that is served until the next update (scalar_update.rs:194); an override stays in force after an upgrade of the application that brings a newer bundle.

SDKs:

- The back-pressure at twice the batch size is unreachable; the send queue of the Python SDK has no bound.
- Python's `_scheduled_flush` re-arms its timer after `destroy()` has cancelled it; what it hands over later is behind the sentinel and never sent.
- Neither SDK looks at the status of an answer: a batch that gets a 429 is lost.

Desktop shell (index.ts):

- After a failed boot the fading splash is the last window; when it closes, `window-all-closed` quits the app under the Retry dialog, although :784-786 lets "the user choose".
- Any program that answers {"status":"ok"} on the port passes `waitForApi`. The sidecar then fails to bind, exits, is restarted and declared healthy at once, so the guard is cleared each time: an endless loop of restarts, despite "never a tight loop" (:653-654). `OneRestartPerIncident` excludes it by `misled`.
- A restart that becomes healthy after the 60 attempts never clears the guard, so the next crash is not retried. A crash while the wait of a restart is pending notifies twice. The kill in `before-quit` (:836-838) has no guard against a reused PID. `fetch` has no timeout, so 60 attempts of 500 ms are no bound.
- `radar-api` migrates and starts its loops before it binds: a second process that fails to bind has already run them.

Engines:

- Protobuf: a block among the options of a member of a oneof ends the oneof, and then the message, as an option with a block does. Fields without spaces around `=`, hexadecimal numbers, `map <` with a space, groups, `//` inside a string, and fields with braces in their options are lost; a package that is declared behind a message is not found, and its names are read without it (proto.rs:95); labels but `repeated`, and membership in a oneof, are not seen; a relative and an absolute name of one type differ.
- GraphQL: a change of nullability in the safe direction is reported as breaking; an extension of another kind replaces the type; `implements` and directives are not compared.

From the components modelled first:

- A CSV job whose process dies keeps the status pending or running for ever: nothing at start-up looks at the table, and the retention pass takes finished jobs only.
- The outbox counts attempts from one again, so the `attempt` column is not the "Number of HTTP attempts made" (openapi.yaml:2429) after a restart.
- A crash between `store_scan_spec` (scans.rs:486) and the diff loses the drift: the next run compares the new spec with itself.
- A change below a response does not say which status it belongs to (diff.rs:699, the prefix is "response" for all), and one of a parameter not where the parameter is (diff.rs:352, `param.id` in the path and in the query): two changes may have one path. `KindChangeReportedOnce` leaves these out (`OnePlace`).
- The cycle guard of the engine looks at the base alone (diff.rs:779); a recursive base and a differently recursive head are not compared below the cycle.
- `fail_mode: open` with `block_on: active_consumers` blocks on any break when the API fails (policy.rs:219-245), while policy-reference.md:58-61 says "Exit 0" and "block only if we have blast-radius evidence".
- `lookback_days` of the policy is never used: the blast radius always looks back 30 days (diffs.rs:822).
- Runtime evidence from OTLP never records a field (ingestion.rs:284-290) and so never matches a change of a field; the comment at diffs.rs:954-956 makes the opposite point for collections.
- Coverage counts `impact_evidence` only, which usage events reach only through an earlier blast radius; api_client.rs:346-352 says "across all consumers and sources".
- A consumer that has usage events but no subscription and no collection is not listed by the blast radius (diffs.rs:806-815).
- An acknowledgement of one change by one consumer passes the whole diff (api_client.rs:315-343); one without a diff id never matches.
- Two runs of one pull request that overlap post two comments, although github.rs:456 calls the operation idempotent.

## 5. Proofs

TLAPS checks eight modules. The theorems hold for every value of the constants that the named assumptions allow: any set of jobs, any number of rows and attempts, any set of replicas, any finite graph of schemas, any set of consumers, runs and configurations, any organisations, callers and requests in flight, any documents, schemas and releases.

CsvRunnerProofs (assumptions: `MaxRows` and `MaxAttempts` positive, `MaxFaults` natural). The invariant `IInv` adds to the types and to `CompletedMeansEveryRow` four statements per job. `TaskInv` ties the program counter to the columns: a live task has a job without a verdict, and it is at the end of the loop only for one of three reasons; without it nothing links "finalize" to the number of rows done. `SendInv` says that `attempt` is the number of requests of the row at hand and that later rows have none; without it a request could be charged to a row twice. `CountInv` bounds the stored counters by the executor's local ones and both by the failed rows in the results table; the stored ones lag, so each needs its own bound. `CancelInv` allows a request under a cancelled status only between a check and its send, or per failed read. From it follow `TypesHold`, `CompletedIsComplete`, `NoFailureIsLost`, `CancelStopsSending`, `SendsAreBounded`, the action property `VerdictsAreFinal`, and `RunnerImplementsLifecycle`, where each step of the executor maps to a step of JobLifecycle or to a stutter.

DiffProofs, the stored diffs (`Size` and `MaxFaults` natural, `None` is no id). `IInv` says that an open transaction has its key for itself and that no diff is stored under it (`KeyIsExclusive`), and what a request knows at each await (`RequestKnows`): both versions are stored before it looks for a diff, all changes are written when it commits, and its answer is the stored diff. Hence `NoPartialDiffHolds`, `SameAnswerHolds`, `AnnouncedOnceHolds` and, as an action property, `DiffsAreKeptHolds`; together they are `StoredOnceForGoodHolds`.

DiffProofs, the OpenAPI engine (finitely many schema objects; the statuses of an operation's responses are distinct). Every caller on a frame's path has a root, the last schema that was not a copy (`RootsOK`). Two callers with the same root have different schemas, because what is below a root without a `$ref` between is nested in it and no schema is nested in itself (`Unfolds`, `NestedBelowIsTransitive`); two segments have different roots, because the guard compares originals. So there is at most one caller for each pair, and by the pigeonhole principle the path is no longer than the square of the number of schemas: `DepthIsBoundedHolds`. The assumption that the base unfolds is part of the property; without it the property is false (section 4). For `SelfDiffIsEmptyHolds` the invariant is that all frames compare a schema with itself; the lemmas show that each operator then finds nothing. For `KindChangeReportedOnceHolds` the labels are a tree (`UnderIsATree`, `StepsDiffer`): the frames that are still to run lead to different places in it, none to or through a place whose change of type is reported (`KindInv`); a visit replaces a frame by frames further down, apart from each other and from what it reports (`ChildrenAreApart`), because the walker does not descend to a property it has reported.

GateAndWebhookProofs, the policy gate (evidence, subscribers and configurations have their types). `GateInv` says of every run that its local state is consistent with its program counter and that what it believes is justified: a consumer in `certain` is still to be read or has been found, "none affected" was concluded from coverage that is still on file, an override has a label or an acknowledgement behind it. Ageing is the one step in which tables shrink, and `certain` shrinks with them. `OneCommentWhenSerialHolds` needs a second invariant, that at most one run is active and that it has looked for the comment before it writes.

GateAndWebhookProofs, the webhooks, a specification of their own (`DeliverySpec`). The bound on duplicates needs a count of what may still happen: `IInv` adds to what each delivery was sent what its live tasks may still send (`SendsLeft`, `AcceptsLeft`) and one whole budget for a task that is still to be started (`ToStart`), and says the sum is within `MaxAttempts` per start of the process, and the accepted requests within one per start and one per lost answer (`WithinBudget`). `TaskKnows` ties each task's program counter to its row, without which a request could precede it. Hence `DeliveriesAreTrackedHolds` and `DuplicatesAreBoundedHolds`, for any number of crashes and failing statements.

ScheduledScanProofs (`TimeAssumption`: an interval is more than twice the longest run; `BoundsAssumption`). `IInv` says that a live execution holds the lease (`HoldsLease`: it is no older than the lease, and the lease is younger than the interval) and that while one is alive no replica has a fresh snapshot to claim with; a fresh snapshot means the lease has run out. Hence `ScansAreExclusiveHolds` and `LeaseNeverRewindsHolds`, for any number of replicas. `DriftInv` stands on it: because an execution is alone, the hash it took from its snapshot is the row's until it writes it (`KnowsHash`), and while nothing fails the newest stored spec is the one of that hash, except between the two writes of the one execution, which stores the diff before the second (`SpecAndHashAgree`). Hence `UndisturbedDriftIsReportedHolds`, for any number of replicas, specs and deployments and a deletion at any time; with a crash, a failed statement or a page that does not parse it is false (section 4).

UsagePipelineProofs (`MaxBatch`, `Window` and `MaxPerMinute` positive; the sentinel of Python's queue is no batch; no bucket is not a bucket; a batch of a client who is no SDK has well-typed items; every file of a scan has a name that is not the fallback). Four results. `LimiterImplementsFixedWindow`: pruning, refusals and requests under other keys are stutters of the abstract counter, because a bucket that is pruned is one that has aged out (`Counted`); `DoorIsAFixedWindow` says so of the limiter inside the pipeline. `LimitsAreFair` is `LimitIsFair`, from the invariant `CountsInv`: an open bucket has counted exactly the requests of its key that are no older than it, all others were counted by one bucket before it, and a bucket that is two windows old has nothing recent left, which is why pruning forgets nothing (`KeyCounts`). `EvidenceIsKept` is `EventsAreKept` for any number of events, batches, requests, runs and files, and `IngestionStaysScoped` is `IngestionIsScoped`. The invariant `PipelineInv` has a part per component.

- `SdkInv`: an event that was pushed is in exactly one of five containers, the queue, a batch handed over, a batch in flight, the losses, the items of a request (`Spread`). No container repeats an event (`OnceHanded`, `OnceFlying`, `OnceLost`, `OnceAsked`); without that a batch that leaves one container could leave a copy behind. `Divided` says what the sentinel of `destroy()` divides: in a closed SDK everything behind it was pushed too late, which is why nothing else can be left.
- `IngestInv`: a request is typed and its counters are within its batch (`Measured`), what it has checked belongs to its organisation or was not registered when it looked (`Checked`), what it has sampled has no denied field unless the list was touched (`Filtered`), and what it dropped had a field (`Excused`); a stored row is of a kept item of an accepted request, and each such item has its row.
- `ScanInv`: what is behind a run's position is stored, unless the run has warned (`OnItsWay`).

BackgroundProofs, the server's background work (an hour is shorter than the week it is in; windows are positive; markers are not values). One invariant per part, and a step of one part is a stutter of the others (`EveryPartSteps`), so `HousekeepingInv` is their conjunction.

- Retention: of two PUTs of one organisation that are under way neither counts as alone, and one that is alone finds every key behind it as it wrote it (`AloneIsKept`); a setting was written by a PUT that has begun (`WritersHaveBegun`); the pass reads from `promised`, organisation by organisation (`PassIsPromised`), which is what makes a window read hours before the DELETE a promise. Hence `WindowsHold`.
- Digest: a replica that has mailed a week did so in that week's hour and sleeps until an hour after it (`SleepsThroughTheHour`). The hour is as long as the sleep, so it never finds the same hour again: the arithmetic of weeks is `TimeSplits`, `OneHourAWeek` and `WeeksGoOn`. The key of the week in `settings` plays no part in it.
- Release notes: content that a task has built or a completed row shows is the whole diff (`ContentIsWhole`), and a PATCH that is not stale has checked the status that is still there (`FreshIsAllowed`). Hence `StatusHolds`.
- Viewer's bundle: two writers know of each other (`WritersHaveMet`), one that has met nobody has the first file to itself (`AloneIsWhole`), and undisturbed files agree (`Undisturbed`). With the parts above it gives `NoticesHold`.

BackgroundProofs, the desktop shell (`DesktopAssumption`: at least one launch and one attempt). `DesktopInv` says that a live sidecar is the one in the PID file and, while the shell runs, its own (`LiveIsOwn`); that during a boot a checksum error in the log, or on its way there, is of a sidecar that has died of this boot's database (`ErrorIsOfThisBoot`), without which the backup could move a good database away; that the guard flag stands for the restart since a sidecar last served (`FlagCounts`); and that only the PIDs of sidecars that are gone are reused. Three more facts carry the action properties: a splash fades only while the shell runs (`FadesInShell`), a sidecar that was declared healthy has its restart still before it (`DeclaredHasARestart`), and a boot that backs up has an old database (`BackUpIsOfTheOld`). Hence `BackendIsOne`, `NothingIsHarmed` and `CrashesAreRetried` (together `WhatWorksStays`), for any number of launches, sidecars, attempts and deaths.

RegistryProofs (`SessionAssumption`, `RegistryAssumption`: organisations, the wildcard, None, Gone and the nonces are different values). `IInv` has four parts. `Shape`: a request names rows under its own scope. `Knows`: what it found in the statements behind it (the owner of the service, the absence of the row, the token of the environment) still holds, or somebody has written the row since; this is what makes a check in one statement worth anything in the next. `Tenancy`: with sessions every request has an organisation, without them everything belongs to nobody; without it the wildcard scope could tie one tenant's consumer to another's service. `RowsAreSound`: a row that saw its service refers to one that exists, whose owner never changes. From it follow the properties of the run `registry`; the logins need an invariant of their own, `LoginInv` of Session: a state cookie, and each callback under way at the time it was checked, are of the latest login of their browser, and nonces are not given out twice. Steps that change no table are handled by one lemma (`SideStep`), steps that do by another (`KnowsStays`) under three conditions on the tables.

SchemaEnginesProofs (`DocumentsAssumption`, `TokensAssumption`, `TextsAssumption`, `ReleasesAssumption`; nothing is assumed of the size or number of documents, schemas, texts and releases). `EnginesInv` has three parts: each report compares a release with the one before it (`ReleasesInv`), the turns of the parser so far and what is left to do are together no more than the tokens and one (`ParserInv`), and a stripped text is what `StripComments` makes of it (`StrippedInv`). What the algorithms compute is in the lemmas.

- Reports: `SafeGraphQl` and `SafeProto` say, without the engine, what a compatible change is. The engine reports no breaking change exactly when they hold (`GraphQlChanges`, `ProtoChanges`). They are transitive (`GraphQlTransitive`, `ProtoTransitive`), which is `SafeStepsComposeHolds` for any number of skipped versions. They are also what the users see: a compatible change breaks nobody (`GraphQlSafe`), an incompatible one breaks somebody or changes the nullability of a field or argument (`GraphQlAlarm`), and for Protobuf the two are the same (`ProtoMeaning`). That is `ReportsAreTrueHolds`. `ProtoMeaning` needs numbers and names to be unique; without that the engine's maps by number hide all but the last.
- GraphQL documents: both loops of `parse_graphql` are folds. After the first a name has the type of its definition (`DefinedTypes`), after the second its extension is added (`ExtendedTypes`). So the map is determined by the set of the items (`Reads`, `OneReading`), and reading them backwards changes nothing.
- Comments: along the fold over the characters what was put out stays clean, a slash being held back until the next character is known, and has as many line breaks as what was read (`StripKeeps`).
- Parser: each of its turns lowers `Pending`, the tokens left, the calls that are open and one for the verdict (`ParseTurn`). A turn that opens a block adds a call and uses up two tokens or more; one that returns for want of text uses up its call.

Folds are recursive functions, and the library's induction theorems take an operator; the proofs use instead that the order of the naturals is well-founded (`Induction`, `BoundedInduction`), with a set in place of the property, and show once that a fold goes through a sequence of values (`FoldExists`).

### What is only model-checked

- Liveness: `JobSettles`, `NothingStaysPending`, `RunEnds`, `RequestsEnd`, `RunsEnd`, `NothingIsLeftUndone`, `NothingWaitsForEver`, `LossIsAnswered`. Fairness and ENABLED are out of the prover's reach.
- `BreaksAreNotSafeUnlessSkipped`: it compares with values generated by recursive operators.
- `EveryDeclarationIsRead`: what a document means is given with it as a constant, so for arbitrary documents there is nothing to prove it from. That the parser takes at most one turn more than a document has tokens is proved; that it never gets stuck is the run's check for deadlock.

## 6. Plan

The modules were written in the order of what goes wrong most expensively: jobs that call production systems, deliveries, scans, stored diffs, the engine and the gate; then tenants, retention, ingestion, the shell and the other engines. What would add most next:

1. A grammar of written Protobuf documents, so that `EveryDeclarationIsRead` can be stated, and proved, of all of them.
2. Ingestion composed with PolicyGate, so that the gate's evidence is what ingestion has stored rather than rows that appear.
3. The comment of PolicyGate with its content (whose verdict is shown last), and runs that are not serial with an API.

## 7. Not modelled, and why

- Signatures, token formats and password hashing: cryptography. A token is valid or it is not.
- Audit, summary, readiness, decisions' listing, history of runs: read-only aggregates and append-only rows that nothing depends on.
- AI features, Jira, rendering, Postman export, notices to the owners of consumers, the proxying of try-out requests: calls to external services and text.
- The scanner's walk over syntax trees and the parsers of OpenAPI, collections, CODEOWNERS and Backstage documents: pure functions over syntax trees and characters. What they produce is an input of the models. The GraphQL syntax is that of an external crate.
- Menus, updates and window state of the desktop shell.
- The middlewares of the SDKs that turn a request into an event.
- Dashboard and GitHub Action: clients of what is modelled.
- Time zones, formats of timestamps, the translation of SQL placeholders, logging.
