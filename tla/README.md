# Code Forge: a verification project

Code Forge is an agent runtime. An HTTP transport accepts messages for sessions, a
SQLite store keeps them as *runs*, one worker thread claims a run at a time and lets a
*harness* (a local loop or a LangGraph graph) call a model and tools, and the tools run
processes in the workspace of the user's project or queries against Impala. The modules
here model that program as `src/src/code_forge` implements it; the documents in
`src/docs` are used only to state what is expected of it.

## Inventory

| Component | State it keeps | Operations | What makes it hard |
| --- | --- | --- | --- |
| Run state machine (`state_machine.py`, `contracts.py`) | none, pure | `transition`, `request_cancel` | which status may follow which; one event per step |
| Run tables (`persistence/sqlite_store.py`) | `runs`, `sessions`, `workspaces`, `run_attempts`, `workspace_revisions`, `run_events` | `accept_once`, `claim_next_run`, `transition_run`, `cancel_run`, `record_workspace_revision`, `append_event`, `list_session_events` | "who executes" is recorded in four tables by different methods; API threads and the worker interleave between transactions; `cancel_run` reads outside its transactions |
| Tool ledger, same file | `tool_executions` | `prepare_tool`, `start_tool`, `append_tool_output`, `finish_tool` | status writes that do not look at the current status; repeated calls; crash between dispatch and result |
| Pending replies, same file | `pending_responses` and response files | `respond_to_run` | file written before the version check and the commit, which may not come; the run goes back to QUEUED still owning its slots |
| Session creation and queries, same file | `sessions`, `session_requests`, `workspaces` | `create_session`, lists, cursors | two sessions of one project share a workspace; another storage root rebinds the project under messages that wait |
| Upgrade, same file | `user_version`, the tables, object and log files | `_create_schema`, the migrations from versions 1, 2, 3 and 4 | version and tables are read before a transaction begins; files are not rolled back with it; a crash anywhere; two processes |
| Submission service (`service.py`) | none | `submit` = find, resolve, accept | a retry racing the first request between two calls; the process dies between two calls |
| Content store (`persistence/content_store.py`) | message, snapshot and response files, JSONL logs | write object, append record, read | files are not part of the database transaction that refers to them |
| Worker loop (`runtime/app.py`) | the thread, its stop flag, the transcript files | claim, execute, append to the transcript, project what it lacks at a start | no exception handling; no recovery after restart; appends cut short at any byte |
| Harnesses (`harness/local.py`, `harness/langgraph_harness.py`) | position in the loop or graph | `execute` and what it calls | decisions from a read that is stale when the write happens |
| Impala dispatcher (`harness/impala_tools.py`) | lock stripes, result files | `execute` | cancellation while a query runs; never replaying a dispatched operation |
| Process backend (`execution/local_process_backend.py`) | running operations | `submit`, `get_status`, `cancel`, `release` | a status published before the commit it implies; timeouts; process groups |
| Workspace store (`workspace/store.py`) | directories, manifests, the head on disk | `prepare_attempt`, `commit_attempt` | the head on disk moves before the store may refuse the revision; background children write while a revision is copied |
| Skill resolver (`skills/manual_skill_resolver.py`) | snapshots of Skill bundles | `resolve_and_store`, `load_skill_body` | a bundle copied in part; several requests copy, remove and check one directory |
| Impala integration (`integrations/impala`) | budgets, active queries, result files | `call`, `stop` | budgets reserved and refunded in files under concurrency |
| Transport (`transport/server.py`) | per request: cursor and version it has read | HTTP routes, the SSE stream, the session snapshot | closing a stream while late events arrive; a snapshot made of two reads |
| Model adapter, context manager, plug-ins, audit, ports | none | conversions and wiring | no state of their own |

The components meet in the database. The transport's threads call `submit` and
`cancel_run`; the worker claims, asks, calls tools and finishes. Every store method runs
under one re-entrant lock and, when it writes, in one `BEGIN IMMEDIATE` transaction, so a
method is atomic but two methods are not: anything may happen between them.

`PROJECT.json` lists the hazards line by line, each with the properties that watch it.

## Modules

| Module | Models |
| --- | --- |
| `RunStateMachine` | the transition table, the statuses and the run-level event of each step |
| `WorkspaceLease` | abstract: an exclusive, fenced lease on each workspace, granted when a run starts, given up when it is done, and revisions written only under it |
| `RunStore` | the run tables. One action per transaction; `cancel_run` is a small process (`CancelRead`, `CancelRequest`, `CancelFinish`, `CancelConflict`) because it reads first and then runs one or two transactions |
| `MCRunStore` | an instance of `RunStore` |
| `RunStoreProofs`, `RunStoreSafety` | theorems about `RunStore` |
| `PendingReply` | extends `RunStore` with questions to the user, the response files and `respond_to_run` |
| `EventFeed` | abstract: what the event streams of a session promise their readers |
| `SessionStream` | extends `PendingReply` with the HTTP clients: send, answer, stream, lose the connection, reconnect |
| `MCSession` | an instance of `SessionStream` |
| `SessionProofs` | theorems about `PendingReply` and `SessionStream` |
| `Runtime` | extends `RunStore` with the worker thread (either harness), process death and restart; the HTTP threads drive `AcceptOnce` and the cancel requests |
| `MCRuntime` | instances of `Runtime` |
| `RuntimeProofs` | theorems about `Runtime` |
| `ToolRun` | code tools one after another: `_run_code_tool`, the task of `LocalProcessBackend`, processes and signals, the tool ledger with its events, the revision table |
| `ProjectFiles` | extends `ToolRun` with the project's directory, the revisions copied of it and the head on disk |
| `MCToolRun`, `MCProjectFiles` | instances: of `ToolRun` for the two violated properties, of `ProjectFiles` for everything else |
| `ToolRunProofs` | theorems about `ToolRun` and `ProjectFiles` |
| `ImpalaQuery` | Impala calls of one message: the dispatcher with its stripes and ledger, one thread per query, budgets and records as files, the remote query, cancellation, `stop`, process death |
| `MCImpalaQuery` | an instance of `ImpalaQuery` |
| `ImpalaProofs` | theorems about `ImpalaQuery` |
| `SkillBundles` | snapshots of a Skill: a directory copied file by file that nobody locks |
| `TranscriptFiles` | the transcript of a session as a file of lines: search, append, and appends cut short |
| `Submission` | extends `SkillBundles` and `TranscriptFiles` with the request threads of `submit_run`, the worker's part of a message's way, and the projection of the transcript at a start |
| `MCSubmission` | an instance of `Submission` |
| `SubmissionProofs` | theorems about `Submission` |
| `SchemaMigration` | the constructor of the store: creation and upgrade of `state.db` by several processes |
| `MCSchemaMigration` | an instance of `SchemaMigration` |
| `MigrationProofs` | theorems about `SchemaMigration` |

### RunStore

Each table is a function from row ids to records with the columns that decide something.
`runs[r]` has status, `state_version`, session, `run_seq`, key, `active_attempt_id`,
outcome and the next event number; `sessions[s]` has `active_run_id`, `execution_epoch`
and two counters; `workspaces[w]` has `active_attempt_id`, `workspace_epoch`, its lease
and the current revision; `attempts[a]` has its run, both epochs, the base revision and
whether it has ended. `revisions` and `events` are append-only sequences. Row ids are
drawn from the constants, as `uuid4` would draw them. A call that the code refuses rolls
its transaction back and is no step of the model.

Abstractions, and why they lose nothing here: the lease is `none`, `held` or `expired`
and may expire at any moment; `claim_next_run` may take any run its WHERE clause admits
(the ORDER BY compares timestamps that callers took before they had the lock); message
texts, actors, error objects and content files appear in no property of this module. The
CHECKs and foreign keys of the tables appear as `TypeOK` and `ForeignKeys`.

### PendingReply and SessionStream

`pendings` is the table `pending_responses` and `answers` the response files beside it.
`respond_to_run` is one transaction, and one action for each of its outcomes: `Accepted`,
`Refused` (wrong version or status), `Fails` (anything else that raises behind the file's
write), `Repeated` and `Contradicts`. The response file is written before the rows and is no
part of the transaction: `Refused`, `Fails` and a death of the server inside the call
(`ServerDies`) roll the rows back and leave it (`LeavesFile`), and `write_object` keeps a
file it finds. `orphans` remembers these answers. Nothing under `src/` inserts a pending row yet; `InsertPending` stands for
whoever will.

A request thread makes one store call at a time and holds no lock between two of them, so
in `SessionStream` each call is an action, and `clients[c].pc` says what comes next:
`_send_message` reads the cursor and submits (`SendReads`, `SendSubmits`), `_reply` reads
the message, then the cursor, then responds, and `_stream` goes round `ReadPage`,
`LooksOver` and `Compares`. A connection may break (`Disconnect`); the page then takes a
snapshot of the session, which is two reads (`ReadCurrent`, `Reconnects`), and streams what
is behind the cursor of the second. `ServerDies` drops every request and connection, and
may leave the file of a response that was being given.
Workers and other clients are the actions of `RunStore`, taken at any time.

The streams are shown to implement `EventFeed`, which knows a log that grows, readers with
a position, and nothing of pages, polls or requests: a reader gets the events behind its
position in order and once each, and its stream ends by itself only when it has all of them
and the messages it follows are over.

### Runtime

`worker` holds what the worker thread has in memory: its program counter, the run and
attempt it claimed, the steps and tool calls left, and between the last `get_run` and the
`transition_run` that follows it, the version it read and the status it wants. That gap
is the point of the module: API threads act in it.

Both harnesses are one set of actions whose branches follow `harness`, which each start of
the process picks from `Harnesses`. They differ in
where they look at the run (the local loop at every round and before every block, the
graph before every tool call), in what they count (model calls against graph nodes), and
in what catches an exception (the graph's `execute` catches everything the graph raises,
though not what its own set-up and final transition raise; the local harness catches
nothing; the worker loop catches nothing). `Faults` says which calls may raise. The model
may answer or call tools, a process may end in any way, an Impala query may return, become
unknown or be cancelled. Events and ledger rows written on the way are left out: no
decision of the worker reads them. An Impala query that ends CANCELLED because the
process is shutting down is covered only as process death.

### ToolRun

What `Runtime` calls one tool is here a conversation of several coroutines of one event
loop, so an action is what one of them does between two awaits: `RunTool` is
`prepare_tool`, `start_tool` and `submit`; `Completes`, `TimesOut`, `GivesUp` and `Drains`
are the stretches of `_run_operation`; `Outputs` is a reader with its sink and
`append_tool_output`; `FinishTool` is the harness from the poll that found a final status
to `finish_tool`, with `persist_workspace_commit` in between. `CancelOperation` and
`CancelDeadline` are `cancel` and its `wait_for`, which cancels the task it waits for.
Beside the coroutines run the processes: the operation's own (`leader`), which may exit
whenever it likes or never, and a child it leaves in its group, with or without the
output pipes. `TimerFires` is `_kill_after_timeout`.

Between `Completes` and `Drains` the status is set and the commit has not happened: this
is the state `draining`, and the harness may poll in it. Time is abstract: a timeout may
pass whenever somebody waits. Files and streams have no contents, a directory of a
revision is there or not, and the two readers of an operation are one that may raise.
The store's own checks of the lease are `RunStore`'s subject; here the lease is good or
lost. `Faults` says which calls may raise: `submit` (an invalid working directory, a
missing executable), the sink, the commit.

### ProjectFiles

Code tools write to the project's directory itself; a revision is a copy of it, and what it
changed is its manifest against `manifests/current.json`, the head on disk. The table
learns of the revision later, from the harness, or never. `ProjectFiles` adds this to
`ToolRun`: `project` is the directory now, `images[o]` what `commit_attempt` made of it for
operation `o` (the head it was compared with, what was digested, what was copied, and
whether the client is told of a change), `head` the operation that `current.json` names.
Processes and the children they leave behind write at any time (`Writes`), also between
the digest and the copy (`MakesRevision`). Files do not influence each other, so one file
is enough; its contents are numbered. Deaths, which could leave `current.json` cut short,
and the directory of a workspace without a user binding are left out.

### ImpalaQuery

Any number of coroutines may call the dispatcher with the same call id: `Executes` waits
for the stripe, then the call is answered from the ledger or refused (`TurnedAway`), or it
runs: `Prepares` (`prepare_tool`), `StartsTool`, one of `Reserves`, `Refused` and
`ReserveRaises`, and when the thread is over `WritesResult`, then `FinishesTool` or
`PersistRaises`. The thread is `_execute`: `Connects`, `Submits` (after the query that
verifies the account), `Fetches`, or a failure at any of its checkpoints (`Interrupted`)
or in the driver (`DriverRaises`, also when the SQL arrived although the call raised);
then `CleansUp` and `Saves` or `SaveRaises`. `remote` is the query at Impala, which ends
when it likes, if ever.

Files are what a restart finds: `ledger`, `resultFile`, `record` and `budget`. Each is
replaced atomically, but a method writes several, so `ReserveRaises`, `SaveRaises` and
`ProcessDies` may leave any number of them written (`CutShort`); `atomic_json` syncs the
directory after it has replaced a file, so a write may raise although the file is there, the
record of a query that was never started among them. A dying process forgets
everything else. A record's `rows` are the rows asked for while the query runs and the
rows delivered when it is over, which is what the budgets must account for: `AllRows` is the set
of the rows of all records, numbered within each, so that `BudgetCovers` compares a
cardinality with each budget.

Left out: contents and SQL, authorization and department bindings (a failed check is one
more reason for `Interrupted`), the byte budget, which is charged like the row budget, the
hour in the names of two of the three budget files, different limits for the three, calls
of different operations that share a stripe by chance, and the ledger rows of status and
cancel calls; of these calls, what cancelling does is `CancelsQuery`. `executing` stands
for the message's status and attempt, which `Runtime` models; calls after a restart are
allowed although the worker that comes back does not resume the message. What a cancelled
query does to its message is `QueryCancelled` in `Runtime`.

### Submission, SkillBundles and TranscriptFiles

A request of `submit_run` goes through `find_request`, `_read_skill` (`Digests`),
`_store_bundle` (`Looks`, `Removes`, `Rechecks`, `Makes`, `Copies` once per file),
`accept_once` (`Accepts`, the only transaction), `get_run` (`ReadsBack`) and
`append_transcript` (`Notes`); each is an action of its own, because nothing is locked in
between. A retry with a known key is answered or refused at `find_request` or at
`accept_once`, whichever sees the key first; the fingerprint they compare is that of the
input and of the binding the client knows. A bundle is a directory that is named after a
digest, and the model keeps for each of its files the version of the source it was copied
from; a digest is the version it was computed of. A copy may fail in a living process
(`CopyRaises`), and so may the removal of a directory that another request has
removed or filled meanwhile (`RemoveRaises`). `spoiled` remembers the digests whose copying was disturbed.

The worker claims a message (`Claims`, `ReadsClaimed`), reads the session, whose binding it
keeps for the answer (`ReadsSession`), loads the Skill (`LoadsSkill`), reads all earlier
messages of the session if the harness is LangGraph (`ReadsHistory`), reads the message again
and ends it (`ReadsToEnd`, `Finishes`, `ReadsEnded`), and appends the answer (`WritesAnswer`).
What happens in the middle is `Runtime`'s subject. Every read decodes bodies below the root
the project is bound to at that moment, and none is inside a `try` that would save the worker:
`_conversation_history` is called before the one of `execute`. `Rebinds` is `create_session`
with another storage root, which leaves bodies of earlier messages behind, and `AuthorEdits`
changes the Skill.

A transcript is a sequence of lines, records or unreadable ones, and how the file ends:
behind a newline, in an open line, or inside a character. An append that a death cuts short
(`CutShort`) leaves a record that lacks only its newline, a part of a line, or a part of a
character. `append_transcript` finds the first as a record, and whatever is appended next
makes an open line unreadable; a search that meets a part of a character raises, since the
file is read as UTF-8 and `_transcript_contains` catches no such error. `Starts` and `Projects`
are `materialize_user_storage`, one pass over the messages with one append per record, before
the server starts its worker; if an append raises, the start fails.

Left out: rotation of transcripts at ten megabytes, the limits of 200 earlier messages and of
10 000 projected ones, and writes that a full disk cuts short in a process that lives on.

### SchemaMigration

Each process that opens the store walks through `__init__`: `ReadsVersion`, `ReadsTables`,
then one of the creation (`CreatesSome`, `CreatesRest`, `Stamps`, each statement its own
transaction), the script to version 4 (`MigratesTo4`, one transaction) and the step to
version 5 (`ReadsRows`, `Begins`, `Externalizes` once per body, `Commits`). Version, tables
and rows are read before the transaction that uses them. A body that is externalized is
written to a file at once, and its column goes only with the commit; a death or an
exception rolls the rows back, leaves the files, and may leave a cut line in a log.
`BEGIN IMMEDIATE` lets one process write and the others wait or fail (`TimesOut`). Initial
states are a missing database and every database of versions 1 to 4 with any of the bodies.

## Properties and runs

Passing runs:

| Run | Instance | Shows |
| --- | --- | --- |
| `store_http` | 3 runs, 2 sessions on 1 workspace, 2 attempts, 2 keys, 1 cancel thread, 2 revisions, 1 progress event, lease expiry, restarts | `FencingTokens`, `NoLostUpdate`, `InOrderExecution`, and `ImplementsLease`: the tables refine `WorkspaceLease` |
| `session` | 2 runs of one session, 1 client, 1 question with 2 possible answers, pages of 2 events, a cancel thread, death of the server | `SessionTypeOK`; `OwnershipAgrees`, the four columns that say who executes agree; `EventLogReplays`, the log says what the tables say; `AnswerIsStored`; `AnswersResume`; `AnsweredKeepsHold`; `ResumedClientSeesFinish`; `ImplementsFeed`: the streams refine `EventFeed` |
| `runtime` | 3 messages, 3 attempts, 1 cancel thread, both harnesses, every fault, process death | `WorkerTypeOK`; `ExecutorOwnsRun`, nobody ends a message under the worker; `ExecutedAtMostOnce`, a restart does not run a message again |
| `runtime_ends` | 2 messages, 1 cancel thread, both harnesses, model and tool faults, no process death | `EveryMessageEnds`: every accepted message ends unless a cancellation hits one in execution or an exception leaves the local harness; `QueuedCancelSettles`, a message cancelled in the queue ends |
| `tool_run` | 2 operations, every fault, calls of `cancel`, 1 output event per operation, 2 writes | `ToolTypeOK`; `ResultAfterExit`; `ToolEventsInOrder`; `RecordedRevisionsExist`; `ChangesAreTold`; `EveryToolFinishes`: however the program behaves, the harness gets an answer for an operation nobody cancels |
| `impala_query` | 2 coroutines, 2 calls, 2 budget files, every fault, cancellations, `stop`, process death | `ImpalaTypeOK` with no budget over its limits; `SentAtMostOnce`; `BudgetCovers`, budgets never forget rows; `CertainMeansEnded`; `EvidenceAgrees`; `LedgerForward` |
| `submission` | 2 request threads, 2 messages, 2 keys, 2 inputs, 2 storage roots, a Skill of 2 files in 2 versions, 3 requests, 2 deaths or a death and a rebinding, or one edit or failed copy | `SubTypeOK` with messages numbered without gaps; `ToldOwnRun`; `BundleIntact`; `TranscriptOnce`; `TranscriptComplete`; `WorkerLostOnlyTo` |
| `migration` | 2 processes, 1 message body, 1 answer, 4 events of 2 sessions, databases of every version or none, 1 death | `MigTypeOK`; `BodiesReadable`; `EventsNumbered`; `OpenMeansCurrent`; `ComesToServe` |

Several of these properties name the cases in which the code does not do better. Each was
met as a counterexample of the property without the exception:

- `AnswerIsStored`: an answer whose transaction was refused, failed or died leaves its file,
  which a later accepted answer does not replace: its row has the digest of one text and the
  file another. The head of `content_store.py` calls such a file an unreferenced record.
- `ResumedClientSeesFinish`: a message that finishes between the two reads of a snapshot is
  shown as unfinished and its finish is behind the cursor.
- `AnsweredKeepsHold` states what an answered message keeps: its session and workspace stay
  with its old attempt, and `claim_next_run`, which wants both free, does not take it up.
- `ChangesAreTold`: the client is told a wrong difference when `current.json` names a
  revision the table never got, or when a process that was left behind writes while the
  directory is copied.
- `BundleIntact`: a bundle is not whole when its copying died or raised, the source was edited
  under it, or when a request removed as empty what another one was filling. Nothing
  repairs it. While one request copies, another one takes the directory for complete.
- `WorkerLostOnlyTo`: such a bundle ends the worker thread; so does a message whose bodies a
  rebinding left behind, also as an *earlier* message of the session under LangGraph, and,
  after a rebinding, a transcript that was left cut inside a character. A message that had not
  ended stays RUNNING.
- `TranscriptComplete`: the record appended behind an open line is missing until the next
  start, and with it the record of that line if only its newline was cut; two at most, as
  the projection goes once through the messages and only a death cuts lines. A transcript cut
  inside a character keeps the server from starting until somebody mends the file. A
  rebinding stops the projection of the session.
- `ComesToServe`: a first creation that is cut short leaves tables without a version
  number, which every later start takes for version 1 and fails over.

Violated properties, each stating a sentence of the documents (see `findings`):

| Run | Property | What TLC shows |
| --- | --- | --- |
| `tool_success` | `SuccessIsRecorded` | the harness polls SUCCEEDED before `commit_attempt` ran, or a sink that raised ended the task before it: a tool that succeeded has no revision, and what is on disk is in no table (`docs/detailed-design.md:143`) |
| `tool_group` | `TimeoutEndsGroup` | the process has exited, a child holds its output, the timeout comes: nobody signals the group and the child runs on (`docs/detailed-design.md:141`) |
| `runtime_cancel` | `CancelSettles` | a run cancelled in execution stays CANCELLING; its session and workspace are never released |
| `runtime_survives` | `WorkerSurvives` | a cancellation between the last read and the last transition raises STATE_CONFLICT through the worker loop |

Hazards in which the code does what their text fears have a note instead of a property, or
beside it where the property covers the rest.

Three more weaknesses of the code are among the hazards and not among the runs, since they
need a caller, a crash or an exception at one exact place: a process that dies between the
two transactions of `cancel_run` leaves the run CANCELLING; a model error under the local
harness ends the worker; and `cancel` of an operation whose child holds its output leaves
the operation RUNNING for ever, which is why `EveryToolFinishes` excepts cancelled ones.

A RUNNING message that no process executes after a restart is no finding: the repository's
`README.md:81` lists its recovery as to be done. `EveryMessageEnds` is therefore about a
process that lives, and `ExecutedAtMostOnce` about restarts.

### Bounds

Two sessions on one workspace are the smallest instance in which sessions contend, three
runs the smallest in which a session has a queue while another one competes, and two
attempts the smallest in which a fencing token can be reused or a revision lost. One cancel
request is in flight at a time; it may be followed by others. Ids of runs and attempts run
out, so the system may stop: deadlock is not checked. `MaxRevisions`, `MaxProgress`,
`MaxSteps` and `MaxCalls` bound revisions per workspace, progress events per run,
`max_tool_steps` and the tool calls of one model answer.

One session is enough for its streams, and one client, as clients meet only in the tables;
`PageSize` of 2 makes every stream longer than a page. Two answers to one question are the
smallest number that can contradict.

Two operations are the smallest instance in which the recorded revisions can be mixed up,
and the coroutines of different operations meet only in the tables. `MaxOutput` bounds
output events, `MaxWrites` of 2 the contents of the file: one before and one after a
digest. Two coroutines and two calls let a duplicate race its original while another query
competes for the same budgets; `RowLimit` and `MaxRows` of two make two queries fit only if
they ask for little, and two budget files are the smallest number that can be written in
part.

Two threads race for a key and for a bundle of two files, the smallest that can be copied
in part; three requests are two messages and a retry. `MaxFaults` of 2 is two deaths, so that
a projection that mends a transcript can be cut too, or a death and a rebinding in either
order; edits of the Skill and copies that raise come alone, as they spoil a bundle whatever
else happens. Two processes and
one death let an upgrade be cut anywhere and be taken over or raced; of the four
events two belong to one run, one to another run of the session and one to another session,
so that both numbering scripts have something to tell apart.

Runs, attempts, keys, threads, coroutines and calls are symmetric in the runs without
liveness properties; sessions are not, as they are arguments of `WorkspaceOf`.

### Fairness

`CancelsFinish`: a thread inside `cancel_run` runs its calls to the
end, as Python threads do when nothing blocks them. `WorkerFairness`: the worker polls
`claim_next_run` in a loop and everything it awaits has a timeout (HTTP timeouts of the
model, 30 seconds for a process, the query timeout of Impala). Nothing is assumed of
clients, and nothing makes a model or a tool answer in a particular way: the number of
steps and calls is bounded, as `max_tool_steps` bounds it. `ToolFairness`: the event loop runs its coroutines, timeouts pass
and the SIGKILL timer fires; nothing is assumed of programs, which may never exit, nor of
their output. `MigFair`: a process that is down is started again, and a started one goes on,
as a constructor does that has no loop; nothing is assumed about which process gets the
lock. Specifications ending in `Up` have no process death. The remaining runs state safety
only and assume no fairness.

## Proofs

Every invariant, every action property and both refinements that a passing run checks have
a theorem, which says the same for every value of the constants. Liveness has none: it rests
on fairness, hence on `ENABLED`, which is outside the prover's reach.

| Module | About | Inductive invariant |
| --- | --- | --- |
| `RunStoreProofs`, `RunStoreSafety` | `RunStore` | `TablesInv` |
| `RuntimeProofs` | `Runtime` | `RuntimeInv` |
| `SessionProofs` | `PendingReply`, `SessionStream` | `SessionInv` |
| `ToolRunProofs` | `ToolRun`, `ProjectFiles` | `ToolInv`, `EventInv`, `ProjectInv` |
| `ImpalaProofs` | `ImpalaQuery` | `ImpalaInv` |
| `SubmissionProofs` | `SkillBundles`, `Submission` | `SubInv`, `CountInv`, `TranscriptComplete` |
| `MigrationProofs` | `SchemaMigration` | `UpgradeInv`, `NumbersInv` |

### The run tables

For any number of rows and requests, every choice of `Targets` and `RejectModes` and every
bound:

- `TypeCorrect`: `TypeOK` and `ForeignKeys`;
- `OwnershipTheorem`, `OneWriterTheorem`: the ownership columns agree and a workspace
  never has two attempts that have not ended;
- `FencingTheorem`: workspace epochs are fencing tokens;
- `NoLostUpdateTheorem`: revisions form one chain, each attempt starting from its base;
- `OneRunPerKeyTheorem`: an idempotency key names at most one run of its session;
- `InOrderTheorem`: messages of a session are executed in the order they were accepted;
- `EventLogTheorem`: the event log replays to the rows, without gaps or repeats;
- `LeaseTheorem`: `RunStore` implements `WorkspaceLease`.

Ownership alone is not inductive for the one-writer property: an attempt
that has not ended must be known to be the active attempt of its run
(`LiveAttemptsHold`); then two live attempts at one workspace are both its
`active_attempt_id`, hence equal. Fencing needs that every attempt's epoch is at most its
workspace's (`EpochsBounded`), so that a claim, which adds one, takes a fresh number. The
revision chain needs that the holder of a workspace either started from its latest
revision or wrote it (`HolderSawTip`); `record_workspace_revision` appends only for the
holder, and a new holder's base is the current revision. *Effect* lemmas say once what a
method does to the columns that matter, `StepKinds` divides the steps into accepting,
claiming, moving and those that change no right to execute, and each invariant then has
one lemma for each kind. Order rests on two facts about columns that are written once:
every sequence number of a session is below its counter (`Numbered`), and once a run has
been claimed each run before it is over or being cancelled and holds nothing (`Behind`); a
claim establishes the second because `claim_next_run` takes only a run without an earlier
queued one in a session without an active run. The log needs that each event stands in the
session of its run (`LoggedHome`). A method either writes one event and advances the
counters of that run and session (`RunLogs`), or touches neither log nor counters
(`LogQuiet`); in the first case the positions of the run's events grow by the last position
of the log (`OwnLogGrows`), in every other run nothing changes (`OthersLogStays`). The
refinement maps runs to phases by status and `active_attempt_id`; only the moves need
ownership, to show that a run that finishes holds its workspace exactly when the abstract
one does.

All of this is proved of `AnyCall`, one call of any store method with any arguments, not of
`RunStore`'s own `Next`. A component that uses the store has to show only that its steps are
such calls, and then has what the tables promise (`TablesSafe`) and the lease:
`RuntimeTablesTheorem` and `RuntimeLeaseTheorem` for the process with its worker,
`SessionTablesTheorem` and `SessionLeaseTheorem` for the clients with their answers, which
put a run that holds its slots back into the queue.

### The worker

`RuntimeInvTheorem` is for any number of messages, attempts and cancel requests, either
harness, any faults, and deaths of the process anywhere; `ExecutorTheorem`,
`ExecutedOnceTheorem` and `WorkerTypeTheorem` are read from it. What makes
`ExecutorOwnsRun` hold is that nobody else ends a message in execution, and the only one who
could is `cancel_run`, which decides from a row it has read before: `RequestFresh` says that
what a request remembers is either older than the row, and its write then fails on the
version, or still true. Since no step of `Runtime` puts a claimed message back
(`NeverRequeued`), a dead worker's message is never executed again. `Follows` says what the
worker keeps from step to step: its message, its attempt, and the status it is about to
write, unless it is cancelled meanwhile.

### Answers and streams

`SessionProofs` is for any number of clients, messages, questions, answers and any page
size. `ReplyInv` is the invariant of `respond_to_run`: a question belongs to a message that
is over or has its attempt (`AskedHolds`, so an answered message keeps what it held), an
answer file of an open question is one that a transaction left behind (`OnlyLeftFiles`), and there are
as many `run.resumed` events as resolved questions at least (`ResumesCount`).
`SessionOrder` is what the streams rely on: only the last message of a session may be
unfinished, and nothing follows `run.finished`. Then each client: it was given all that lies
between where its stream began and its cursor (`Given`), a stream about to end follows only
messages that are over or whose events all came after its cursor (`AtTail`), and a message it shows as unfinished
has no finish before the mark at which it was read (`Showing`); `ResumedClientTheorem`
follows from the last, and its exception is the gap between those two reads.

`FeedTheorem` is the refinement of `EventFeed`, by one lemma for each step: `ReadPage` hands
over a page, opening a request opens a feed, the death of the server breaks all of them, and
what the store does appends or is silent. That a page lists exactly the next events needs
that counting the positions of a set in ascending order meets every one of them once
(`Counted`, `KthNumber`, `AscendingLists`); lacking induction, this is proved with the least
counterexample of a set of numbers (`LeastNumber`).

### Tools and the project's directory

`ToolRunProofs` proves, for any number of operations, every subset of the faults and every
bound, that `ToolRun` is well typed (`ToolTypesTheorem`), that no result is published
while the process runs (`ResultAfterExitTheorem`), that recorded revisions exist
(`RecordedRevisionsTheorem`) and that events are in order (`ToolEventsTheorem`). The
invariant, `OperationInv`, is one of single operations: the ledger is ahead of the
backend (`LedgerLeads`), the status says how far the task is (`TaskStatus`), a final
status knows the exit of the process, and a pending SIGKILL finds the process running
(`ExitKnown`: without it a late kill could turn a success into a failure), and commits are
on disk (`CommitOnDisk`). `OperationFrame` says that an operation is disturbed only by its
own steps. Events are in order because a final ledger status implies a final backend
status, after which no reader is left (`EventRow`).

`ProjectIsToolRun` carries these theorems over (every step of `ProjectFiles` is a step or a
stutter of `ToolRun`), and `ChangesAreToldTheorem` holds for any number of operations and
writes. `ProjectInv` says that what a revision was compared with was on disk before it
(`Based`), and that commits and rows of the table have one order except that the table may
lack commits (`Ordered`): the head is the latest row or a commit without a row. The point is
that nothing recorded is based on a commit that may still be recorded, since the only such
commit is the caller's.

### Impala queries

`ImpalaProofs` is for any number of coroutines, calls and budgets and every choice of faults
and limits. `start_tool` and `finish_tool` overwrite whatever status they find, so
`SentAtMostOnceTheorem` and `LedgerForwardTheorem` are about who calls them: `HoldsStripe`
says that a coroutine past `prepare_tool` holds the stripe of its call and knows the ledger's
status, which no other coroutine can then change. `EvidenceFirst` orders the evidence: a
fresh operation has neither record nor thread, without a record nothing was sent, and a
thread that has not submitted finds nothing sent. Death keeps both, as it ends all
coroutines and threads and at most adds a record.

`CertainMeansEndedTheorem` and `EvidenceAgreesTheorem` need all four witnesses of a query at
once. `EvidenceInv` says for each what it knows: the thread (`QueryKnows`: a status that is
certain is set only after the query at Impala is over, and is the one in the record once the
thread has returned), the record (`RecordKnows`), the ledger (`LedgerKnows`: it is final only
when no thread is left, and if certain, equals `result.json`) and the coroutine
(`CallerKnows`: what it wrote is what the thread returned). Only the coroutine at the stripe
and the thread it started touch a call (`CallerFrame`, `ThreadFrame`), so the others' steps
keep all of it (`KnowsStays`).

`BudgetCoversTheorem` is a count: changing one record changes the number of all rows by the
difference (`RowsBeside`, `RowsChange`), budgets are charged before the record is written
and refunded only after, and a refund is never more than what was not used, whatever part
of the files a death leaves unwritten.

### Submission and transcript

`SubmissionProofs` is for any number of threads, messages, keys, files and versions and any
number of deaths. In `SubInv` a key has one message (`KeysUnique`) and what a thread will
answer has the thread's key and input (`Told`), hence `ToldOwnRunTheorem`. `Transcripts` says
that no record stands twice and that only a file with a line ends in an open one, hence
`TranscriptOnceTheorem`. For `BundleIntactTheorem`, `Sound` says that every directory that
exists, and every digest a thread or a message relies on, is `Settled`: whole, being copied,
or spoiled. A thread that copies has copied what it no longer has to do, of the right version,
or the digest is spoiled; so its last file makes the bundle whole.

`CountInv` adds what `SubTypesTheorem` counts, that messages are numbered from 1 without
gaps, and that bodies and the worker's binding are where the session's root says until somebody
rebinds it (`AtHome`); so until then every message can be read. `WorkerLostTheorem` goes through the
reads of the worker with that: one that fails finds a digest that is not whole, or the project
was rebound.

`TranscriptCompleteTheorem` rests on `Stations` (who may be about to append what) and `Few`:
two records name all that is missing and that nobody is about to append or to project. A cut
needs a death, and the projection of the start behind it owes everything, so it begins again
with nothing missing that it will not come to; only the first append after the cut can spoil
a line, and it costs that line's record and its own. While the file ends in an open line
nothing is missing yet, and a file that ends inside a character still has a record to be
projected, whose search raises: so the server does not come to serve.

### Upgrade

`MigrationProofs` is for any number of processes, bodies, events and deaths:
`MigTypesTheorem`, `BodiesReadableTheorem`, `OpenMeansCurrentTheorem` and
`EventsNumberedTheorem`. `UpgradeInv` fits tables, version and columns together (`Coherent`)
and says what each process relies on at its place (`Relies`): who is in the transaction finds
the tables of version 4 unchanged and has written every body that it no longer has to do, so
that the commit, which drops the columns, refers to files only. The events of a session are
in one order (`PriorOrder`), counting the earlier ones numbers them 1, 2, ... in that order
(`RanksInOrder`), and the scripts of version 3 and version 4 both count so
(`BothNumberAlike`), so an upgrade from either leaves the same numbers and a session counter
that goes on behind them.

### Assumptions

All are named and stand in the module that declares the constants. What the code justifies:
`WorkspaceOf` maps sessions to workspaces; no caller asks `transition_run` for RUNNING, since
only `claim_next_run` starts runs; a page holds at least one event; a Skill has a `SKILL.md`;
an upgrade finds finitely many events, each with a session, a run and a number. The others
say what the constants are: null values are no ids, modes are Booleans, faults are some of
those the module knows, bounds and limits are numbers. No theorem needs the sets of rows,
clients, calls or processes to be finite.

Only model-checked: the liveness properties `EveryMessageEnds`, `QueuedCancelSettles`,
`EveryToolFinishes` and `ComesToServe`, and of course the violated properties, each of which
a run refutes.

## Plan

In order of what matters to the system:

1. Two cancel requests in flight and two clients in the same instance, with a reduced
   alphabet of store calls.
2. `ImpalaQuery`: under fairness every call is answered; an abstract at-most-once
   operation that it implements.
3. Session creation with its retried requests, titles and deletion, beyond the rebinding
   that `Submission` has.
4. The content store's rotation of files, and `current.json` cut short by a death.
5. Pure functions checked against reference definitions: context trimming.

Theorems: that `WorkspaceLease` itself never grants a workspace twice, so that the lease
theorems carry a promise stated in abstract terms; and the abstract at-most-once operation of
item 2, whose refinement `EvidenceInv` already prepares.

## Not modelled

- The browser page (except its reconnect), the scripts, the OpenAPI and PostgreSQL schema
  documents, plug-in wiring, ports and audit columns: presentation, generation or wiring,
  without state that another component depends on.
- The model adapter: JSON and HTTP for an external service. `Runtime` lets the model answer,
  call tools or raise.
- The context manager: a pure trimming of the conversation to a budget, which no control
  decision reads.
- Of the store: lists, titles, artifacts, deletion of sessions, and the views of the
  platform, which only read or change columns nothing else reads.
- Of the content store: rotation of files by size. Of the Skill resolver: which directories
  are searched, versions and dependencies, which are data.
- Authorization, in every component: a refused call is no step of the models.
