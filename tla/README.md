# TLA+ models of the data analysis agent's backend

The repository holds a data analysis agent: a backend that stores runs,
artifacts, approvals, memories, datasources and profiles in SQLite and in a
directory tree, executes SQL and Python for an agent, and asks a policy before
each operation. This directory models that backend in TLA+, checks the models
with TLC, and proves their main invariants with TLAPS.

Two trees of the repository hold a backend:

- **G** = `src/Data_Analysis_Agent/lang graph/graph_output/src/data_agent_backend`,
  with the agent that uses it next to it in `data_agent_agent` (**A** below). It
  is the larger and the later one; most models follow it.
- **O** = `src/data_agent_backend`. Many services are the same file as in G
  (runs, checkpoints, approvals, memory, exports, artifact store, workspace);
  datasources, the connectors and the executor of SQL differ, and have a module
  of their own, `DatasourceService`. O's factory builds neither workspace nor
  approvals nor memory. Elsewhere `PROJECT.json` maps a definition to O only
  where O's code does the same.

`src/frontend` is a web client: a page, and a server that passes the event stream
of an analysis on to it (`AnalysisStream`). What is modelled, checked and proved is listed
below; what is left is under "Plan".

## 1. Inventory

Everything durable goes through `SQLiteStore` (G `storage/sqlite.py`): each
`execute`, `query_one` and `query_all` opens a connection of its own and commits
a transaction of its own. HTTP handlers run on a pool of threads, and each MCP
server is a process of its own on the same file. So a service method is a
*sequence* of transactions, and of file operations, that other threads and
processes come between and that a killed process cuts short. Nearly all that is
hard in this code follows from that sentence.

| component (code) | state | operations | uses | what is hard | what makes it correct |
|---|---|---|---|---|---|
| Runs, checkpoints (`run_service.py`, `checkpoint_manager.py`) | tables runs, run_events; reads artifacts | create, update status, append event, summary, ensure_run | policy | check and write in two transactions; three reads for one summary | a terminal run is final; a summary is coherent; metadata is not lost |
| Approvals (`approval_store.py`) | approval_requests, approval_events | create, list, resolve | – | a request may be decided again, by several at once | every decision leaves its event |
| Memory (`memory_store.py`) | memory_records | propose, approve, reject, archive | approvals, policy | request, decision and record are separate statements | active means approved; approval takes effect |
| Exports (`export_service.py`) | a copied file, an artifact, a row | create_export | approvals, artifacts, policy | three durable writes without a transaction | a row speaks of a file and an artifact that exist |
| Policy (`policy_engine.py`) | policy_audit_logs | evaluate, enforce | storage | the rule that asks for an approval is not the one that accepts it | blocked stays blocked; refusals are audited |
| Artifacts (`artifact_registry.py`, `artifact_store.py`) | directories and files; tables artifacts, previews, lineage, claim_evidence | register, get, preview, attach and validate evidence | policy, runs | file system and database part company | a row has its content; lineage agrees |
| Storage, start (`sqlite.py`, `migrations.py`, `factory.py`, `deps.py`) | the schema and schema_migrations | migrate, build the services | – | `executescript` commits; threads and processes start at once | recorded means applied; served means current |
| Datasources (`datasource_service.py`, `datasource_registry.py`) | password files, datasources, datasource_catalog_columns | create, test, list, refresh, read the catalog | connector, policy | file and row; schema read outside the transaction that stores it | a row has its password; a catalog survives a failed refresh |
| Queries (`query_datasource`, `sql_executor.py`) | two artifacts | query | policy (twice), connector, artifacts | a statement that fails or is killed half way | what reached the database was allowed and is on record |
| Agent runtime (A `runtime.py`, `tools.py`) | – (a run and a datasource in the backend) | run: list, create, test, refresh, create the run, ask | all tools | list and create in two calls; passwords are not compared | a run started from the environment can be worked on |
| Profiles, semantic registry (`analysis_profile_store.py`, `semantic_registry.py`, `profile_inference.py`) | profiles, marts, join paths, metrics, terms | upserts by clients and by profiling, seeds, search | datasources | read, merge in Python, write | manual values survive a refresh |
| Python sandbox (`sandbox_executor.py`) | run directory, process or container, artifacts | run_python | policy, artifacts | timeouts, descendants, rejected registrations | the answer names what was left; logs are complete |
| Analysis context (`analysis_context_service.py`) | – | search, rank, build the context | catalog, profiles, semantics | many reads beside a refresh; cut to a limit | one schema in one context |
| Workspace (`workspace_backend.py`, `workspace_router.py`) | mounted directories | list, read, write, exists, preview | policy | a write truncates and then fills; policy and mount both have a say | a file is whole unless writers met; what was written the policy let through |
| Datasources and queries of O (`datasource_service.py`, `sql_executor.py`, the connectors) | table datasources, two artifacts | register, get_schema, describe, sample, run a query | policy, artifacts | find and insert in two transactions; a schema read table by table | one row per database; a schema true of the time of the call; refusals and texts on record |
| Frontend (`sse-stream.js`, `useAnalysisStream.js`, `http-analysis-client.js`, `page.jsx`) | a buffer, the timeline, the analysis shown | submit, subscribe, transform, deliver | the analysis backend | chunks that end anywhere; a new thread beside an old stream; streams that just end | the timeline is what the backend wrote; nobody waits for ever |
| Report agent and LLM client of O, HTTP and MCP shells | – | I/O and envelopes | – | – | – |

`PROJECT.json` "components" has the status of each, "hazards" the places in the
code where it can go wrong.

## 2. Modules

| module | models | extends / instantiates |
|---|---|---|
| `RunContract` | what a run service promises: the abstract specification of one run table | – |
| `RunLifecycle` | runs, events, summaries, ensure_run, statement by statement | INSTANCE `RunContract` |
| `Approvals`, `_proofs` | approvals, memory, exports as programs of statements | – |
| `PolicyEngine` | the decision table, the audit | – |
| `Workspace` | paths, mounts, and the files of /workspace | EXTENDS `PolicyEngine` |
| `DatasourceService` | O's registrations, schema reads and queries | EXTENDS `PolicyEngine` |
| `PolicyClients`, `_proofs` | callers of either backend, whose requests meet in one policy | EXTENDS `Workspace`, `DatasourceService` |
| `ArtifactLog` | what holders of artifact ids may rely on: an append-only log of contents | – |
| `ArtifactRegistry`, `_proofs` | registration over file system and database, reads, evidence | INSTANCE `ArtifactLog` |
| `Migrations`, `_proofs` | migrations of several processes of several threads; lazy services | – |
| `ProfileStore`, `_proofs` | read–merge–write upserts of profiles and marts | – |
| `Sandbox`, `_proofs` | run_python beside the process it starts | – |
| `DatasourceContract` | what holders of datasource ids may rely on: registered at once, a whole catalog | – |
| `Datasources` | registration and catalog | INSTANCE `DatasourceContract` |
| `Queries` | queries of datasources and of DuckDB | EXTENDS `Datasources`, INSTANCE `PolicyEngine` |
| `AnalysisContext` | build_analysis_context, read by read beside refreshes | EXTENDS `Datasources` |
| `AgentRuntime`, `_proofs` | the bootstrap of a run next to all other calls | EXTENDS `Queries`, `AnalysisContext` |
| `AnalysisStream` | the frontend: a question and the stream of its events | – |
| `RunsAndStream_proofs` | proofs about runs, and about the stream that tells a page of one | EXTENDS `RunLifecycle`, `AnalysisStream` |
| `MC*` | symmetry sets and the constants that a `.cfg` cannot write | EXTENDS the module |

### How state and actions correspond to the code

A table is a function from its key to what the properties tell apart of a row; a
file is what is in it (nothing, torn, whole). A worker is a thread or a process.
Its program counter and the Python locals that outlive a transaction are
variables of their own (`call[w]`, or `at[w]` and friends), because a stale local
is what most of the hazards are about. One action is one SQL statement, or one
file operation, together with the Python that runs up to the next one; early
returns and exceptions are guards, or end the call.

- **RunLifecycle.** `ReadForUpdate` / `WriteStatus` are the two halves of
  `update_status`; the row read stays in `call[w].seen` and is what `Merged`
  merges metadata into. `BeginSummary`, `SummaryRead`, `EndSummary` read the
  tables in the code's order (`ReadOrder`). `EnsureRun` is the upsert that all
  producers use, `Crash` the end of a process between two statements.
- **Approvals.** A service method is a sequence of statements (`Request`,
  `Resolution`, `Proposal`, `MemoryDecision`, `Export`), `Step` performs the
  next one, `Crash` drops the rest. An UPDATE that finds no row changes nothing.
- **PolicyEngine.** `Decide` is `_decide`; `Compute`, `Audit`, `Return` are
  `evaluate` and `enforce`, `Ask` and `Forget` their caller. Actions that the code
  treats alike are one member of `Action`, a resource is its mount.
- **Workspace, DatasourceService, PolicyClients.** A caller is in one call at a
  time, `task[e]` of the workspace or `call[e]` of the datasources; inside it, it
  asks the policy and goes on when `step[e] = "returned"`. `backend`, chosen in
  `Init`, says which of the two runs. A path is the sequence of its parts. `Open`
  truncates the file and `Fill` writes it; a text is identified with its writer,
  and `torn[p]` remembers that writers of a file met or one died. `Find` and
  `Insert` are the two transactions of `register`; `ListTables`, `Check` and
  `Read` are the statements of the connectors, for each table in turn, and
  `ConnectorFails` their errors (no connection, a name that is not quoted, a table
  that is gone), `Alter` is anybody's DDL between them; `was[t]` remembers what table t has been
  since the call began.
- **ArtifactRegistry.** `MakeDirectory` (`mkdir(exist_ok=False)`), `WriteFile`,
  `InsertRows` (one transaction), then the two reads of `get_artifact`. `Fail`
  ends any method anywhere and tears a file that is being written.
- **Migrations.** `Statement` runs one statement of a script, committed on its
  own; `InsertVersion` opens a transaction, `Commit` is the next script's COMMIT
  or the close. `Request`, `Serve` are the unlocked lazy initialisation, `Locked`
  is SQLite's "database is locked", `Crash` ends a process.
- **ProfileStore.** `Read` and `Write` are the two transactions of an upsert;
  `Merged`, `Hidden`, `Upserted` are the merge; `Refresh` is `profile_datasource`.
- **Sandbox.** `at[e]` walks through `run_python`; `process[e]` and `disk[e]`
  belong to the code that runs, which touches files until it ends, and beyond
  the timeout when descendants survive (`"loose"`). `Reject` is a BackendError
  of a registration, `WaitFails` an exception while the code runs (its output
  cannot be decoded), `Raise` any other exception, `Kill` the backend's death.
- **Datasources, Queries, AgentRuntime.** `at[w]` is the step of a backend call.
  The password file and the row are two steps; a refresh reads the schema
  (`Introspect`), takes the write lock (`DeleteColumns`) and commits
  (`InsertColumns`). A query passes `FindRecord` (first policy decision, engine
  default), `Validate` (second, configured maximum), `RecordText`, `Execute`,
  `Fetch`, `RecordResult`, `Return`; `Fail` is an exception at any point, with or
  without the id of the query artifact. `execute_query` makes its own connection, so
  an error that names the artifact does not tell whether the statement ran. `boot[w]` is the bootstrap's own counter:
  it issues backend calls one after the other, and other workers' calls come in
  between. `created` is the order of `created_at`, which is drawn before the row
  is inserted: `List` takes the first match in that order.
- **AnalysisContext.** All reads of a call are of the catalog, so a call is the
  sequence `seen[w]` of the schemas its reads have found, and its context is a
  function of that and of the question: `Found` from the first read, `Matches`
  with those of the added tables, `Recommended` and `Joins` from one more read
  each per match. `Complete` says when the last read has been made. `Leading` is the cut to
  the columns that a match shows of a table without a hit (`MaxColumns`, five in the
  code). `Ranked` is
  the sort and the cut to the limit: the match at a place has as many before it.
- **AnalysisStream.** The text on the wire is a sequence of half frames and
  newlines, so that a chunk may end inside a frame, and between its two newlines;
  `Transform` takes a chunk of any size, `Split` and `Forwarded` are the body of
  `transform`, `Flushed` is `flush`. `Ends` finds the newlines that end a frame, and
  `Pick` what is left of a sequence when only some places count. `Effect` is React's cleanup of the old
  effect and the new effect, in one step, as React runs them; `Answer` sets
  thread and analysis before it. `Deliver` is `onmessage`, `Error` is `onerror`
  once the response has ended. With `mode = "local"` the timers of the local
  client take the place of the stream.

## 3. Runs

All passing runs finish within the limits given here; `PROJECT.json` says in a
sentence what each shows.

| run | bounds | checks |
|---|---|---|
| `run_lifecycle` | 2 workers, 1 run, 1 key, 1 artifact | `SummaryIsCoherent`; `FinalOnceQuiet`, `OnlyLateWritersUnfinish`, `LossNeedsOverlap`; `ContractWhileFresh` (refinement of `RunContract` while no worker holds a stale row) |
| `run_terminal` (violation) | same | `TerminalIsFinal`, the message of `run_service.py:98` |
| `approvals` | 2 fair workers, 1 id, 1 memory, 1 export, deaths, decisions by hand | `ActiveMemoryWasApproved`, `RowsAreBacked`, `QuietMemoryAgrees`, `TrailLostInCrash`; `ApprovalTakesEffect` (liveness) |
| `policy_clients` | 2 callers; 12 paths; 1 database of 3 types and 2 ports, 2 tables of which 1 is a view; row limits none / 0 / at / over the maximum | `BlockedStaysBlocked`, `AnswersAreOnRecord`, `WholeUnlessDisturbed`, `KnownIsTaken`, `SchemaIsOfItsTime` |
| `policy_unlock` (violation) | every request there is | `ApprovalUnlocks`, README.md:50 of graph_output |
| `artifact_registry` | 2 workers, 2 ids, 2 contents, 1 claim | `RowHasContent`, `RecordsAreWhole`, `OrphansComeFromFailures`; `LogSpec` (refinement of `ArtifactLog`) |
| `migrations` | 2 processes of 2 threads, from every version 0–4 | `RecordedMeansApplied`, `ServedMeansCurrent`, `OnlyCrashesStrand` |
| `profiles` | 2 workers, 2 schemas and none, 2 supplied and 1 inferred value | `ManualMeansSupplied`, `MartsHaveProfiles`, `ManualLostBySight` |
| `profile_manual` (violation) | same | `ManualIsPreserved`, design doc 2026-05-19:111 |
| `sandbox` | 1 execution, 2 workspace and 2 output files | `LogsBracketTheCall`, `AnswerIsComplete`, `LogTellsAll`; `CallsEnd` (liveness) |
| `agent_runtime` | 2 workers (both ask, one makes the other calls), 2 registrations of one database, 2 schemas of 3 tables, contexts of at most 2 tables and, of a table without a hit, 1 of its 2 columns, row limits none / −1 / between / over two maxima | types; `DatasourcesAreUsable`; `ContractSpec` (refinement of `DatasourceContract`); `ExecutedWasChecked`, `AnswersMatchArtifacts`; `EnvRunsAreReady`, `KnownIsReused`; `ContextHangsTogether` |
| `stream` | 2 threads, every stream of 2 frames of 7 kinds and three of 3 frames | `TimelineIsTrue`, `ForeignOnlyWhileSwitching`; `StreamingEnds` (liveness) |

**Why the bounds are enough.** The hazards are races of two transactions of one
worker with one transaction of another, or with a death: two workers and one key
(run, request, profile) show each of them, and what holds for arbitrarily many is
proved where section 5 says so. Where a second key matters it is there: two
artifact ids for lineage and for a second claimant, two files in each sandbox
directory so that one is registered and the next rejected, two registrations so
that a database is registered twice, two threads of the page so that one stream is
left for another. An approval id, a memory and an export meet others in nothing,
so one of each is enough for two workers at it, and an export competes with the
memory for the id. The paths of `policy_clients` have one of each way to begin:
the root, each kind of mount, none, a drive, `..`, secrets in both cases and a name
that only begins so, and a file whose parent may be a file. One database is
enough for registrations that race, since the index compares nothing else; its
second table, a view, is what can come and go behind the first. A stream of two
frames has every pair of neighbours; a chunk can end at each of their half frames
and newlines. Three schemas' worth of reads are in a context of two tables (one
search, one added table, two reads each for columns and joins), beside one refresh. Four threads in two processes are needed for a thread that
migrates while another of its process is served and a third process dies.
Executions of the sandbox share nothing, so one shows what there is. Counters are
bounded by constants named in the modules: `MaxVersion` (changes of a schema;
two versions make a catalog old) and the sets of ids, each drawn once. The row
limits stand for: none given, not positive, between the engine's default maximum
and a lower configured one, and above both.

**Deadlock** is checked in all runs but `sandbox`, whose one execution ends, and
`stream`, whose page asks a bounded number of questions.

**Scope.** The two backends of `policy_clients` are one specification: `backend` is
chosen in the initial state, so its states are the sum of the two deployments. The
calls of either may be left at every step (`Die`, `Leave`).

**Symmetry** is used for workers, callers, ids and values in runs of safety
properties, never with liveness.

**Fairness.** `approvals`: weak fairness of each worker's `Step`: a handler that has
begun runs on, since threads are preemptive and SQLite's writers wait for each
other. Workers may die there, and requests may be decided by hand: `disturbed`
remembers the requests to which that happened, and `QuietMemoryAgrees` and
`ApprovalTakesEffect` leave them out, since nothing in the code repairs them;
`TrailLostInCrash` says what a death may lose. SQLite's five second timeout is left
out. `sandbox`: the executor's own steps and its timer are fair, the process is
not: it may run for ever, and `CallsEnd` says that the call ends all the same.
The fairness of `TimeOut` takes it that `docker rm -f`, which the code runs without
a timeout (`sandbox_executor.py:533-534`), returns.
`stream`: React runs its effects, and the browser the handlers of what has arrived;
the backend is not bound to write, to answer or to end. No other run assumes
fairness.

**Mutants.** Each property of a passing run has a mutant in the module it speaks
of: the changed body of one definition, as a plausible slip would leave it (reads
in another order, a dropped check, a row before its file, a preview left for
later), under which TLC finds the property violated.

## 4. What the runs found

Three documented statements that the code does not keep (`PROJECT.json`
"findings"):

1. *"Terminal runs cannot be updated."* (`run_service.py:98`). Check and UPDATE are
   two transactions; a second worker finishes the run in between
   (`run_terminal`). `OnlyLateWritersUnfinish` and `FinalOnceQuiet` say how far
   the statement does hold.
2. *After an approval the caller calls the tool again with the approval_id*
   (`graph_output/README.md:50`). For queries over the row limit the policy does
   not look at the id (`policy_engine.py:116`): they are refused for ever
   (`policy_unlock`).
3. *"`manual`: … Auto refresh must preserve it."* A refresh overwrites a manual
   field when it read before the client wrote, or when the two name different
   schemas (`profile_manual`). `ManualLostBySight` shows that it happens in no
   other way.

Behaviour a reader of the code may not expect, met while modelling:

- An approval id passes for an approval: whether the request was decided, and for
  which operation, is not looked up (`policy_engine.py:130`, `GuardedVerdict`).
- A start that dies between `ALTER TABLE` and the version row leaves a database no
  later start can migrate (`OnlyCrashesStrand`); racing threads never do.
- `run_python` writes its finish log after a `BackendError` only; another
  exception (a locked database, a vanished file) leaves none, although the
  timeout hardening design (2026-05-25, line 86) wants one for every execution.
  The finish log of a rejected registration lists no artifacts, those registered
  before included.
- Of two overlapping refreshes the older schema may be stored last. A catalog is
  never older than the *call* that stored it (`DatasourcesAreUsable`), but may
  be older than the one it replaces.
- A configured row maximum above 10,000 has no effect on `datasource.query`: the
  first decision does not know it (`datasource_service.py:195`).
- `default_row_limit` of the agent applies only when the model passes a limit that
  is not positive: `run_sql`'s own default is 1000 (A `tools.py:118`).
- The runtime matches a datasource without its password (A `runtime.py:245`). A
  first registration with a wrong password is found again by every later question,
  whose test fails; `EnvRunsAreReady` holds because the test comes before the run.
- Two processes that list before either creates register a database twice, and a
  registration that was drawn earlier but inserted later takes over as the first
  match. `KnownIsReused` says that among bootstraps overlap is the only way to a second
  one; a client's own `datasource_create` may register the database at any time.
- A run is created before the agent starts, and nothing ends it when the agent
  raises (A `runtime.py:122`): the runtime calls no tool that does.
- A path that the router refuses (`..`, `~`, secrets, a drive) never reaches the
  policy, so that refusal leaves no audit row; nor does the refusal of a
  `sample_rows` limit that is not positive (O `datasource_service.py:172`).
  `AnswersAreOnRecord` is about refusals of the policy.
- O's `register` finds a datasource by name, type, host, database and user. Another
  port is answered with the row of the first one. Another *type* is not found, and
  then refused by the unique index, as a server error; so is the loser of two
  registrations that race (`KnownIsTaken` says what remains true).
- A manual profile field cannot be changed by hand either: the merge keeps the
  stored value whatever the source of the new one (`analysis_profile_store.py:187`).
- A table that SQLite drops between the check and `PRAGMA table_info` is described
  with no columns; MySQL fails instead. PostgreSQL's `describe_table` answers
  "not found" for a table of which it is shown no column, though the table may be
  there. `get_schema` fails as a whole over one table whose name is not a plain
  identifier (O `tests/test_datasource_introspection.py:221`). `SchemaIsOfItsTime`
  therefore binds tables shown and left out, and "not found" of the other two.
- A query that fails to connect is answered with the id of its query artifact, as is
  one whose statement failed (`datasource_service.py:243-248`): the artifact shows
  what was to be run, not that it was.
- A write to `/workspace` itself passes the policy and is then refused, since its
  parent is outside the mount (`workspace_router.py:115`).
- The context of a question may name a table of one schema with columns and joins of
  the next (`ContextHangsTogether` says that only a refresh in between does that, and of such
  a mixed context no more than that no column is made up).
- `[DONE]` without a final event leaves the page "streaming" (`StoppedShort` in
  `StreamingEnds`); an event with `artifacts: []` empties the panel, and one without
  a status has its artifacts ignored. An event that ends the stream without its two
  newlines is passed on as it came, with the names that the backend gave its fields.
  Frames that are separated by `\r\n\r\n` are never split. A stream that
  ends is not asked for again.
- Between the answer and the effect, events of the old thread still patch the new
  analysis (`ForeignOnlyWhileSwitching`); they are not in the new timeline.

## 5. Proofs

TLAPS checks the following for every value of the constants that satisfies the
named assumptions. These say what the constants stand for: that the "nothing" values
are none of the others, that sets which share a variable are disjoint, that limits
are integers, that there is a configured maximum at all, that a catalog has finitely
many tables, each with a finite list of columns.

| module | theorems | from |
|---|---|---|
| `RunsAndStream_proofs`, of `RunLifecycle` | `TypeCorrect`, `CoherentSummaries`, `EventsHaveRuns`, `Finality`, `LateWriters`, `MetadataLoss`, `Freshness`, `SerialRefinement` | `NoArtifactAssumption`; the last with one worker |
| `RunsAndStream_proofs`, of `AnalysisStream` | `StreamTypeCorrect`, `Timeline`, `Telling` | `StreamAssumption` |
| `Approvals_proofs` | `TypeCorrect`, `ApprovedBeforeActive`, `BackedRows`, `QuietAgreement`, `TrailIsKept` | `NoneAssumption`, `StrayAssumption` |
| `PolicyClients_proofs`, of `PolicyEngine` | `PolicyTypeCorrect`, `Blocking`, `Auditing` | – |
| `PolicyClients_proofs`, of the callers | `TypeCorrect`, `ClientsUsePolicy`, `ClientsStayBlocked`, `FilesAreWhole`, `KnownDatasources`, `SchemasOfTheirTime`, `RecordedAnswers` | `EvaluatorAssumption`, `RegistrationAssumption`, `LimitAssumption` |
| `ArtifactRegistry_proofs` | `TypeCorrect`, `ContentIntegrity`, `LineageIntegrity`, `WholeRecords`, `SoundEvidence`, `Orphans`, `Refinement` | `ContentAssumption` |
| `Migrations_proofs` | `TypeCorrect`, `AppliedWhenRecorded`, `CurrentWhenServing`, `Strandings` | `NobodyAssumption` |
| `ProfileStore_proofs` | `TypeCorrect`, `ManualValues`, `MartsAreProfiled`, `ManualLoss` | `SchemaAssumption`, `ValueAssumption` |
| `Sandbox_proofs` | `TypeCorrect`, `BracketingLogs`, `CompleteAnswers`, `CompleteLogs` | `FileAssumption` |
| `AgentRuntime_proofs`, of `Datasources` | `UsableDatasources`, `ContractHolds`, `SurvivingCatalogs`, `CatalogsOfUsable` | `BoundAssumption` |
| `AgentRuntime_proofs`, of `Queries` | `CheckedStatements`, `TruthfulAnswers` | `LimitAssumption` |
| `AgentRuntime_proofs`, of `AnalysisContext` | `CoherentContexts` | `ContentsAssumption` |
| `AgentRuntime_proofs` | `TypeCorrect`, `ReadyRuns`, `ReusedRegistrations` | all of these, `CallerAssumption` |

All follow the same line: an inductive invariant `IInv` that adds to the type
invariant what each worker's locals imply about the tables, a lemma for the
initial states, a lemma per action, and a temporal step. What is added, and why
the properties are not inductive without it:

- *RunLifecycle*: `Knows(w)` — the run of a call exists, what a summary has read is
  bounded by what the tables hold now, a row's `before` is covered once the events
  are read; `EventsInv` — events have runs and name registered artifacts. A summary
  that has made two of three reads satisfies any claim about finished ones; only
  `Knows` carries the claim through the reads. The action properties (`Finality`,
  `LateWriters`, `MetadataLoss`) follow from `RowSteps`, which sorts all steps into
  those that leave the rows alone, create one, or are an update's write.
  `Freshness` and `SerialRefinement` show the steps of the service to be steps of
  `RunContract`: whenever no worker is stale, and always with one worker.
- *Approvals*: `Knows(w)` lists the programs that may be left of a method, each with
  the rows that its statements so far have made; without it an `INSERT` into
  memory_records could be the next statement of a worker whose request was never
  stored. `OneInsert` — an id that is to be inserted is not there, and nobody
  else is to insert it — keeps two programs from sharing a row: `Backed(m)`
  speaks of *the* record of a request. `Backed` also has what `QuietAgreement` needs
  on the way: while a decision is recorded on an undisturbed request and its record
  is still pending, some worker's program still holds the UPDATE. `Untouched`
  is the same before there is a record. `TrailIsKept`: a step that stores a decision still
  has its event before it (`StepTells`), and no other step but a death forgets one.
- *PolicyEngine*: the decision is a function of the request, so `Blocking` is
  about all requests; `Auditing` needs that whoever has the
  decision in hand has passed `Return`, whose guard is the audit.
- *PolicyClients*: `ClientsUsePolicy` shows every step of a caller to be a step of
  the policy or to leave it alone, so that what is proved of the policy by itself
  holds under both backends: `ClientsStayBlocked` is that and `Blocking`.
  `TaskInv`, `QueryInv` — a call has asked the policy for what it is about to do,
  not for something else, and is past the policy only with its word; with
  `RefusalsAreLogged` they give `RecordedAnswers`. `FileInv` — who is about to
  fill a file is alone at it and found it empty, or the file is `torn`; a property of
  files at rest says nothing of the writers that are under way. `RowInv` (the unique
  index) and `RegisterInv` — the rows that stood when a registration began are those
  of its database; whoever inserts knew none. `SchemaInv` — what was seen of a table
  is among what it was since the call began (`was`), and so is what it is now.
- *ArtifactRegistry*: `Owns(w)`, `OneOwner` — a registering worker's directory is
  in the state its step implies and no other worker registers that id;
  `PreviewInv`. `Refinement` maps a registered id to its file's content. `Orphans`
  needs the types alone: of the steps that give up an id only `Fail` does so
  before the row is there (`OrphanStep`).
- *Migrations*: `Progress(t)` — what the position of a thread in a script implies
  for the schema and the versions. `LockInv` — the lock is held exactly between
  `InsertVersion` and `Commit`, and nobody has recorded that version meanwhile;
  a thread that has added the column and then finds the database locked gives up,
  and only `LockInv` says that whoever holds the lock is about to record that very
  version (`DueStep`).
- *ProfileStore*: `Brings(w)` — what an upsert under way will write is either
  supplied or unlabelled, and a mart brought by a refresh has its profile stored.
- *Sandbox*: `Progress(e)` — for each step of `run_python`, which logs, artifacts
  and ids there are; executions are independent (`OneStep`).
- *AgentRuntime*: the actions of four modules share the tables of datasources.
  `Grows` says what any of them does to these: registrations stay, with their
  password, and no catalog vanishes; that is what a bootstrap relies on between its
  calls. `MakingInv` — a datasource that is being made is nobody else's and has no
  row yet, and its password is stored when the row is due; `ReadingInv` — a
  refresh is of a registered datasource and holds a schema no older than its
  beginning; `QueryAt(w)` — which artifacts there are at each step of a query, and
  that its limit passed both decisions; `BootAt(w)` — before each of its calls a
  bootstrap knows its datasource to be registered, then to have the right password,
  then to have a catalog. A run is created three calls after the test of the
  password: `EnvRunsAreReady` by itself says nothing of the time between.
- *Datasources*, in the same module (`ContractHolds`): the step that shows a row is
  `Register` of `DatasourceContract`, the commit of the new columns is `Publish`, and
  the rest is nothing to those who look on. `Publish` asks for the right password and
  for a schema that the database has had, but both were found out two steps before the
  commit; `ReadInv` — a worker that has introspected holds such a schema, and its row
  still has the right password — carries them there. `StepsAre` sorts the steps of the
  composition by what they are to the datasources, so that the contract is shown for
  the calls of all modules at once. The consequences of the contract are proved from
  its steps alone (`CatalogsOfUsable`), or from `Grows` (`SurvivingCatalogs`).
- *AnalysisContext*, in the same module: `ContextAt(w)` — a call that is to return
  has made all of its reads. The rest is about the operators: `Places` shows that a
  set with one match of each table has a first one, a second one and so on (the
  number of matches before one is an injection into as many places, and so a
  surjection: no induction over the set is needed), which is why `Ranked` chooses the
  match of each place; from that, `SearchFinds` and `MatchesAreMade` say what each
  match names, and `Advice` what a context does.

- *AnalysisStream* (`StreamInv`): `TimelineIsTrue` compares what is shown with what
  the backend wrote, and says nothing of the buffer and the forwarded frames in
  between. `BufferInv` — the buffer holds what was read of the frame that is not
  whole; with it, the pairs of newlines in the buffer and a chunk are exactly the
  ends of the frames that the chunk completes (`SplitIs`), so that `Transform`
  forwards those and leaves the next buffer. `OutInv` — what was forwarded is, place
  by place, what was heard: the k-th is the k-th frame that is no note. `DoneInv`
  — the first `[DONE]` that was handled closed the source, or none was and what is
  closed had been handled to its end. `ShownInv` — the timeline has the events
  among the frames that were handled. A frame is found by counting: `Nth(I, k)` is
  the place with k of `I` up to it, and `NthOf`, `NthIs` (ranks are an injection of
  `I` into as many numbers) replace an induction over the text. `FeedsInv` — only
  the source of the effect's thread is open; `Telling` follows from that (`OpenStream`),
  since only an open source delivers.

Every module with proofs has its type invariant proved, so the runs do not repeat
it; only `agent_runtime` lists `TypeOK`.

**Only model-checked.**

- The liveness properties (`ApprovalTakesEffect`, `CallsEnd`, `StreamingEnds`),
  which TLAPS cannot handle.
- The three violations, which are counterexamples.

## 6. Not modelled, and abstractions

- Texts, previews, redaction, risk flags, SQL parsing (one Boolean), timestamps,
  thread and project ids; search of memories and of the semantic registry.
- Metrics and business terms (one statement each) and semantic seeds, which are
  sequences of the upserts that are modelled.
- Of the analysis context: column roles, warnings, guidance, metric and time hints,
  which are computed from what is modelled; of the registry and the profiles it
  reads once, the answers are input.
- Of the workspace: what the read-only mounts hold (their records are in
  `ArtifactRegistry` and `Approvals`), symbolic links and `CatalogStore`'s reads.
  `WorkspaceStorageService` writes by `register_artifact` alone, which is in
  `ArtifactRegistry`.
- Of O's datasources: the catalog cache in memory and the secrets that callers
  bring with each call. Nothing fills that cache but `refresh_catalog`, which no
  route of O calls.
- Of the sandbox: what its code does to `../logs`, which the local executor cannot
  keep it from; Docker does not mount that directory. The logs are taken to be the
  executor's own.
- Of the frontend's stream: `TimelineIsTrue` is about streams of the backend, and the
  local client's own events meet only the other two properties; an answer without a
  `threadId` and a frame whose data is `null` are left out.
- Of the frontend: markup, and the routes for approvals, messages, cancelling and
  downloads, which pass a request on.
- The LLM client and report agent, prompts and schemas: I/O and formatting. Of
  the connectors, types and CSV output; quoting and connections are only what may fail. HTTP and MCP shells have no state; their handlers are mapped with
  the components they call, and every exception becomes an answer
  (`mcp/deps.py` `result_wrap`).
- SQLite itself: transactions are atomic, durable and isolated. Where a write lock
  spans more than one step (`Migrations`, `Datasources`) the lock is modelled.

## 7. Plan

Done, in the order of importance: runs, approvals with memory and exports, policy,
artifacts, migrations, profiles, sandbox, datasources with queries, agent runtime,
analysis context, workspace, O's datasources, the frontend's stream.

Proved: everything that the passing runs check of safety (section 5).

What could follow: contracts like `DatasourceContract` for the approvals and for the
profiles, whose properties are proved one by one so far; and `MySQLConnector`'s
connections, if they are ever pooled.

A new property replaces a shallower one, so that each run stays about one question.
