---------------------------- MODULE RunLifecycle ----------------------------
(***************************************************************************)
(* RunService and CheckpointManager over the SQLite store.                 *)
(*                                                                         *)
(* Every call of SQLiteStore.execute / query_one / query_all opens its own *)
(* connection and commits its own transaction, HTTP handlers run on a      *)
(* thread pool and every MCP server is a process of its own on the same    *)
(* file.  A service method is therefore a sequence of atomic SQL           *)
(* statements that other methods may come between, and that a killed       *)
(* process may cut short.  One action below is one statement together with *)
(* the Python that runs up to the next one.                                *)
(*                                                                         *)
(* policy_engine.enforce("run.*") lets every run id pass that does not     *)
(* name the secrets mount; run ids here are such ids.  Timestamps,         *)
(* thread and project ids and the texts of events are left out.            *)
(***************************************************************************)
EXTENDS Naturals, Sequences

CONSTANTS
    Workers,    \* threads of the API server and MCP server processes
    Runs,       \* run ids
    Keys,       \* metadata keys
    Artifacts,  \* artifact ids
    NoArtifact  \* the artifact of an event that names none

ASSUME NoArtifactAssumption == NoArtifact \notin Artifacts

VARIABLES
    run,        \* table runs: run[r] is the row of r
    events,     \* table run_events: the artifacts that the events of r name
    artifacts,  \* table artifacts: the ids registered for r
    call        \* call[w] : the method worker w is inside, and its locals

vars == <<run, events, artifacts, call>>

\* The table "runs", its statuses and its rows are those of the contract.
Contract == INSTANCE RunContract

Status   == Contract!Status
Terminal == Contract!Terminal
Exists(r)  == Contract!Exists(run[r])
IsFinal(r) == Contract!IsFinal(run[r])

Event == Artifacts \cup {NoArtifact}

----------------------------------------------------------------------------
(* The locals of a worker.                                                 *)

\* Mutants: the summary reads the events before the row, or the artifacts
\* before the events.
EventsReadFirst    == <<"events", "run", "artifacts">>
ArtifactsReadEarly == <<"run", "artifacts", "events">>

\* The reads of get_summary, in the order the method makes them.
ReadOrder == <<"run", "events", "artifacts">>

Idle == [op |-> "idle"]

Updating(r, row, s, given, m) ==
    [op |-> "update", run |-> r, seen |-> row,
     status |-> s, given |-> given, meta |-> m]

Appending(r, e) == [op |-> "append", run |-> r, event |-> e]

Summary(r, pos, row, evs, arts, before) ==
    [op |-> "summary", run |-> r, pos |-> pos, row |-> row,
     events |-> evs, artifacts |-> arts, before |-> before]

\* given: whether the caller passed metadata at all.  before: the events
\* that were stored when the row was read; it is not a local of the method
\* but a history that SummaryIsCoherent speaks of.
UpdateCall  == [op : {"update"}, run : Runs, seen : Contract!Row,
                status : Status, given : BOOLEAN, meta : SUBSET Keys]
AppendCall  == [op : {"append"}, run : Runs, event : Event]
SummaryCall == [op : {"summary"}, run : Runs, pos : 1..4,
                row : Contract!Row, events : SUBSET Event,
                artifacts : SUBSET Artifacts, before : SUBSET Event]

IsUpdate(w)  == call[w].op = "update"
IsAppend(w)  == call[w].op = "append"
IsSummary(w) == call[w].op = "summary"

\* Worker w is between the read and the write of an update of r.
InFlight(w, r) == IsUpdate(w) /\ call[w].run = r

TypeOK ==
    /\ run \in [Runs -> Contract!Row]
    /\ events \in [Runs -> SUBSET Event]
    /\ artifacts \in [Runs -> SUBSET Artifacts]
    /\ call \in [Workers -> {Idle} \cup UpdateCall \cup AppendCall \cup SummaryCall]

Init ==
    /\ run = [r \in Runs |-> Contract!Absent]
    /\ events = [r \in Runs |-> {}]
    /\ artifacts = [r \in Runs |-> {}]
    /\ call = [w \in Workers |-> Idle]

----------------------------------------------------------------------------
(* Operations.                                                             *)

Start(w, c) == call[w] = Idle /\ call' = [call EXCEPT ![w] = c]
Return(w)   == call' = [call EXCEPT ![w] = Idle]

\* create_run: one INSERT.  A run id in use violates the primary key and
\* the call fails with nothing written.
CreateRun(w, r, m) ==
    /\ call[w] = Idle
    /\ Contract!Create(r, m)
    /\ UNCHANGED <<events, artifacts, call>>

\* Mutants: a column default that models/runs.py does not know, another
\* that it knows, and a conflict clause that also resets the status.
Queued(row, m) ==
    IF Contract!Exists(row) THEN row ELSE [status |-> "queued", meta |-> m]
StartedAtOnce(row, m) ==
    IF Contract!Exists(row) THEN row ELSE [status |-> "running", meta |-> m]
Reopened(row, m) == [status |-> "created", meta |-> row.meta \cup m]

\* What ensure_run leaves of a row: a missing one is created with the
\* column's default status, a known one renews only its updated_at.
Upserted(row, m) ==
    IF Contract!Exists(row) THEN row ELSE [status |-> "created", meta |-> m]

\* ensure_run: one INSERT ... ON CONFLICT DO UPDATE.
EnsureRun(w, r, m) ==
    /\ call[w] = Idle
    /\ run' = [run EXCEPT ![r] = Upserted(@, m)]
    /\ UNCHANGED <<events, artifacts, call>>

\* Mutant: the terminal check is dropped.
KnownRun(row) == Contract!Exists(row)

\* The rows update_status goes on with: a missing run (NOT_FOUND) and a
\* terminal one (RUN_TERMINAL) end the call with nothing written.
MayUpdate(row) == Contract!Exists(row) /\ ~Contract!IsFinal(row)

\* update_status, up to its UPDATE: get_run and the check of what it read.
ReadForUpdate(w, r, s, given, m) ==
    /\ given \/ m = {}
    /\ MayUpdate(run[r])
    /\ Start(w, Updating(r, run[r], s, given, m))
    /\ UNCHANGED <<run, events, artifacts>>

\* Mutant: the argument replaces the stored metadata.
Overwritten(c) == IF c.given THEN c.meta ELSE run[c.run].meta

\* The metadata that the UPDATE stores: the row read earlier merged with
\* the argument, or the column left alone when no metadata was passed.
Merged(c) == IF c.given THEN c.seen.meta \cup c.meta ELSE run[c.run].meta

\* The UPDATE.  Its WHERE clause names the run id alone.
WriteStatus(w) ==
    /\ IsUpdate(w)
    /\ LET c == call[w]
       IN  run' = [run EXCEPT ![c.run] = [status |-> c.status, meta |-> Merged(c)]]
    /\ Return(w)
    /\ UNCHANGED <<events, artifacts>>

\* The rows append_event goes on with; the status does not matter.
MayAppend(row) == Contract!Exists(row)

\* append_event, up to its INSERT: get_run raises NOT_FOUND for an unknown
\* run.  A caller reports an artifact that it has registered.
ReadForAppend(w, r, e) ==
    /\ MayAppend(run[r])
    /\ e \in artifacts[r] \cup {NoArtifact}
    /\ Start(w, Appending(r, e))
    /\ UNCHANGED <<run, events, artifacts>>

\* The INSERT into run_events.
WriteEvent(w) ==
    /\ IsAppend(w)
    /\ LET c == call[w]
       IN  events' = [events EXCEPT ![c.run] = @ \cup {c.event}]
    /\ Return(w)
    /\ UNCHANGED <<run, artifacts>>

\* An artifact row appears.  artifacts.run_id is no foreign key: the run
\* need not exist.  ArtifactRegistry.tla models this call in full.
RegisterArtifact(w, r, a) ==
    /\ call[w] = Idle
    /\ artifacts' = [artifacts EXCEPT ![r] = @ \cup {a}]
    /\ UNCHANGED <<run, events, call>>

\* get_summary: separate reads of three tables.
BeginSummary(w, r) ==
    /\ Exists(r)
    /\ Start(w, Summary(r, 1, Contract!Absent, {}, {}, {}))
    /\ UNCHANGED <<run, events, artifacts>>

SummaryRead(w) ==
    /\ IsSummary(w)
    /\ call[w].pos <= 3
    /\ LET c == call[w]
           reads(table) == ReadOrder[c.pos] = table
       IN  call' = [call EXCEPT ![w] =
               Summary(c.run, c.pos + 1,
                       IF reads("run") THEN run[c.run] ELSE c.row,
                       IF reads("events") THEN events[c.run] ELSE c.events,
                       IF reads("artifacts") THEN artifacts[c.run] ELSE c.artifacts,
                       IF reads("run") THEN events[c.run] ELSE c.before)]
    /\ UNCHANGED <<run, events, artifacts>>

EndSummary(w) ==
    /\ IsSummary(w)
    /\ call[w].pos = 4
    /\ Return(w)
    /\ UNCHANGED <<run, events, artifacts>>

\* The process of a worker dies between two statements.
Crash(w) ==
    /\ call[w] # Idle
    /\ Return(w)
    /\ UNCHANGED <<run, events, artifacts>>

\* A worker begins, or makes in one statement, a call about run r.
CallOf(w, r) ==
    \/ BeginSummary(w, r)
    \/ \E e \in Event : ReadForAppend(w, r, e)
    \/ \E a \in Artifacts : RegisterArtifact(w, r, a)
    \/ \E m \in SUBSET Keys :
         \/ CreateRun(w, r, m)
         \/ EnsureRun(w, r, m)
         \/ \E s \in Status, given \in BOOLEAN : ReadForUpdate(w, r, s, given, m)

\* A worker goes on with the call it is inside, or begins one.
NextOf(w) ==
    \/ WriteStatus(w)
    \/ WriteEvent(w)
    \/ SummaryRead(w)
    \/ EndSummary(w)
    \/ Crash(w)
    \/ \E r \in Runs : CallOf(w, r)

Next == \E w \in Workers : NextOf(w)

Spec == Init /\ [][Next]_vars

----------------------------------------------------------------------------
(* Properties.                                                             *)

\* append_event stores events of existing runs only (run_service.py:132 and
\* the foreign key of run_events), although the check and the INSERT are two
\* transactions.
EventsBelongToRuns == \A r \in Runs : events[r] # {} => Exists(r)

\* What get_summary returns: a call that has made all its reads.
Finished(w) == IsSummary(w) /\ call[w].pos = 4

\* The order of get_summary's reads makes its answer coherent.  The row is
\* read first, so that a reader who sees a status also sees the events that
\* led to it; the events are read before the artifacts, so that none of them
\* is about an artifact that the summary does not list, as long as agents
\* register an artifact before they report it (run_service.py:168-170).
SummaryIsCoherent ==
    \A w \in Workers :
        Finished(w) => /\ call[w].before \subseteq call[w].events
                       /\ call[w].events \ {NoArtifact} \subseteq call[w].artifacts

\* A terminal run that no update is in the middle of has settled: whatever
\* the other workers do, its row never changes again (run_service.py:96-109).
FinalOnceQuiet ==
    [][\A r \in Runs :
         IsFinal(r) /\ (\A w \in Workers : ~InFlight(w, r)) => run'[r] = run[r]]_vars

\* A terminal status gives way only to a worker that read the run before it
\* became terminal: the check of run_service.py:97 is never skipped.
OnlyLateWritersUnfinish ==
    [][\A r \in Runs :
         IsFinal(r) /\ run'[r].status # run[r].status =>
            \E w \in Workers : InFlight(w, r) /\ call[w].seen.status \notin Terminal]_vars

\* A metadata key disappears only when the writer merged into a row that
\* another update had replaced meanwhile (run_service.py:104-107).
LossNeedsOverlap ==
    [][\A r \in Runs :
         ~(run[r].meta \subseteq run'[r].meta) =>
            \E w \in Workers : InFlight(w, r) /\ call[w].seen.meta # run[r].meta]_vars

\* No worker is about to write on the strength of a row that has changed.
NobodyIsStale ==
    \A w \in Workers : IsUpdate(w) => call[w].seen = run[call[w].run]

\* As long as that is so the service keeps its contract, step by step and
\* with any number of workers: its departures from RunContract all come from
\* the one read of update_status that outlives its row (run_service.py:96).
ContractWhileFresh == [][NobodyIsStale => Contract!Next]_run

\* The whole contract, which the service implements with one worker, and
\* the part of it that its error message states.
ContractSpec    == Contract!Spec
TerminalIsFinal == Contract!TerminalIsFinal
=============================================================================
