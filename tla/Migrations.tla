------------------------------ MODULE Migrations ------------------------------
(***************************************************************************)
(* SQLiteStore.migrate, and the services that are built on first use.      *)
(*                                                                         *)
(* A thread that needs the services of its process, and finds none, builds *)
(* them, and with them a SQLiteStore, which migrates the database before   *)
(* anything else.  Other threads of the process and other processes may    *)
(* be doing the same on the same file.                                     *)
(*                                                                         *)
(* executescript commits the open transaction and then runs its statements *)
(* one by one, each a transaction of its own.  The INSERT of the version   *)
(* that follows opens a transaction that is committed by the next script,  *)
(* or when the connection is closed without an exception.                  *)
(*                                                                         *)
(* The tables that a script creates IF NOT EXISTS are one statement here,  *)
(* or two when something else comes between.                               *)
(***************************************************************************)
EXTENDS Integers, Sequences

CONSTANTS
    Processes,  \* processes that share the database file
    Slots,      \* threads of a process
    Nobody      \* the holder of a lock that is free

ASSUME NobodyAssumption == Nobody \notin Processes \X Slots

Threads == Processes \X Slots

VARIABLES
    schema,     \* what the scripts have made so far
    versions,   \* table schema_migrations, as committed
    lock,       \* the thread with an open write transaction
    services,   \* services[p] : whether process p holds its services
    thread      \* thread[t] : what thread t is doing

vars == <<schema, versions, lock, services, thread>>

-----------------------------------------------------------------------------
(* The scripts.                                                            *)

Version == 1..4

\* MIGRATIONS: version 2 adds a column and then a table.
Script == << <<"tables">>, <<"runs.status", "run_events">>,
             <<"datasources">>, <<"profiles">> >>

Things(v) == {Script[v][i] : i \in DOMAIN Script[v]}

AllThings == UNION {Things(v) : v \in Version}

\* ALTER TABLE ... ADD COLUMN has no IF NOT EXISTS.
Repeatable(thing) == thing # "runs.status"

-----------------------------------------------------------------------------
(* The state of a thread: before SELECT version, or at statement i + 1 of  *)
(* the script of version v, or about to insert v, or to commit it.         *)

Idle    == [at |-> "idle"]
Reading == [at |-> "read"]
At(at, applied, v, i) == [at |-> at, applied |-> applied, v |-> v, i |-> i]

Migrating == [at : {"script", "insert", "commit"}, applied : SUBSET Version,
              v : 1..5, i : 0..2]

TypeOK ==
    /\ schema \in SUBSET AllThings
    /\ versions \in SUBSET Version
    /\ lock \in Threads \cup {Nobody}
    /\ services \in [Processes -> BOOLEAN]
    /\ thread \in [Threads -> {Idle, Reading} \cup Migrating]

\* A new file, or one that an earlier release has left at some version.
Init ==
    /\ \E k \in 0..4 : /\ versions = 1..k
                       /\ schema = UNION {Things(v) : v \in 1..k}
    /\ lock = Nobody
    /\ services = [p \in Processes |-> FALSE]
    /\ thread = [t \in Threads |-> Idle]

Goto(t, s) == thread' = [thread EXCEPT ![t] = s]

\* An exception rolls the open transaction back; the request fails and the
\* process is left without services.
Fail(t) ==
    /\ Goto(t, Idle)
    /\ lock' = IF lock = t THEN Nobody ELSE lock
    /\ UNCHANGED <<schema, versions, services>>

-----------------------------------------------------------------------------
(* Actions.                                                                *)

\* get_services and get_backend_services: check, and build if there are none.
Request(t) ==
    /\ thread[t] = Idle
    /\ ~services[t[1]]
    /\ Goto(t, Reading)
    /\ UNCHANGED <<schema, versions, lock, services>>

\* Mutant: a database that has been migrated before is left alone.
AnyVersionIsEnough(vs) == IF vs = {} THEN {} ELSE Version

\* What the loop will skip.
Applied(vs) == vs

SelectVersions(t) ==
    /\ thread[t].at = "read"
    /\ Goto(t, At("script", Applied(versions), 1, 0))
    /\ UNCHANGED <<schema, versions, lock, services>>

Skip(t) ==
    LET s == thread[t]
    IN  /\ s.at = "script" /\ s.v \in s.applied
        /\ Goto(t, At("script", s.applied, s.v + 1, 0))
        /\ UNCHANGED <<schema, versions, lock, services>>

\* A thread can write while no other has a write transaction open.
MayWrite(t) == lock \in {Nobody, t}

\* Mutant: the version is recorded before its script runs.
RecordFirst(t) ==
    LET s == thread[t]
    IN  /\ s.at = "script" /\ s.v \in Version \ s.applied
        /\ MayWrite(t)
        /\ versions' = versions \cup {s.v}
        /\ schema' = schema \cup {Script[s.v][s.i + 1]}
        /\ Goto(t, At(IF s.i + 1 = Len(Script[s.v]) THEN "insert" ELSE "script",
                      s.applied, s.v, s.i + 1))
        /\ UNCHANGED <<lock, services>>

\* The next statement of the script.
Statement(t) ==
    LET s == thread[t]
    IN  /\ s.at = "script" /\ s.v \in Version \ s.applied
        /\ MayWrite(t)
        /\ LET thing == Script[s.v][s.i + 1]
           IN  IF thing \in schema /\ ~Repeatable(thing)
               THEN Fail(t)
               ELSE /\ schema' = schema \cup {thing}
                    /\ Goto(t, At(IF s.i + 1 = Len(Script[s.v]) THEN "insert" ELSE "script",
                                  s.applied, s.v, s.i + 1))
                    /\ UNCHANGED <<versions, lock, services>>

\* INSERT INTO schema_migrations; a version that is there already violates
\* the primary key.
InsertVersion(t) ==
    LET s == thread[t]
    IN  /\ s.at = "insert"
        /\ MayWrite(t)
        /\ IF s.v \in versions
           THEN Fail(t)
           ELSE /\ lock' = t
                /\ Goto(t, At("commit", s.applied, s.v, s.i))
                /\ UNCHANGED <<schema, versions, services>>

\* Mutant: the transaction of the INSERT is rolled back by the next script.
RolledBack(t) ==
    LET s == thread[t]
    IN  /\ s.at = "commit"
        /\ lock' = Nobody
        /\ Goto(t, At("script", s.applied, s.v + 1, 0))
        /\ UNCHANGED <<schema, versions, services>>

Commit(t) ==
    LET s == thread[t]
    IN  /\ s.at = "commit"
        /\ versions' = versions \cup {s.v}
        /\ lock' = Nobody
        /\ Goto(t, At("script", s.applied, s.v + 1, 0))
        /\ UNCHANGED <<schema, services>>

\* "database is locked", after five seconds.
Locked(t) ==
    /\ thread[t].at = "insert" \/ (thread[t].at = "script" /\ thread[t].v \in Version \ thread[t].applied)
    /\ ~MayWrite(t)
    /\ Fail(t)

\* The store is built; the other services only keep references to it.
Serve(t) ==
    /\ thread[t].at = "script" /\ thread[t].v = 5
    /\ services' = [services EXCEPT ![t[1]] = TRUE]
    /\ Goto(t, Idle)
    /\ UNCHANGED <<schema, versions, lock>>

Crash(p) ==
    /\ services' = [services EXCEPT ![p] = FALSE]
    /\ thread' = [t \in Threads |-> IF t[1] = p THEN Idle ELSE thread[t]]
    /\ lock' = IF lock \in {p} \X Slots THEN Nobody ELSE lock
    /\ UNCHANGED <<schema, versions>>

Step(t) ==
    \/ SelectVersions(t) \/ Skip(t) \/ Statement(t) \/ InsertVersion(t)
    \/ Commit(t) \/ Locked(t) \/ Serve(t)

Next ==
    \/ \E t \in Threads : Request(t) \/ Step(t)
    \/ \E p \in Processes : Crash(p)

Spec == Init /\ [][Next]_vars

-----------------------------------------------------------------------------
(* Properties.                                                             *)

\* A recorded version is in the database, all of it, whichever processes
\* died in the middle of its script and whoever raced them
\* (sqlite.py:43-47).
RecordedMeansApplied == \A v \in versions : Things(v) \subseteq schema

\* A process that serves requests serves them from the current schema: no
\* thread gets services from a database that another thread has only half
\* migrated (sqlite.py:28, api/deps.py:8-13, mcp/deps.py:14-18).
ServedMeansCurrent ==
    (\E p \in Processes : services[p]) => schema = AllThings /\ versions = Version

\* A column that is there without its version, and no thread about to record
\* it: every later start fails at the ALTER TABLE (migrations.py:141).
Stranded ==
    /\ "runs.status" \in schema
    /\ 2 \notin versions
    /\ \A t \in Threads : ~(/\ thread[t].at \in {"script", "insert", "commit"}
                            /\ thread[t].v = 2 /\ thread[t].i > 0)

\* Only the death of a process strands the database: threads that race each
\* other through the migrations never do, although some of their requests
\* fail (sqlite.py:43-47).
OnlyCrashesStrand == [][~Stranded /\ Stranded' => \E p \in Processes : Crash(p)]_vars
=============================================================================
