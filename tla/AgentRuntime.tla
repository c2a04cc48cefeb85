----------------------------- MODULE AgentRuntime -----------------------------
(***************************************************************************)
(* AgentRuntime: how the run of a question comes by its datasource, next   *)
(* to the other calls of Datasources, Queries and AnalysisContext.         *)
(*                                                                         *)
(* A question either names a datasource or leaves it to the environment,   *)
(* whose database is then looked for among the registrations, registered   *)
(* when it is not there, connected to, and read into the catalog.  Each of *)
(* these is a call of its own on the backend, and other processes make     *)
(* theirs in between.  The run is created last; what its agent then calls  *)
(* are the calls of Queries and AnalysisContext.                           *)
(***************************************************************************)
EXTENDS Queries, AnalysisContext

CONSTANT Callers  \* the workers that make other calls than a bootstrap's

ASSUME CallerAssumption == Callers \subseteq Workers

VARIABLES
    boot,      \* boot[w]     : the call that w's bootstrap makes, or makes next
    password,  \* password[w] : the one in the environment of w
    found,     \* found[w]    : the datasource resolved so far
    late,      \* late[w]     : whether a registration was there when w began, while w looks for one
    source,    \* source[w]   : datasource_source
    runs       \* the datasources of the runs whose datasource_source is "env"

runtime == <<boot, password, found, late, source, runs>>
calls == <<query, context>>
vars == <<dvars, calls, runtime>>

Boot == {"none", "list", "create", "test", "refresh", "run"}
Source == {"cli", "env"}

TypeOK ==
    /\ QueriesTypeOK
    /\ ContextTypeOK
    /\ at \in [Workers -> RegistryStep \cup QueryStep \cup ContextStep]
    /\ boot \in [Workers -> Boot]
    /\ password \in [Workers -> Password]
    /\ found \in [Workers -> Ids \cup {None}]
    /\ late \in [Workers -> BOOLEAN]
    /\ source \in [Workers -> Source]
    /\ runs \subseteq Ids

Init ==
    /\ QueriesInit
    /\ ContextInit
    /\ boot = [w \in Workers |-> "none"]
    /\ password = [w \in Workers |-> "right"]
    /\ found = [w \in Workers |-> None]
    /\ late = [w \in Workers |-> FALSE]
    /\ source = [w \in Workers |-> "cli"]
    /\ runs = {}

Idle(w) == at[w] = "idle" /\ boot[w] = "none"

\* A registration has been resolved, or is not looked for any more.
Settle(w) ==
    /\ password' = [password EXCEPT ![w] = "right"]
    /\ late' = [late EXCEPT ![w] = FALSE]

\* The bootstrap goes on to its next call.
Proceed(w, next, d) ==
    /\ boot' = [boot EXCEPT ![w] = next]
    /\ found' = [found EXCEPT ![w] = d]
    /\ IF next = "create" THEN UNCHANGED <<password, late>> ELSE Settle(w)
    /\ UNCHANGED <<source, runs>>

\* There is no bootstrap any more.
EndBootstrap(w) ==
    /\ boot' = [boot EXCEPT ![w] = "none"]
    /\ found' = [found EXCEPT ![w] = None]
    /\ Settle(w)
    /\ source' = [source EXCEPT ![w] = "cli"]

-------------------------------------------------------------------------------
(* resolve_datasource_id.                                                  *)

\* A question with a datasource id: nothing is looked up.
AskById(w, d) ==
    /\ Idle(w)
    /\ Proceed(w, "run", d)
    /\ UNCHANGED <<dvars, calls>>

\* A question without one; the environment names the database.
Ask(w, p) ==
    /\ Idle(w)
    /\ boot' = [boot EXCEPT ![w] = "list"]
    /\ password' = [password EXCEPT ![w] = p]
    /\ late' = [late EXCEPT ![w] = rows # {}]
    /\ source' = [source EXCEPT ![w] = "env"]
    /\ UNCHANGED <<dvars, calls, found, runs>>

\* Mutant: a registration with another password is not taken.
SamePassword(w) == {d \in rows : secrets[d] = password[w]}

\* The registrations with the kind, name, host, port, database and user of
\* the environment.  The password is not among what a datasource shows.
Matching(w) == rows

\* list_datasources orders by created_at; the first match is taken.
First(w, d) ==
    \E i \in DOMAIN created :
        /\ created[i] = d
        /\ \A j \in DOMAIN created : created[j] \in Matching(w) => i <= j

List(w) ==
    /\ boot[w] = "list"
    /\ IF Matching(w) = {}
       THEN Proceed(w, "create", None)
       ELSE \E d \in Matching(w) : First(w, d) /\ Proceed(w, "test", d)
    /\ UNCHANGED <<dvars, calls>>

\* Mutant: the catalog is left to the first query.
Unrefreshed(step) == CASE step = "create" -> "test" [] step \in {"test", "refresh"} -> "run"

\* What follows a call that has succeeded.
After(step) == CASE step = "create"  -> "test"
                 [] step = "test"    -> "refresh"
                 [] step = "refresh" -> "run"

CallCreate(w, d) ==
    /\ boot[w] = "create"
    /\ Create(w, d, password[w])
    /\ UNCHANGED <<calls, runtime>>

Created(w) ==
    /\ boot[w] = "create"
    /\ InsertRow(w)
    /\ Proceed(w, After("create"), on[w])
    /\ UNCHANGED calls

\* test_connection opens a connection with the password in the file.
Test(w) ==
    /\ boot[w] = "test"
    /\ secrets[found[w]] = "right"
    /\ Proceed(w, After("test"), found[w])
    /\ UNCHANGED <<dvars, calls>>

CallRefresh(w) ==
    /\ boot[w] = "refresh"
    /\ Refresh(w, found[w])
    /\ UNCHANGED <<calls, runtime>>

Refreshed(w) ==
    /\ boot[w] = "refresh"
    /\ InsertColumns(w)
    /\ Proceed(w, After("refresh"), found[w])
    /\ UNCHANGED calls

\* The other steps of these calls.
InCall(w) ==
    /\ boot[w] \in {"create", "refresh"}
    /\ InCreate(w) \/ InRefresh(w)
    /\ UNCHANGED <<calls, runtime>>

\* _create_run.
CreateRun(w) ==
    /\ boot[w] = "run"
    /\ lock = None
    /\ runs' = IF source[w] = "env" THEN runs \cup {found[w]} ELSE runs
    /\ EndBootstrap(w)
    /\ UNCHANGED <<dvars, calls>>

\* A call fails, and AgentRuntimeError ends the bootstrap; or the process
\* dies.
Abort(w) ==
    /\ boot[w] # "none"
    /\ EndBootstrap(w)
    /\ Stop(w) \/ (at[w] = "idle" /\ UNCHANGED dvars)
    /\ UNCHANGED <<calls, runs>>

RuntimeNext(w) ==
    \/ \E d \in Ids : AskById(w, d) \/ CallCreate(w, d)
    \/ \E p \in Password : Ask(w, p)
    \/ List(w) \/ Created(w) \/ Test(w) \/ CallRefresh(w) \/ Refreshed(w)
    \/ InCall(w) \/ CreateRun(w) \/ Abort(w)

\* The calls that other clients, and the agents of runs, make.
OtherNext(w) ==
    /\ w \in Callers
    /\ boot[w] = "none"
    /\ \/ DatasourcesNext(w) /\ UNCHANGED calls
       \/ QueryNext(w) /\ UNCHANGED context
       \/ ContextNext(w) /\ UNCHANGED query
    /\ UNCHANGED runtime

Next ==
    \/ Alter /\ UNCHANGED <<calls, runtime>>
    \/ \E w \in Workers : RuntimeNext(w) \/ OtherNext(w)

Spec == Init /\ [][Next]_vars

-------------------------------------------------------------------------------
(* Properties.                                                             *)

\* A run that left its datasource to the environment can be worked on, and
\* whatever happens later it stays so: its datasource is registered, with
\* the password of the database, and has a catalog.
EnvRunsAreReady ==
    \A d \in runs : d \in rows /\ secrets[d] = "right" /\ catalog[d] # 0

\* A bootstrap registers its database only when that was not registered as
\* the bootstrap began: one that begins when there is a registration takes
\* one, whatever others do meanwhile (runtime.py:208-217).  This is about
\* bootstraps: a client's own datasource_create may register the database
\* again at any time.
KnownIsReused == \A w \in Workers : boot[w] = "create" => ~late[w]
===============================================================================
