----------------------------- MODULE Datasources ------------------------------
(***************************************************************************)
(* DatasourceService and DatasourceRegistry: the registration of a         *)
(* database with its password, and the copy of its schema that is kept as  *)
(* its catalog.                                                            *)
(*                                                                         *)
(* The password is a file, the registration a row; the two have no common  *)
(* transaction.  A refresh reads the schema from the database, outside any *)
(* transaction of the store, and then replaces the catalog in one.  The    *)
(* schemas the database has had are numbered from 1; 0 is no catalog.      *)
(* All datasources here are registrations of one database.                 *)
(***************************************************************************)
EXTENDS Naturals, Sequences, SequencesExt

CONSTANTS
    Workers,    \* threads and processes that serve calls
    Ids,        \* datasource ids, each drawn once
    MaxVersion, \* bound on the changes of the schema
    None        \* the owner of a lock that is free, the datasource of no call

ASSUME BoundAssumption == MaxVersion \in Nat \ {0} /\ None \notin Workers \cup Ids

VARIABLES
    live,     \* the schema the databases have now
    created,  \* the ids that were drawn, in the order of created_at
    secrets,  \* secrets[d] : the password in the file of d
    rows,     \* ids with a row in datasources
    catalog,  \* catalog[d] : the schema that datasource_catalog_columns holds
    begun,    \* begun[d]   : the schema when the call began that stored catalog[d]
    lock,     \* who holds SQLite's write lock over more than one step
    at,       \* at[w]      : where w is in its call
    on,       \* on[w]      : the datasource of that call
    given,    \* given[w]   : the password that w registers
    since,    \* since[w]   : the schema when w's refresh began
    held      \* held[w]    : the schema w's refresh has read

store == <<live, created, secrets, rows, catalog, begun, lock>>
local == <<on, given, since, held>>
dvars == <<store, at, local>>

Version == 0 .. MaxVersion

\* Whether it is the password of the database.
Password == {"wrong", "right"}

RegistryStep == {"idle", "secret", "writing", "row", "introspect", "introspected", "deleted"}

DatasourcesTypeOK ==
    /\ live \in Version \ {0}
    /\ created \in Seq(Ids)
    /\ secrets \in [Ids -> {"none", "partial"} \cup Password]
    /\ rows \in SUBSET Ids
    /\ catalog \in [Ids -> Version]
    /\ begun \in [Ids -> Version]
    /\ lock \in Workers \cup {None}
    /\ lock # None => at[lock] = "deleted"
    /\ on \in [Workers -> Ids \cup {None}]
    /\ given \in [Workers -> Password]
    /\ since \in [Workers -> Version]
    /\ held \in [Workers -> Version]

DatasourcesInit ==
    /\ live = 1
    /\ created = <<>>
    /\ secrets = [d \in Ids |-> "none"]
    /\ rows = {}
    /\ catalog = [d \in Ids |-> 0]
    /\ begun = [d \in Ids |-> 0]
    /\ lock = None
    /\ at = [w \in Workers |-> "idle"]
    /\ on = [w \in Workers |-> None]
    /\ given = [w \in Workers |-> "right"]
    /\ since = [w \in Workers |-> 0]
    /\ held = [w \in Workers |-> 0]

Goto(w, step) == at' = [at EXCEPT ![w] = step]

\* The worker forgets its call.
Leave(w) ==
    /\ Goto(w, "idle")
    /\ on' = [on EXCEPT ![w] = None]
    /\ given' = [given EXCEPT ![w] = "right"]
    /\ since' = [since EXCEPT ![w] = 0]
    /\ held' = [held EXCEPT ![w] = 0]

Continue(w, step) == IF step = "idle" THEN Leave(w) ELSE Goto(w, step) /\ UNCHANGED local

\* Someone changes the schema of the database.
Alter ==
    /\ live < MaxVersion
    /\ live' = live + 1
    /\ UNCHANGED <<created, secrets, rows, catalog, begun, lock, at, local>>

-------------------------------------------------------------------------------
(* create_datasource.                                                      *)

\* Mutant: the row is inserted before the password is written.
RowFirst(step) == CASE step = "start"  -> "row"
                    [] step = "row"    -> "secret"
                    [] step = "secret" -> "idle"

\* What follows in create_datasource.
Then(step) == CASE step = "start"  -> "secret"
                [] step = "secret" -> "row"
                [] step = "row"    -> "idle"

\* The kind is known and there is a password; the id is new.
Create(w, d, password) ==
    /\ at[w] = "idle"
    /\ d \notin ToSet(created)
    /\ created' = Append(created, d)
    /\ Goto(w, Then("start"))
    /\ on' = [on EXCEPT ![w] = d]
    /\ given' = [given EXCEPT ![w] = password]
    /\ UNCHANGED <<live, secrets, rows, catalog, begun, lock, since, held>>

\* write_text opens the file, which is empty then, and fills it.
OpenSecret(w) ==
    /\ at[w] = "secret"
    /\ secrets' = [secrets EXCEPT ![on[w]] = "partial"]
    /\ Goto(w, "writing")
    /\ UNCHANGED <<live, created, rows, catalog, begun, lock, local>>

FillSecret(w) ==
    /\ at[w] = "writing"
    /\ secrets' = [secrets EXCEPT ![on[w]] = given[w]]
    /\ Continue(w, Then("secret"))
    /\ UNCHANGED <<live, created, rows, catalog, begun, lock>>

InsertRow(w) ==
    /\ at[w] = "row"
    /\ lock = None
    /\ rows' = rows \cup {on[w]}
    /\ Continue(w, Then("row"))
    /\ UNCHANGED <<live, created, secrets, catalog, begun, lock>>

-------------------------------------------------------------------------------
(* refresh_catalog.                                                        *)

\* _get_record finds the row; without it the call ends with NOT_FOUND.
Refresh(w, d) ==
    /\ at[w] = "idle"
    /\ d \in rows
    /\ on' = [on EXCEPT ![w] = d]
    /\ since' = [since EXCEPT ![w] = live]
    /\ Goto(w, "introspect")
    /\ UNCHANGED <<store, given, held>>

\* Mutant: the connection is left open.
KeptOpen(w) == lock

\* The write lock when the `with` statement around a transaction is left.
Released(w) == IF lock = w THEN None ELSE lock

\* Mutant: a catalog that is there already is taken for the schema.
Cached(d) == IF catalog[d] = 0 THEN live ELSE catalog[d]

\* What introspect reads: information_schema.columns, in one query.
Introspected(d) == live

Introspect(w) ==
    /\ at[w] = "introspect"
    /\ secrets[on[w]] = "right"
    /\ held' = [held EXCEPT ![w] = Introspected(on[w])]
    /\ Goto(w, "introspected")
    /\ UNCHANGED <<store, on, given, since>>

\* Mutant: DELETE is committed on its own.
Emptied(d) == 0

\* What others see of the catalog after DELETE: its transaction is open.
AfterDelete(d) == catalog[d]

DeleteColumns(w) ==
    /\ at[w] = "introspected"
    /\ lock = None
    /\ lock' = w
    /\ catalog' = [catalog EXCEPT ![on[w]] = AfterDelete(on[w])]
    /\ Goto(w, "deleted")
    /\ UNCHANGED <<live, created, secrets, rows, begun, local>>

InsertColumns(w) ==
    /\ at[w] = "deleted"
    /\ catalog' = [catalog EXCEPT ![on[w]] = held[w]]
    /\ begun' = [begun EXCEPT ![on[w]] = since[w]]
    /\ lock' = Released(w)
    /\ Leave(w)
    /\ UNCHANGED <<live, created, secrets, rows>>

\* An exception, or the death of the process: an open transaction is undone.
Stop(w) ==
    /\ at[w] \in RegistryStep \ {"idle"}
    /\ lock' = Released(w)
    /\ Leave(w)
    /\ UNCHANGED <<live, created, secrets, rows, catalog, begun>>

\* The steps of a worker inside a call, and the calls that it may begin.
InCreate(w)  == OpenSecret(w) \/ FillSecret(w)
InRefresh(w) == Introspect(w) \/ DeleteColumns(w)

DatasourcesNext(w) ==
    \/ \E d \in Ids : Refresh(w, d) \/ \E password \in Password : Create(w, d, password)
    \/ InCreate(w) \/ InsertRow(w)
    \/ InRefresh(w) \/ InsertColumns(w)
    \/ Stop(w)

-------------------------------------------------------------------------------
(* Properties.                                                             *)

\* A datasource that can be found can be used: create_datasource may be
\* killed anywhere, and its row never lacks the password; and the catalog is
\* never older than the schema was when the call began that stored it.
DatasourcesAreUsable ==
    /\ \A d \in rows : secrets[d] \in Password
    /\ \A d \in Ids : catalog[d] >= begun[d]

\* What holders of datasource ids see.  There are the file of the password and
\* the row; the DELETE and the INSERTs; a schema that is read in one call to the
\* database and stored in another to the store; and anything may stop in between.
Contract == INSTANCE DatasourceContract
                WITH password <- [d \in Ids |-> IF d \in rows THEN secrets[d] ELSE "none"]

\* Registering and refreshing are as if they were done at once, and only when
\* all of it was.
ContractSpec == Contract!Spec
===============================================================================
