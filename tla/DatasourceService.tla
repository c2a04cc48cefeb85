------------------------- MODULE DatasourceService -------------------------
(***************************************************************************)
(* DatasourceService: the datasources of the second backend, what its      *)
(* connectors read of a database, and the queries its SQLExecutor runs.    *)
(*                                                                         *)
(* The name, host, database and user of a datasource are one key: they are *)
(* what the unique index of the table compares.  A datasource id is the    *)
(* place of its row.  Datasources with one key are one database, whose     *)
(* tables others create and drop meanwhile.                                *)
(***************************************************************************)
EXTENDS PolicyEngine, Integers, Sequences

CONSTANTS
    Keys,          \* name, host, database and user of a datasource
    Types,         \* "sqlite", "mysql", "postgresql": the connectors in use
    Ports,         \* ports of the requests
    Tables,        \* the tables and views a database may have
    Views,         \* those of Tables that are views
    Limits,        \* row limits callers name
    DefaultLimit,  \* config.default_sql_row_limit
    MaxLimit,      \* config.max_sql_row_limit_without_approval
    MaxRows        \* bound: registered datasources

ASSUME RegistrationAssumption == Keys # {} /\ Types # {} /\ Ports # {}

ASSUME LimitAssumption ==
    Limits \subseteq Int /\ DefaultLimit \in Int /\ MaxLimit \in Int /\ MaxRows \in Nat

VARIABLES
    registered,  \* rows of the datasources table, in the order they came
    exists,      \* exists[k][t] : whether table t is in the database of k, for its user
    call         \* call[e] : the call that e is in

datasources == <<registered, exists, call>>

-----------------------------------------------------------------------------
(* State.                                                                  *)

Registration == [key : Keys, type : Types, port : Ports]

\* What two registrations of one datasource have in common.
SameDatabase(row, req) == row.key = req.key /\ row.type = req.type

Ids == 1 .. MaxRows

Rows == DOMAIN registered

NoLimit == -1

TablesOf(id) == {t \in Tables : exists[registered[id].key][t]}

\* What the fields hold:
\* req     : the registration asked for, or that of the datasource in use
\* row     : the id the call works on, and in the end answers; 0 is none
\* known   : the rows that stood when the call began (history)
\* left    : the tables that are still to be read
\* schema  : the tables described so far;  bare : those without a column
\* was     : was[t] says which of being there and not being there table t
\*           has been since the call began (history)
\* limit   : the row limit;  files : the artifacts registered by the call
NoReq == CHOOSE r \in Registration : TRUE

Unseen == [t \in Tables |-> {}]

NoCall ==
    [op |-> "none", at |-> "idle", req |-> NoReq, row |-> 0, known |-> {}, left |-> {},
     schema |-> {}, bare |-> {}, was |-> Unseen, limit |-> NoLimit, files |-> {},
     answer |-> "none"]

Schemas == {"schema", "describe", "sample"}

Op2 == {"none", "register", "query"} \cup Schemas

Steps == {"idle", "find", "insert", "list", "check", "read", "policy", "text", "credential",
          "execute", "result", "answered"}

Replies == {"none", "id", "failed", "not found", "invalid", "credential required", "refused",
            "tables", "rows", "result"}

DatasourceTypeOK ==
    /\ registered \in Seq(Registration) /\ Len(registered) <= MaxRows
    /\ exists \in [Keys -> [Tables -> BOOLEAN]]
    /\ call \in [Evaluators ->
           [op : Op2, at : Steps, req : Registration, row : Ids \cup {0}, known : SUBSET Ids,
            left : SUBSET Tables, schema : SUBSET Tables, bare : SUBSET Tables,
            was : [Tables -> SUBSET BOOLEAN], limit : Limits \cup {NoLimit, DefaultLimit},
            files : SUBSET {"query", "result"}, answer : Replies]]

DatasourcesInit ==
    /\ registered = <<>>
    /\ exists = [k \in Keys |-> [t \in Tables |-> TRUE]]
    /\ call = [e \in Evaluators |-> NoCall]

On(e, at) == call[e].at = at

Becomes(e, c) == call' = [call EXCEPT ![e] = c]

\* The call ends; what it read of the tables stays for the properties.
Reply(c, answer) == [c EXCEPT !.at = "answered", !.answer = answer]

-----------------------------------------------------------------------------
(* register: look for the row, then insert one, in two transactions.       *)

\* Mutant: a row is found by its port as well.
WithPort(row, req) == row = req

\* _find_matching compares the type, and not the port.
Matches(row, req) == SameDatabase(row, req)

\* Mutant: rows of different types do not conflict.
ByType(row, req) == row.key = req.key /\ row.type = req.type

\* The unique index on name, host, database and user.
Conflicts(row, req) == row.key = req.key

Register(e, req) ==
    /\ On(e, "idle")
    /\ Becomes(e, [NoCall EXCEPT !.op = "register", !.at = "find", !.req = req,
                                 !.known = {id \in Rows : SameDatabase(registered[id], req)}])
    /\ UNCHANGED <<registered, exists, policy>>

Find(e) ==
    LET found == {id \in Rows : Matches(registered[id], call[e].req)} IN
    /\ On(e, "find")
    /\ IF found # {}
       THEN \E id \in found : Becomes(e, Reply([call[e] EXCEPT !.row = id], "id"))
       ELSE Becomes(e, [call[e] EXCEPT !.at = "insert"])
    /\ UNCHANGED <<registered, exists, policy>>

\* An IntegrityError is a server error to the caller.
Insert(e) ==
    /\ On(e, "insert")
    /\ IF \E id \in Rows : Conflicts(registered[id], call[e].req)
       THEN Becomes(e, Reply(call[e], "failed")) /\ UNCHANGED registered
       ELSE /\ Len(registered) < MaxRows
            /\ registered' = Append(registered, call[e].req)
            /\ Becomes(e, Reply([call[e] EXCEPT !.row = Len(registered) + 1], "id"))
    /\ UNCHANGED <<exists, policy>>

-----------------------------------------------------------------------------
(* get_schema, describe_table and sample_rows: reads of the database.      *)

\* test_connection has these steps up to the credential.
Answered(e, op, answer) ==
    /\ On(e, "idle")
    /\ Becomes(e, Reply([NoCall EXCEPT !.op = op], answer))
    /\ UNCHANGED <<registered, exists, policy>>

\* resolve_datasource_id and get find no row, sample_rows is given a limit
\* that is not positive, or the caller has no credential.
Declined(e, op) ==
    \/ Answered(e, op, "not found")
    \/ op = "sample" /\ Rows # {} /\ Answered(e, op, "invalid")
    \/ op \in Schemas /\ Rows # {} /\ Answered(e, op, "credential required")

Seen(id) == [t \in Tables |-> {exists[registered[id].key][t]}]

\* Whether a connector looks for the table in a read of its own before it
\* reads it.
ChecksFirst(op, type) ==
    IF op = "schema" THEN type = "sqlite" ELSE type \in {"sqlite", "mysql"}

NextRead(op, type) == IF ChecksFirst(op, type) THEN "check" ELSE "read"

ReadSchema(e, id) ==
    /\ On(e, "idle")
    /\ Becomes(e, [NoCall EXCEPT !.op = "schema", !.at = "list", !.row = id, !.was = Seen(id),
                                 !.req = registered[id]])
    /\ UNCHANGED <<registered, exists, policy>>

ReadTable(e, op, id, t) ==
    /\ On(e, "idle")
    /\ Becomes(e, [NoCall EXCEPT !.op = op, !.at = NextRead(op, registered[id].type), !.row = id,
                                 !.left = {t}, !.was = Seen(id), !.req = registered[id]])
    /\ UNCHANGED <<registered, exists, policy>>

\* Mutant: only the tables are listed.
WithoutViews(id) == TablesOf(id) \ Views

\* What fetch_catalog lists.
Listed(id) == TablesOf(id)

\* The tables are read in the order of their names.
First(left) == CHOOSE t \in left : TRUE

\* The answer once nothing is left to be read.
Continue(c) ==
    IF c.left = {} THEN Reply(c, IF c.op = "sample" THEN "rows" ELSE "tables")
    ELSE [c EXCEPT !.at = NextRead(c.op, c.req.type)]

ListTables(e) ==
    /\ On(e, "list")
    /\ Becomes(e, Continue([call[e] EXCEPT !.left = Listed(call[e].row)]))
    /\ UNCHANGED <<registered, exists, policy>>

\* The call ends with the first table that is not there.
Check(e) ==
    /\ On(e, "check")
    /\ Becomes(e, IF First(call[e].left) \in TablesOf(call[e].row)
                  THEN [call[e] EXCEPT !.at = "read"] ELSE Reply(call[e], "not found"))
    /\ UNCHANGED <<registered, exists, policy>>

\* A table that SQLite has dropped since the check is described without a
\* column.  PostgreSQL's describe_table takes a table for missing when it is
\* shown no column of it.
Read(e) ==
    LET c == call[e]
        t == First(c.left)
        done == [c EXCEPT !.left = @ \ {t}, !.schema = @ \cup {t}]
        there == t \in TablesOf(c.row)
        describes(type) == c.op # "sample" /\ c.req.type = type
    IN  /\ On(e, "read")
        /\ \/ there /\ Becomes(e, Continue(done))
           \/ ~there /\ describes("sqlite") /\ Becomes(e, Continue([done EXCEPT !.bare = @ \cup {t}]))
           \/ describes("postgresql") /\ Becomes(e, Reply(c, "not found"))
        /\ UNCHANGED <<registered, exists, policy>>

\* The connection is not made or is lost, quote_identifier does not take the
\* name of the table, or a read of it finds that it is gone.
ConnectorFails(e) ==
    /\ call[e].at \in {"list", "check", "read"}
    /\ Becomes(e, Reply(call[e], "failed"))
    /\ UNCHANGED <<registered, exists, policy>>

\* Somebody creates or drops a table.
Alter(k, t) ==
    LET now == [exists EXCEPT ![k][t] = ~@]
        reads(e) == call[e].op \in Schemas /\ call[e].row # 0 /\ call[e].req.key = k
                    /\ ~On(e, "answered")
    IN  /\ exists' = now
        /\ call' = [e \in Evaluators |->
                       IF reads(e) THEN [call[e] EXCEPT !.was[t] = @ \cup {now[k][t]}] ELSE call[e]]
        /\ UNCHANGED <<registered, policy>>

-----------------------------------------------------------------------------
(* run_sql_query and run_analysis_query.                                   *)

\* valid is what validate_sql says of the text.
QueryRequest(valid, limit, approval) ==
    [action  |-> "sql.run", mount |-> "elsewhere", invalid |-> ~valid \/ limit <= 0,
     over    |-> limit > MaxLimit, local |-> FALSE, approval |-> approval]

\* Mutant: 0 is taken for no limit.
OrDefault(limit) == IF limit \in {NoLimit, 0} THEN DefaultLimit ELSE limit

RowLimit(limit) == IF limit = NoLimit THEN DefaultLimit ELSE limit

Query(e, id, valid, limit, approval) ==
    /\ On(e, "idle")
    /\ Ask(e, QueryRequest(valid, RowLimit(limit), approval))
    /\ Becomes(e, [NoCall EXCEPT !.op = "query", !.at = "policy", !.row = id,
                                 !.limit = RowLimit(limit)])
    /\ UNCHANGED <<registered, exists>>

Decided(e) ==
    /\ On(e, "policy") /\ step[e] = "returned"
    /\ Becomes(e, IF Refused(asked[e]) THEN Reply(call[e], "refused")
                  ELSE [call[e] EXCEPT !.at = "text"])
    /\ UNCHANGED <<registered, exists, policy>>

\* The text is an artifact before anybody asks for the credential.
StoreText(e) ==
    /\ On(e, "text")
    /\ Becomes(e, [call[e] EXCEPT !.files = @ \cup {"query"}, !.at = "credential"])
    /\ UNCHANGED <<registered, exists, policy>>

Credential(e) ==
    /\ On(e, "credential")
    /\ \/ Becomes(e, [call[e] EXCEPT !.at = "execute"])
       \/ Becomes(e, Reply(call[e], "credential required"))
    /\ UNCHANGED <<registered, exists, policy>>

Execute(e) ==
    /\ On(e, "execute")
    /\ \/ Becomes(e, [call[e] EXCEPT !.at = "result"])
       \/ Becomes(e, Reply(call[e], "failed"))
    /\ UNCHANGED <<registered, exists, policy>>

StoreResult(e) ==
    /\ On(e, "result")
    /\ Becomes(e, Reply([call[e] EXCEPT !.files = @ \cup {"result"}], "result"))
    /\ UNCHANGED <<registered, exists, policy>>

\* register_artifact raises, before the row is there or when it reads it back.
StoreFails(e) ==
    /\ On(e, "text") \/ On(e, "result")
    /\ \E new \in {{}, {IF On(e, "text") THEN "query" ELSE "result"}} :
           Becomes(e, Reply([call[e] EXCEPT !.files = @ \cup new], "failed"))
    /\ UNCHANGED <<registered, exists, policy>>

\* The answer is delivered, or the process of e dies.
Leave(e) ==
    /\ ~On(e, "idle")
    /\ Becomes(e, NoCall)
    /\ Forget(e)
    /\ UNCHANGED <<registered, exists>>

DatasourceStep(e) ==
    \/ \E req \in Registration : Register(e, req)
    \/ \E op \in Schemas \cup {"query"} : Declined(e, op)
    \/ \E id \in Rows :
           \/ ReadSchema(e, id)
           \/ \E t \in Tables, op \in {"describe", "sample"} : ReadTable(e, op, id, t)
           \/ \E valid, approval \in BOOLEAN, limit \in Limits \cup {NoLimit} :
                  Query(e, id, valid, limit, approval)
    \/ Find(e) \/ Insert(e) \/ ListTables(e) \/ Check(e) \/ Read(e) \/ ConnectorFails(e)
    \/ Decided(e) \/ StoreText(e) \/ Credential(e) \/ Execute(e) \/ StoreResult(e)
    \/ StoreFails(e) \/ Leave(e)

Others == \E k \in Keys, t \in Tables : Alter(k, t)

-----------------------------------------------------------------------------
(* Properties.                                                             *)

\* The table's index leaves one datasource for each name, host, database
\* and user; register answers with a row of the database and the type that
\* were asked for; and when such a row stood before the call, it is the
\* answer, on whatever port, however many others register meanwhile.
KnownIsTaken ==
    /\ \A i, j \in Rows : registered[i].key = registered[j].key => i = j
    /\ \A e \in Evaluators :
           call[e].op = "register" /\ On(e, "answered") =>
               /\ call[e].answer = "id" => SameDatabase(registered[call[e].row], call[e].req)
               /\ call[e].known # {} => call[e].answer = "id" /\ call[e].row \in call[e].known

\* get_schema and describe_table read a database table by table and under
\* no snapshot.  What they answer was true of each table at some moment of
\* the call: a table they show was there, one they leave out, or show
\* without columns, was not.  With SQLite and MySQL so is a NOT_FOUND true,
\* though the tables are looked for one by one; other errors (a lost
\* connection, a name that is not quoted) say nothing of the tables.
SchemaIsOfItsTime ==
    \A e \in Evaluators :
        LET c == call[e] IN
        c.op \in Schemas /\ c.row # 0 /\ On(e, "answered") =>
            /\ \A t \in c.schema \ c.bare : TRUE \in c.was[t]
            /\ \A t \in c.bare : FALSE \in c.was[t]
            /\ c.op = "schema" /\ c.answer = "tables" =>
                   \A t \in Tables \ c.schema : FALSE \in c.was[t]
            /\ c.answer = "not found" /\ c.req.type # "postgresql" =>
                   \E t \in c.left : FALSE \in c.was[t]
=============================================================================
