------------------------------- MODULE Queries --------------------------------
(***************************************************************************)
(* Queries: DatasourceService.query_datasource, against a datasource, and  *)
(* SQLExecutor.run_sql_query, against DuckDB, beside the other calls of    *)
(* Datasources.                                                            *)
(*                                                                         *)
(* query_datasource asks the policy twice: before the statement is         *)
(* validated, where the limit on rows is the engine's own default, and     *)
(* after, where it is the configured one.  run_sql_query asks once.  Then  *)
(* the text becomes an artifact, the statement runs, and its rows become   *)
(* an artifact with the first for parent.  ArtifactRegistry has the        *)
(* details of a registration.                                              *)
(***************************************************************************)
EXTENDS Datasources, Integers

CONSTANTS
    Limits,        \* values of row_limit; 0 is no limit given
    DefaultLimit,  \* default_sql_row_limit
    EngineMax,     \* the maximum that the engine takes when it is given none
    Maxima         \* values of max_sql_row_limit_without_approval

ASSUME LimitAssumption ==
    /\ 0 \in Limits /\ Limits \cup {DefaultLimit, EngineMax} \cup Maxima \subseteq Int
    /\ Maxima # {}

VARIABLES
    maximum,  \* maximum[w] : max_sql_row_limit_without_approval where w's query is served
    tool,     \* tool[w]    : the action of w's query
    asked,    \* asked[w]   : its row_limit
    valid,    \* valid[w]   : whether the text is a single SELECT
    text,     \* text[w]    : whether its text is an artifact
    ran,      \* ran[w]     : whether it has reached the database
    result,   \* result[w]  : whether its rows are an artifact
    answer    \* answer[w]  : what the caller has got

query == <<maximum, tool, asked, valid, text, ran, result, answer>>
qvars == <<dvars, query>>

Policy == INSTANCE PolicyEngine
    WITH Evaluators <- {}, asked <- <<>>, step <- <<>>, logged <- <<>>

Tool == {"datasource.query", "sql.run"}

\* named: an error whose details hold query_artifact_id.
Answer == {"none", "refused", "named error", "error", "result"}

QueryStep == {"policy", "validated", "checked", "recorded", "ran", "fetched", "registered",
              "answered"}

QueriesTypeOK ==
    /\ DatasourcesTypeOK
    /\ maximum \in [Workers -> Maxima]
    /\ tool \in [Workers -> Tool]
    /\ asked \in [Workers -> Limits]
    /\ valid \in [Workers -> BOOLEAN]
    /\ text \in [Workers -> BOOLEAN]
    /\ ran \in [Workers -> BOOLEAN]
    /\ result \in [Workers -> BOOLEAN]
    /\ answer \in [Workers -> Answer]

\* A process has one setting; the next may have another.
AnyMaximum == CHOOSE m \in Maxima : TRUE

QueriesInit ==
    /\ DatasourcesInit
    /\ maximum = [w \in Workers |-> AnyMaximum]
    /\ tool = [w \in Workers |-> "sql.run"]
    /\ asked = [w \in Workers |-> 0]
    /\ valid = [w \in Workers |-> FALSE]
    /\ text = [w \in Workers |-> FALSE]
    /\ ran = [w \in Workers |-> FALSE]
    /\ result = [w \in Workers |-> FALSE]
    /\ answer = [w \in Workers |-> "none"]

\* row_limit or default_sql_row_limit
Limit(w) == IF asked[w] = 0 THEN DefaultLimit ELSE asked[w]

\* The decision on w's query.  A query's approval id is not looked at.
Decision(w, invalid, over) ==
    Policy!Decide([action |-> tool[w], mount |-> "elsewhere", invalid |-> invalid,
                   over |-> over, local |-> FALSE, approval |-> FALSE])

\* The caller is answered.
End(w, a) ==
    /\ answer' = [answer EXCEPT ![w] = a]
    /\ Goto(w, "answered")

\* What there is to say of a query, before it and after it.
NoQuery(w) ==
    /\ tool' = [tool EXCEPT ![w] = "sql.run"]
    /\ asked' = [asked EXCEPT ![w] = 0]
    /\ valid' = [valid EXCEPT ![w] = FALSE]
    /\ text' = [text EXCEPT ![w] = FALSE]
    /\ ran' = [ran EXCEPT ![w] = FALSE]
    /\ result' = [result EXCEPT ![w] = FALSE]
    /\ answer' = [answer EXCEPT ![w] = "none"]
    /\ maximum' = [maximum EXCEPT ![w] = AnyMaximum]

-------------------------------------------------------------------------------
(* The checks.                                                             *)

Query(w, d, k, l, v, m) ==
    /\ at[w] = "idle"
    /\ Goto(w, IF k = "sql.run" THEN "validated" ELSE "policy")
    /\ on' = [on EXCEPT ![w] = d]
    /\ tool' = [tool EXCEPT ![w] = k]
    /\ asked' = [asked EXCEPT ![w] = l]
    /\ valid' = [valid EXCEPT ![w] = v]
    /\ maximum' = [maximum EXCEPT ![w] = m]
    /\ UNCHANGED <<store, given, since, held, text, ran, result, answer>>

\* _get_record: the policy knows the limit only; then the row is looked up.
FindRecord(w) ==
    /\ at[w] = "policy"
    /\ CASE Decision(w, FALSE, Limit(w) > EngineMax) # "allowed" -> End(w, "refused")
         [] OTHER -> IF on[w] \in rows
                     THEN Goto(w, "validated") /\ UNCHANGED answer
                     ELSE End(w, "error")
    /\ UNCHANGED <<store, local, maximum, tool, asked, valid, text, ran, result>>

\* Mutant: the maximum is not passed to the policy.
NoMaximum(w) == Limit(w) > EngineMax

\* The limit is over the maximum in the payload.
Over(w) == Limit(w) > maximum[w]

\* validate_query and evaluate.  A limit that is not positive is invalid.
Validate(w) ==
    /\ at[w] = "validated"
    /\ IF Decision(w, ~valid[w] \/ Limit(w) <= 0, Over(w)) = "allowed"
       THEN Goto(w, "checked") /\ UNCHANGED answer
       ELSE End(w, "refused")
    /\ UNCHANGED <<store, local, maximum, tool, asked, valid, text, ran, result>>

-------------------------------------------------------------------------------
(* The statement.                                                          *)

RecordText(w) ==
    /\ at[w] = "checked"
    /\ lock = None
    /\ text' = [text EXCEPT ![w] = TRUE]
    /\ Goto(w, "recorded")
    /\ UNCHANGED <<store, local, maximum, tool, asked, valid, ran, result, answer>>

\* Where the statement runs.
RunAt == "recorded"

\* execute_query connects and sends the statement; a datasource needs its
\* password, or Fail is all that is left.
Execute(w) ==
    /\ at[w] = RunAt
    /\ tool[w] = "datasource.query" => secrets[on[w]] = "right"
    /\ ran' = [ran EXCEPT ![w] = TRUE]
    /\ Goto(w, "ran")
    /\ UNCHANGED <<store, local, maximum, tool, asked, valid, text, result, answer>>

\* The rows arrive, and are not too many bytes.
Fetch(w) ==
    /\ at[w] = "ran"
    /\ Goto(w, "fetched")
    /\ UNCHANGED <<store, local, query>>

RecordResult(w) ==
    /\ at[w] = "fetched"
    /\ lock = None
    /\ result' = [result EXCEPT ![w] = TRUE]
    /\ Goto(w, "registered")
    /\ UNCHANGED <<store, local, maximum, tool, asked, valid, text, ran, answer>>

\* register_artifact reads the artifact back, and the call returns it.
Return(w) ==
    /\ at[w] = "registered"
    /\ End(w, "result")
    /\ UNCHANGED <<store, local, maximum, tool, asked, valid, text, ran, result>>

\* Mutant: the registration of the rows is inside the try statement as well.
WideTry(w) ==
    tool[w] = "datasource.query" /\ at[w] \in {"recorded", "ran", "fetched", "registered"}

\* Where an error may be given the id of the query artifact: execute_query
\* makes its connection itself, before it sends the statement.
Names(w) == tool[w] = "datasource.query" /\ at[w] \in {"recorded", "ran"}

\* The connector's errors, of the connection or the statement, and a result
\* that is too large name the query artifact; other exceptions do not (a
\* password file that cannot be read), and those of run_sql_query never do.
Fail(w) ==
    /\ at[w] \in QueryStep \ {"answered"}
    /\ \E a \in {"error"} \cup (IF Names(w) THEN {"named error"} ELSE {}) : End(w, a)
    /\ UNCHANGED <<store, local, maximum, tool, asked, valid, text, ran, result>>

\* The call is over, or the process dies in it.
Finish(w) ==
    /\ at[w] \in QueryStep
    /\ Leave(w)
    /\ NoQuery(w)
    /\ UNCHANGED store

QueryNext(w) ==
    \/ \E d \in Ids, k \in Tool, l \in Limits, v \in BOOLEAN, m \in Maxima : Query(w, d, k, l, v, m)
    \/ FindRecord(w) \/ Validate(w)
    \/ RecordText(w) \/ Execute(w) \/ Fetch(w) \/ RecordResult(w) \/ Return(w)
    \/ Fail(w) \/ Finish(w)

-------------------------------------------------------------------------------
(* Properties.                                                             *)

\* No statement reaches a database before it has been found to be a SELECT
\* within every maximum that applies, and before its text is an artifact: a
\* process that dies while it runs has left word of it.
ExecutedWasChecked ==
    \A w \in Workers :
        ran[w] =>
            /\ text[w] /\ valid[w]
            /\ Limit(w) \in 1 .. maximum[w]
            /\ tool[w] = "datasource.query" => Limit(w) <= EngineMax

\* What the caller is told is what was left: with a result both artifacts,
\* with an error that names the query artifact that one and no result ("keeps
\* only query artifact", test_datasources.py:252), with a refusal nothing.
\* Whether the statement ran is not known from such an error: the connection
\* may have failed.
AnswersMatchArtifacts ==
    \A w \in Workers :
        /\ answer[w] = "result" => ran[w] /\ text[w] /\ result[w]
        /\ answer[w] = "named error" => text[w] /\ ~result[w]
        /\ answer[w] = "refused" => ~ran[w] /\ ~text[w] /\ ~result[w]
===============================================================================
