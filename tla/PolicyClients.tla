--------------------------- MODULE PolicyClients ---------------------------
(***************************************************************************)
(* PolicyClients: callers of a backend at the same time, in threads and    *)
(* processes of its API and MCP servers, and how its policy answers them.  *)
(*                                                                         *)
(* There are two backends in this repository.  The first one's factory     *)
(* builds the workspace, the second one's only the datasource service; in  *)
(* both the services put their requests to one policy, PolicyEngine, and a *)
(* caller makes one call at a time.                                        *)
(***************************************************************************)
EXTENDS Workspace, DatasourceService

VARIABLE backend  \* which of the two runs

vars == <<backend, workspace, datasources, policy>>

Init ==
    /\ backend \in {"first", "second"}
    /\ PolicyInit /\ WorkspaceInit /\ DatasourcesInit

\* evaluate, inside a call of either service.
Evaluate(e) == Compute(e) \/ Audit(e) \/ Return(e)

EvaluateNext ==
    \E e \in Evaluators : Evaluate(e) /\ UNCHANGED <<backend, workspace, datasources>>

WorkspaceNext ==
    /\ backend = "first"
    /\ \E e \in Evaluators : WorkspaceStep(e)
    /\ UNCHANGED <<backend, datasources>>

DatasourcesNext ==
    /\ backend = "second"
    /\ Others \/ \E e \in Evaluators : DatasourceStep(e)
    /\ UNCHANGED <<backend, workspace>>

Next == EvaluateNext \/ WorkspaceNext \/ DatasourcesNext

Spec == Init /\ [][Next]_vars

-----------------------------------------------------------------------------
(* Properties.                                                             *)

\* Nobody waits for a decision that nobody asked for.
TypeOK ==
    /\ backend \in {"first", "second"}
    /\ PolicyTypeOK /\ WorkspaceTypeOK /\ DatasourceTypeOK
    /\ \A e \in Evaluators : At(e, "policy") \/ On(e, "policy") => step[e] # "start"

\* A caller that the policy refuses finds the refusal in policy_audit_logs.
\* A file is opened for writing, and a statement is executed, only with the
\* policy's word for it; the statement is then valid, its limit is within
\* the bounds, approved or not, and its text is an artifact already.  A
\* result is answered with both artifacts.
AnswersAreOnRecord ==
    \A e \in Evaluators :
        /\ task[e].answer = "refused" \/ call[e].answer = "refused" => logged[e]
        /\ At(e, "open") \/ At(e, "fill") =>
               Head(task[e].path) = "workspace" /\ asked[e].mount = "elsewhere"
               /\ Decide(asked[e]) = "allowed"
        /\ On(e, "execute") \/ On(e, "result") =>
               /\ Decide(asked[e]) = "allowed" /\ ~asked[e].invalid
               /\ call[e].limit \in 1 .. MaxLimit
               /\ "query" \in call[e].files
        /\ call[e].answer = "result" => call[e].files = {"query", "result"}
=============================================================================
