---------------------------- MODULE PolicyEngine ----------------------------
(***************************************************************************)
(* PolicyEngine: the decision on one request, and the audit of refusals.   *)
(*                                                                         *)
(* A request names an action, a resource, facts about its payload and      *)
(* perhaps an approval id.  Actions that the code treats alike are one     *)
(* member of Action.  A resource is the mount it lies in; a name that      *)
(* contains "/secrets" lies in the secrets mount whatever else it says.    *)
(* Risk levels, reasons and editable fields are left out.                  *)
(***************************************************************************)

CONSTANT Evaluators  \* threads and processes that evaluate requests

\* plain: the actions allowed by default, and run.*.  banned: shell.run,
\* network.call and package.install.  other: any name the code does not know.
Action == {"plain", "workspace.write", "sql.run", "datasource.query",
           "sandbox.python.run", "export.create", "banned", "other"}

Mount == {"secrets", "artifacts", "catalog", "skills", "memory", "exports", "elsewhere"}

\* invalid: payload["blocked"]; over: the row limit exceeds the maximum;
\* local: payload["sandbox_backend"] = "local"; approval: context.approval_id
\* is not empty.
Request == [action : Action, mount : Mount, invalid : BOOLEAN, over : BOOLEAN,
            local : BOOLEAN, approval : BOOLEAN]

Verdict == {"allowed", "approval required", "blocked"}

-----------------------------------------------------------------------------
(* The decision.                                                           *)

\* workspace.write depends on the mount alone.
WriteVerdict(mount) ==
    CASE mount \in {"artifacts", "catalog", "skills"} -> "blocked"
      [] mount \in {"memory", "exports"}              -> "approval required"
      [] OTHER                                        -> "allowed"

\* sql.run and datasource.query: the row limit is compared whether or not
\* the caller brings an approval.
QueryVerdict(r) ==
    IF r.invalid THEN "blocked" ELSE IF r.over THEN "approval required" ELSE "allowed"

\* sandbox.python.run and export.create.  An approval id only has to be
\* there.
GuardedVerdict(r) ==
    IF r.approval \/ (r.action = "sandbox.python.run" /\ r.local)
    THEN "allowed" ELSE "approval required"

\* Mutant: the approval is looked at before the rules that block.
ApprovalFirst(r) ==
    IF r.approval THEN "allowed"
    ELSE CASE r.mount = "secrets"            -> "blocked"
           [] r.action = "plain"             -> "allowed"
           [] r.action = "workspace.write"   -> WriteVerdict(r.mount)
           [] r.action \in {"sql.run", "datasource.query"} -> QueryVerdict(r)
           [] r.action \in {"sandbox.python.run", "export.create"} -> GuardedVerdict(r)
           [] OTHER                          -> "blocked"

\* _decide.
Decide(r) ==
    IF r.mount = "secrets" THEN "blocked"
    ELSE CASE r.action = "plain"             -> "allowed"
           [] r.action = "workspace.write"   -> WriteVerdict(r.mount)
           [] r.action \in {"sql.run", "datasource.query"} -> QueryVerdict(r)
           [] r.action \in {"sandbox.python.run", "export.create"} -> GuardedVerdict(r)
           [] OTHER                          -> "blocked"

-----------------------------------------------------------------------------
(* evaluate and enforce.                                                   *)

VARIABLES
    asked,   \* asked[e]  : the request that e evaluates or has evaluated
    step,    \* step[e]   : how far evaluate has come
    logged   \* logged[e] : whether that decision is in policy_audit_logs

policy == <<asked, step, logged>>

NoRequest == [action |-> "other", mount |-> "elsewhere", invalid |-> FALSE, over |-> FALSE,
              local |-> FALSE, approval |-> FALSE]

Refused(r) == Decide(r) # "allowed"

PolicyTypeOK ==
    /\ asked \in [Evaluators -> Request]
    /\ step \in [Evaluators -> {"start", "asked", "decided", "returned"}]
    /\ logged \in [Evaluators -> BOOLEAN]

PolicyInit ==
    /\ asked = [e \in Evaluators |-> NoRequest]
    /\ step = [e \in Evaluators |-> "start"]
    /\ logged = [e \in Evaluators |-> FALSE]

Ask(e, r) ==
    /\ step[e] = "start"
    /\ asked' = [asked EXCEPT ![e] = r]
    /\ step' = [step EXCEPT ![e] = "asked"]
    /\ UNCHANGED logged

\* _decide computes the decision and gives it an id of its own.
Compute(e) ==
    /\ step[e] = "asked"
    /\ step' = [step EXCEPT ![e] = "decided"]
    /\ UNCHANGED <<asked, logged>>

\* Mutant: only what is blocked is audited.
BlockedOnly(r) == Decide(r) = "blocked"

\* The decisions that evaluate audits.
Audited(r) == Refused(r)

Audit(e) ==
    /\ step[e] = "decided"
    /\ Audited(asked[e])
    /\ ~logged[e]
    /\ logged' = [logged EXCEPT ![e] = TRUE]
    /\ UNCHANGED <<asked, step>>

\* The caller gets the decision, or the exception that enforce makes of it.
Return(e) ==
    /\ step[e] = "decided"
    /\ Audited(asked[e]) => logged[e]
    /\ step' = [step EXCEPT ![e] = "returned"]
    /\ UNCHANGED <<asked, logged>>

\* The caller is done with the decision, or the process has died.
Forget(e) ==
    /\ asked' = [asked EXCEPT ![e] = NoRequest]
    /\ step' = [step EXCEPT ![e] = "start"]
    /\ logged' = [logged EXCEPT ![e] = FALSE]

PolicyNext ==
    \E e \in Evaluators :
        (\E r \in Request : Ask(e, r)) \/ Compute(e) \/ Audit(e) \/ Return(e) \/ Forget(e)

PolicySpec == PolicyInit /\ [][PolicyNext]_policy

-----------------------------------------------------------------------------
(* Properties.                                                             *)

\* The same request, made again with an approval id.
Approved(r) == [r EXCEPT !.approval = TRUE]

StaysBlocked(r) == Decide(r) = "blocked" => Decide(Approved(r)) = "blocked"

\* "policy_blocked: must never run, approved or not" (README.md:49): no
\* approval id turns a request that is blocked into anything else.
BlockedStaysBlocked == \A e \in Evaluators : StaysBlocked(asked[e])

\* The caller of evaluate has a refusal in its hands only once it is in
\* policy_audit_logs.
RefusalsAreLogged ==
    \A e \in Evaluators : step[e] = "returned" /\ Refused(asked[e]) => logged[e]

\* "approval_required: the caller calls the original tool again with a
\* context that contains the approval_id" (README.md:50), and then it runs.
\* Writes below /memory and /exports are left out: memory_propose and
\* export_create are the tools for those.
ApprovalUnlocks ==
    \A e \in Evaluators :
        asked[e].action # "workspace.write" /\ Decide(asked[e]) = "approval required"
            => Decide(Approved(asked[e])) = "allowed"
=============================================================================
