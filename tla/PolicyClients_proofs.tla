------------------------ MODULE PolicyClients_proofs ------------------------
(***************************************************************************)
(* What holds of the policy for any set of evaluators, and of its clients, *)
(* the workspace and the datasource service, for any paths, databases,     *)
(* tables and row limits.                                                  *)
(***************************************************************************)
EXTENDS PolicyClients, SequenceTheorems, TLAPS

\* An approval id changes one field of a request.
LEMMA ApprovedIsRequest ==
  ASSUME NEW r \in Request
  PROVE  /\ Approved(r) \in Request
         /\ Approved(r).action = r.action /\ Approved(r).mount = r.mount
         /\ Approved(r).invalid = r.invalid /\ Approved(r).over = r.over
         /\ Approved(r).local = r.local
  BY DEF Request, Approved

\* No request that is blocked gets through with an approval id.
LEMMA BlockedForGood ==
  ASSUME NEW r \in Request
  PROVE  StaysBlocked(r)
<1>1. r.mount = "secrets" => StaysBlocked(r)
  BY ApprovedIsRequest DEF StaysBlocked, Decide
<1>2. r.mount # "secrets" /\ r.action \in {"plain", "workspace.write", "banned", "other"}
        => StaysBlocked(r)
  BY ApprovedIsRequest DEF StaysBlocked, Decide, WriteVerdict
<1>3. r.action \in {"sql.run", "datasource.query"} => StaysBlocked(r)
  BY ApprovedIsRequest DEF StaysBlocked, Decide, QueryVerdict
<1>4. r.mount # "secrets" /\ r.action \in {"sandbox.python.run", "export.create"}
        => Decide(r) # "blocked"
  BY DEF Decide, GuardedVerdict
<1>5. r.action \in {"plain", "workspace.write", "sql.run", "datasource.query",
                    "sandbox.python.run", "export.create", "banned", "other"}
  BY DEF Request, Action
<1> QED
  BY <1>1, <1>2, <1>3, <1>4, <1>5 DEF StaysBlocked

-----------------------------------------------------------------------------
(* The policy by itself.                                                   *)

LEMMA PolicyTypeKept == ASSUME PolicyTypeOK, [PolicyNext]_policy PROVE PolicyTypeOK'
<1>1. CASE UNCHANGED policy
  BY <1>1 DEF policy, PolicyTypeOK
<1>2. ASSUME NEW e \in Evaluators,
             (\E r \in Request : Ask(e, r)) \/ Compute(e) \/ Audit(e) \/ Return(e)
      PROVE  PolicyTypeOK'
  BY <1>2 DEF PolicyTypeOK, Ask, Compute, Audit, Return
<1>3. ASSUME NEW e \in Evaluators, Forget(e) PROVE PolicyTypeOK'
  BY <1>3 DEF PolicyTypeOK, Forget, NoRequest, Request, Action, Mount
<1> QED
  BY <1>1, <1>2, <1>3 DEF PolicyNext

LEMMA AuditKept ==
    ASSUME PolicyTypeOK, RefusalsAreLogged, [PolicyNext]_policy
    PROVE  RefusalsAreLogged'
<1>1. CASE UNCHANGED policy
  BY <1>1 DEF policy, RefusalsAreLogged, Refused
<1>2. ASSUME NEW e \in Evaluators,
             (\E r \in Request : Ask(e, r)) \/ Compute(e) \/ Audit(e) \/ Return(e) \/ Forget(e)
      PROVE  RefusalsAreLogged'
  BY <1>2 DEF PolicyTypeOK, RefusalsAreLogged, Refused, Audited, Ask, Compute, Audit, Return, Forget
<1> QED
  BY <1>1, <1>2 DEF PolicyNext

\* The fields keep their types.
THEOREM PolicyTypeCorrect == PolicySpec => []PolicyTypeOK
<1>1. PolicyInit => PolicyTypeOK
  BY DEF PolicyInit, PolicyTypeOK, NoRequest, Request, Action, Mount
<1> QED
  BY <1>1, PolicyTypeKept, PTL DEF PolicySpec

\* No approval id opens what the policy blocks.
THEOREM Blocking == PolicySpec => []BlockedStaysBlocked
<1>1. PolicyTypeOK => BlockedStaysBlocked
  BY BlockedForGood DEF PolicyTypeOK, BlockedStaysBlocked
<1> QED
  BY <1>1, PolicyTypeCorrect, PTL

\* evaluate audits before it returns (policy_engine.py:26-42).
THEOREM Auditing == PolicySpec => []RefusalsAreLogged
<1>1. PolicyInit => RefusalsAreLogged
  BY DEF PolicyInit, RefusalsAreLogged
<1> QED
  BY <1>1, AuditKept, PolicyTypeCorrect, PTL DEF PolicySpec

-----------------------------------------------------------------------------
(* The inductive invariant.                                                *)

\* A backend has the one service or the other.
OneService ==
    /\ backend = "first" => \A e \in Evaluators : call[e] = NoCall
    /\ backend = "second" => \A e \in Evaluators : task[e] = NoTask

\* A call of the workspace has asked the policy what it is about, and goes on
\* only when the answer was yes; only a file is read or filled.
TaskInv(e) ==
    /\ At(e, "policy") =>
           /\ step[e] # "start" /\ task[e].op \in Op
           /\ AsksPolicy(task[e].op, task[e].path)
           /\ asked[e] = FileRequest(task[e].op, task[e].path)
    /\ task[e].at \in {"look", "mkdir", "open", "fill", "text"} =>
           /\ step[e] = "returned" /\ task[e].op \in {"list", "read", "write"}
           /\ task[e].path \in Files
           /\ asked[e] = FileRequest(task[e].op, task[e].path) /\ ~Refused(asked[e])
    /\ task[e].at \in {"mkdir", "open", "fill"} => task[e].op = "write"
    /\ At(e, "text") => IsFile(task[e].path)
    /\ task[e].answer = "refused" => logged[e]

Fills(e, p) == At(e, "fill") /\ task[e].path = p

\* Who is about to fill a file found nobody else at it, and left it empty, or
\* else its writers have met.
Alone(e, p) ==
    \/ torn[p]
    \/ node[p] = "empty" /\ \A f \in Evaluators : Fills(f, p) => f = e

FileInv == \A p \in Files, e \in Evaluators : Fills(e, p) => Alone(e, p)

\* No two rows are of one database.
RowInv == \A i, j \in Rows : registered[i].key = registered[j].key => i = j

Known(e) == call[e].known \subseteq Rows
            /\ \A id \in call[e].known : SameDatabase(registered[id], call[e].req)

\* A registration knows the rows that stood when it began, and inserts one
\* only when there were none.
RegisterInv(e) ==
    /\ call[e].at \in {"find", "insert"} => call[e].op = "register"
    /\ call[e].op = "register" =>
           /\ call[e].at \in {"find", "insert", "answered"}
           /\ Known(e)
           /\ On(e, "insert") \/ call[e].answer = "failed" => call[e].known = {}
           /\ On(e, "answered") => call[e].answer \in {"id", "failed"}
           /\ call[e].answer = "id" =>
                  /\ call[e].row \in Rows
                  /\ SameDatabase(registered[call[e].row], call[e].req)
                  /\ call[e].known # {} => call[e].row \in call[e].known

Now(id, t) == exists[registered[id].key][t]

\* While a schema is read, what was seen of a table is among what it was, and
\* so is what it is now; a table that is not described is still to be read.
SchemaInv(e) ==
    /\ call[e].at \in {"list", "check", "read"} =>
           /\ call[e].op \in Schemas /\ call[e].row \in Rows
           /\ call[e].req = registered[call[e].row]
           /\ \A t \in Tables : Now(call[e].row, t) \in call[e].was[t]
    /\ On(e, "list") => call[e].op = "schema"
    /\ call[e].at \in {"check", "read"} =>
           /\ call[e].left # {}
           /\ call[e].op = "schema" =>
                  \A t \in Tables : t \in call[e].schema \cup call[e].left \/ FALSE \in call[e].was[t]
    /\ call[e].op \in Schemas =>
           /\ \A t \in call[e].schema \ call[e].bare : TRUE \in call[e].was[t]
           /\ \A t \in call[e].bare : FALSE \in call[e].was[t]
           /\ On(e, "answered") /\ call[e].row # 0 =>
                  /\ call[e].op = "schema" /\ call[e].answer = "tables" =>
                         \A t \in Tables \ call[e].schema : FALSE \in call[e].was[t]
                  /\ call[e].answer = "not found" /\ call[e].req.type # "postgresql" =>
                         \E t \in call[e].left : FALSE \in call[e].was[t]

AsksFor(e) == \E valid, approval \in BOOLEAN :
                  asked[e] = QueryRequest(valid, call[e].limit, approval)

\* A query has asked the policy for its limit, goes on only when the answer
\* was yes, and keeps its text before it is executed.
QueryInv(e) ==
    /\ ~On(e, "answered") => call[e].answer = "none"
    /\ On(e, "policy") => step[e] # "start" /\ AsksFor(e)
    /\ call[e].at \in {"text", "credential", "execute", "result"} =>
           step[e] = "returned" /\ AsksFor(e) /\ ~Refused(asked[e])
    /\ call[e].at \in {"policy", "text", "credential", "execute", "result"} =>
           call[e].op = "query"
    /\ call[e].at \in {"credential", "execute", "result"} => "query" \in call[e].files
    /\ call[e].answer = "refused" => logged[e]
    /\ call[e].answer = "result" => call[e].files = {"query", "result"}

IInv ==
    /\ TypeOK
    /\ RefusalsAreLogged
    /\ OneService
    /\ FileInv
    /\ WholeUnlessDisturbed
    /\ RowInv
    /\ \A e \in Evaluators :
           TaskInv(e) /\ RegisterInv(e) /\ SchemaInv(e) /\ QueryInv(e)

-----------------------------------------------------------------------------
(* What a step leaves to the others.                                       *)

\* The policy goes on with the request of e, if at all.
Stands(e) ==
    /\ asked'[e] = asked[e]
    /\ logged[e] => logged'[e]
    /\ step[e] # "start" => step'[e] # "start"
    /\ step[e] = "returned" => step'[e] = "returned"

\* evaluate never takes back a request, an audit row or an answer.
LEMMA EvaluateStands ==
    ASSUME PolicyTypeOK, NEW f \in Evaluators, Evaluate(f), NEW e \in Evaluators
    PROVE  Stands(e)
  BY DEF PolicyTypeOK, Evaluate, Compute, Audit, Return, Stands

LEMMA OthersStand ==
    ASSUME PolicyTypeOK, NEW f \in Evaluators, NEW e \in Evaluators, e # f,
           \/ UNCHANGED policy
           \/ Forget(f)
           \/ \E r \in Request : Ask(f, r)
    PROVE  Stands(e)
  BY DEF PolicyTypeOK, Stands, policy, Forget, Ask

LEMMA SameStands ==
    ASSUME UNCHANGED policy, NEW e \in Evaluators
    PROVE  Stands(e)
  BY DEF Stands, policy

Task ==
    [op : Op \cup {"none"}, path : Paths \cup {<<>>},
     at : {"idle", "policy", "look", "mkdir", "open", "fill", "text", "answered"},
     existed : BOOLEAN, answer : Answers]

\* The words of Workspace.tla for a task are tasks.
LEMMA TaskTypes ==
    /\ NoTask \in Task
    /\ \A answer \in Answers : Told(answer) \in Task
    /\ \A op \in Op, path \in Paths, existed \in BOOLEAN,
          at \in {"policy", "look", "mkdir", "open", "fill", "text"} :
              Doing(op, path, at, existed) \in Task
  BY DEF Task, NoTask, Told, Doing, Answers, Texts

LEMMA TaskFields ==
    /\ NoTask.op = "none" /\ NoTask.at = "idle" /\ NoTask.answer = "none"
    /\ \A answer : /\ Told(answer).at = "answered" /\ Told(answer).answer = answer
                   /\ Told(answer).op = "none" /\ Told(answer).path = <<>>
    /\ \A op, path, at, existed :
           LET t == Doing(op, path, at, existed)
           IN  t.op = op /\ t.path = path /\ t.at = at /\ t.existed = existed /\ t.answer = "none"
  BY DEF NoTask, Told, Doing

\* A request that is made of the policy is one that it knows.
LEMMA FileRequests ==
    ASSUME NEW op, NEW path, Resolved(op, path) = "mount"
    PROVE  FileRequest(op, path) \in Request
<1>1. Head(path) \in Mounts
  BY DEF Resolved
<1> QED
  BY <1>1 DEF FileRequest, Request, Action, Mount, Mounts

-----------------------------------------------------------------------------
(* The steps of the workspace.                                             *)

\* What the steps of f do to the tasks and to the policy: the others go on
\* where they were.
TaskStep(f, t) ==
    /\ t \in Task
    /\ task' = [task EXCEPT ![f] = t]
    /\ \A p \in Files : IsFile(p) => IsFile(p)'
    /\ node' \in [Files -> {"absent", "dir"} \cup Texts]
    /\ torn' \in [Files -> BOOLEAN]

PolicyStep(f) == UNCHANGED policy \/ Forget(f) \/ \E r \in Request : Ask(f, r)

LEMMA OtherTasks ==
    ASSUME TypeOK, NEW f \in Evaluators, NEW t, TaskStep(f, t), PolicyStep(f),
           NEW e \in Evaluators, e # f, TaskInv(e)
    PROVE  TaskInv(e)'
<1>1. task'[e] = task[e]
  BY DEF TypeOK, WorkspaceTypeOK, TaskStep
<1>2. Stands(e)
  BY OthersStand DEF TypeOK, PolicyStep
<1>3. \A p \in Files : IsFile(p) => IsFile(p)'
  BY DEF TaskStep
<1>4. task[e].at \in {"look", "mkdir", "open", "fill", "text"} => task[e].path \in Files
  BY DEF TaskInv
<1> QED
  BY <1>1, <1>2, <1>3, <1>4 DEF TaskInv, At, Stands, IsFile

LEMMA CallStep ==
    ASSUME TypeOK, NEW f \in Evaluators, TaskInv(f), NEW op \in Op, NEW path \in Paths,
           CallAnswered(f, op, path) \/ CallExists(f, path) \/ CallMount(f, op, path)
    PROVE  (\E t : TaskStep(f, t)) /\ PolicyStep(f) /\ TaskInv(f)'
<1>1. UNCHANGED <<node, torn>>
  BY DEF CallAnswered, CallExists, CallMount
<1>2. ASSUME CallAnswered(f, op, path) PROVE (\E t : TaskStep(f, t)) /\ PolicyStep(f) /\ TaskInv(f)'
  <2>1. Resolved(op, path) \in {"path blocked", "entries", "invalid", "not found"}
    BY <1>2 DEF CallAnswered, Resolved
  <2>2. task' = [task EXCEPT ![f] = Told(Resolved(op, path))] /\ UNCHANGED policy
    BY <1>2 DEF CallAnswered, Step
  <2> QED
    BY <1>1, <2>1, <2>2, TaskTypes, TaskFields
       DEF TypeOK, WorkspaceTypeOK, TaskStep, PolicyStep, IsFile, TaskInv, At, Answers
<1>3. ASSUME CallExists(f, path) PROVE (\E t : TaskStep(f, t)) /\ PolicyStep(f) /\ TaskInv(f)'
  <2>1. PICK found \in {"yes", "no"} : task' = [task EXCEPT ![f] = Told(found)]
    BY <1>3 DEF CallExists, Step
  <2> QED
    BY <1>1, <1>3, <2>1, TaskTypes, TaskFields
       DEF CallExists, TypeOK, WorkspaceTypeOK, TaskStep, PolicyStep, IsFile, TaskInv, At, Answers
<1>4. ASSUME CallMount(f, op, path) PROVE (\E t : TaskStep(f, t)) /\ PolicyStep(f) /\ TaskInv(f)'
  <2>1. task' = [task EXCEPT ![f] = Doing(op, path, "policy", FALSE)]
    BY <1>4 DEF CallMount, Step
  <2>2. Ask(f, FileRequest(op, path)) /\ FileRequest(op, path) \in Request
    BY <1>4, FileRequests DEF CallMount, AsksPolicy
  <2>3. step'[f] = "asked" /\ asked'[f] = FileRequest(op, path)
    BY <2>2 DEF Ask, TypeOK, PolicyTypeOK
  <2>4. AsksPolicy(op, path)
    BY <1>4 DEF CallMount
  <2>5. TaskStep(f, Doing(op, path, "policy", FALSE))
    BY <1>1, <2>1, TaskTypes DEF TypeOK, WorkspaceTypeOK, TaskStep, IsFile
  <2>6. task'[f] = Doing(op, path, "policy", FALSE)
    BY <2>1 DEF TypeOK, WorkspaceTypeOK
  <2>7. /\ task'[f].op = op /\ task'[f].path = path /\ task'[f].at = "policy"
        /\ task'[f].answer = "none"
    BY <2>6 DEF Doing
  <2>8. TaskInv(f)'
    BY <2>3, <2>4, <2>7 DEF TaskInv, At
  <2> QED
    BY <2>2, <2>5, <2>8 DEF PolicyStep
<1> QED
  BY <1>2, <1>3, <1>4

\* A call that is answered keeps nothing but the answer.
LEMMA TellStep ==
    ASSUME TypeOK, NEW f \in Evaluators, NEW answer \in Answers, Tell(f, answer),
           answer = "refused" => logged'[f]
    PROVE  /\ Told(answer) \in Task
           /\ task' = [task EXCEPT ![f] = Told(answer)]
           /\ TaskInv(f)'
<1>1. Told(answer) \in Task
  BY TaskTypes
<1>2. task' = [task EXCEPT ![f] = Told(answer)]
  BY DEF Tell, Step
<1>3. task'[f] = Told(answer)
  BY <1>2 DEF TypeOK, WorkspaceTypeOK
<1>4. task'[f].at = "answered" /\ task'[f].answer = answer
  BY <1>3, TaskFields
<1>5. TaskInv(f)'
  BY <1>4 DEF TaskInv, At
<1> QED
  BY <1>1, <1>2, <1>5

LEMMA ForgottenTask ==
    ASSUME TypeOK, NEW f \in Evaluators, task' = [task EXCEPT ![f] = NoTask]
    PROVE  TaskInv(f)'
<1>1. task'[f].at = "idle" /\ task'[f].answer = "none"
  BY DEF TypeOK, WorkspaceTypeOK, NoTask
<1> QED
  BY <1>1 DEF TaskInv, At

\* A call that goes on takes its path and the policy's word with it.
LEMMA GoesOn ==
    ASSUME TypeOK, NEW f \in Evaluators, TaskInv(f), UNCHANGED policy,
           step[f] = "returned", task[f].op \in {"list", "read", "write"}, task[f].path \in Files,
           asked[f] = FileRequest(task[f].op, task[f].path), ~Refused(asked[f]),
           NEW at \in {"look", "mkdir", "open", "fill", "text"}, NEW existed \in BOOLEAN,
           at \in {"mkdir", "open", "fill"} => task[f].op = "write",
           at = "text" => node'[task[f].path] \in Texts,
           task' = [task EXCEPT ![f] = Doing(task[f].op, task[f].path, at, existed)]
    PROVE  Doing(task[f].op, task[f].path, at, existed) \in Task /\ TaskInv(f)'
<1>1. task'[f] = Doing(task[f].op, task[f].path, at, existed)
  BY DEF TypeOK, WorkspaceTypeOK
<1>2. /\ task'[f].op = task[f].op /\ task'[f].path = task[f].path /\ task'[f].at = at
      /\ task'[f].answer = "none"
  BY <1>1 DEF Doing
<1>3. asked' = asked /\ step' = step
  BY DEF policy
<1>4. TaskInv(f)'
  BY <1>2, <1>3 DEF TaskInv, At, IsFile
<1>5. task[f].op \in Op /\ task[f].path \in Paths
  BY DEF Op, Files
<1>6. Doing(task[f].op, task[f].path, at, existed) \in Task
  BY <1>5, TaskTypes
<1> QED
  BY <1>4, <1>6

LEMMA EnforcedStep ==
    ASSUME TypeOK, RefusalsAreLogged, NEW f \in Evaluators, TaskInv(f), Enforced(f)
    PROVE  (\E t : TaskStep(f, t)) /\ UNCHANGED policy /\ TaskInv(f)'
<1>1. UNCHANGED <<node, torn>> /\ UNCHANGED policy
  BY DEF Enforced
<1>2. /\ step[f] = "returned" /\ task[f].op \in Op /\ asked[f] = FileRequest(task[f].op, task[f].path)
      /\ Refused(asked[f]) => logged'[f]
  BY <1>1 DEF Enforced, TaskInv, RefusalsAreLogged, policy
<1>3. ASSUME NEW answer \in Answers, Tell(f, answer), answer = "refused" => logged'[f]
      PROVE  (\E t : TaskStep(f, t)) /\ TaskInv(f)'
  <2>1. Told(answer) \in Task /\ task' = [task EXCEPT ![f] = Told(answer)] /\ TaskInv(f)'
    BY <1>3, TellStep
  <2> QED
    BY <1>1, <2>1 DEF TaskStep, TypeOK, WorkspaceTypeOK, IsFile
<1>4. ASSUME Move(f, "look"), ~Refused(asked[f]), task[f].op # "exists", task[f].path \in Files
      PROVE  (\E t : TaskStep(f, t)) /\ TaskInv(f)'
  <2>1. /\ task' = [task EXCEPT ![f] = Doing(task[f].op, task[f].path, "look", task[f].existed)]
        /\ task[f].existed \in BOOLEAN /\ task[f].op \in {"list", "read", "write"}
    BY <1>2, <1>4 DEF Move, Step, TypeOK, WorkspaceTypeOK, Op
  <2>2. Doing(task[f].op, task[f].path, "look", task[f].existed) \in Task /\ TaskInv(f)'
    BY <1>1, <1>2, <1>4, <2>1, GoesOn
  <2> QED
    BY <1>1, <2>1, <2>2 DEF TaskStep, TypeOK, WorkspaceTypeOK, IsFile
<1>5. {"yes", "no", "refused", "path blocked", "found", "not found", "invalid"} \subseteq Answers
  BY DEF Answers
<1> QED
  BY <1>1, <1>2, <1>3, <1>4, <1>5 DEF Enforced

LEMMA LookStep ==
    ASSUME TypeOK, NEW f \in Evaluators, TaskInv(f), Look(f)
    PROVE  (\E t : TaskStep(f, t)) /\ UNCHANGED policy /\ TaskInv(f)'
<1> DEFINE p == task[f].path
<1>1. UNCHANGED <<node, torn>> /\ UNCHANGED policy
  BY DEF Look
<1>2. /\ step[f] = "returned" /\ task[f].op \in {"list", "read", "write"} /\ p \in Files
      /\ asked[f] = FileRequest(task[f].op, p) /\ ~Refused(asked[f])
  BY DEF Look, TaskInv, At
<1>3. ASSUME NEW answer \in {"not found", "entries"}, Tell(f, answer)
      PROVE  (\E t : TaskStep(f, t)) /\ TaskInv(f)'
  <2>1. answer \in Answers
    BY DEF Answers
  <2>2. Told(answer) \in Task /\ task' = [task EXCEPT ![f] = Told(answer)] /\ TaskInv(f)'
    BY <1>3, <2>1, TellStep
  <2> QED
    BY <1>1, <2>2 DEF TaskStep, TypeOK, WorkspaceTypeOK, IsFile
<1>4. ASSUME NEW at \in {"text", "mkdir"}, NEW existed \in BOOLEAN,
             task' = [task EXCEPT ![f] = Doing(task[f].op, p, at, existed)],
             at = "text" => IsFile(p), at = "mkdir" => task[f].op = "write"
      PROVE  (\E t : TaskStep(f, t)) /\ TaskInv(f)'
  <2>1. at = "text" => node'[p] \in Texts
    BY <1>1, <1>4 DEF IsFile
  <2>2. Doing(task[f].op, p, at, existed) \in Task /\ TaskInv(f)'
    BY <1>1, <1>2, <1>4, <2>1, GoesOn
  <2> QED
    BY <1>1, <1>4, <2>2 DEF TaskStep, TypeOK, WorkspaceTypeOK, IsFile
<1>5. CASE task[f].op = "list"
  <2>1. \E answer \in {"not found", "entries"} : Tell(f, answer)
    BY <1>5 DEF Look
  <2> QED
    BY <1>1, <1>3, <2>1
<1>6. CASE task[f].op = "read"
  <2>1. IF IsFile(p) THEN Move(f, "text") ELSE Tell(f, "not found")
    BY <1>6 DEF Look
  <2>2. task[f].existed \in BOOLEAN
    BY DEF TypeOK, WorkspaceTypeOK
  <2> QED
    BY <1>1, <1>3, <1>4, <2>1, <2>2 DEF Move, Step
<1>7. CASE task[f].op = "write"
  <2>1. task' = [task EXCEPT ![f] = Doing(task[f].op, p, "mkdir", node[p] # "absent")]
    BY <1>7 DEF Look, Step
  <2> QED
    BY <1>1, <1>4, <1>7, <2>1
<1> QED
  BY <1>2, <1>5, <1>6, <1>7

\* The calls that touch a file: who reads finds a text, who writes leaves one.
LEMMA FileStep ==
    ASSUME TypeOK, NEW f \in Evaluators, TaskInv(f),
           ReadText(f) \/ MakeParent(f) \/ Open(f) \/ Fill(f)
    PROVE  (\E t : TaskStep(f, t)) /\ UNCHANGED policy /\ TaskInv(f)'
<1> DEFINE p == task[f].path
<1>1. UNCHANGED policy
  BY DEF ReadText, MakeParent, Open, Fill
<1>2. /\ step[f] = "returned" /\ task[f].op \in {"list", "read", "write"} /\ p \in Files
      /\ asked[f] = FileRequest(task[f].op, p) /\ ~Refused(asked[f])
      /\ task[f].at # "text" => task[f].op = "write"
      /\ task[f].at = "text" => node[p] \in Texts
  BY DEF ReadText, MakeParent, Open, Fill, TaskInv, At, IsFile
<1>3. /\ node \in [Files -> {"absent", "dir"} \cup Texts] /\ torn \in [Files -> BOOLEAN]
      /\ task \in [Evaluators -> Task]
  BY DEF TypeOK, WorkspaceTypeOK, Task
<1>4. ASSUME NEW answer \in Answers, Tell(f, answer), answer # "refused"
      PROVE  /\ Told(answer) \in Task
             /\ task' = [task EXCEPT ![f] = Told(answer)]
             /\ TaskInv(f)'
  BY <1>4, TellStep
<1>5. ASSUME NEW at \in {"open", "fill"}, Move(f, at), task[f].op = "write"
      PROVE  /\ Doing(task[f].op, p, at, task[f].existed) \in Task
             /\ task' = [task EXCEPT ![f] = Doing(task[f].op, p, at, task[f].existed)]
             /\ TaskInv(f)'
  <2>1. task' = [task EXCEPT ![f] = Doing(task[f].op, p, at, task[f].existed)]
    BY <1>5 DEF Move, Step
  <2>2. task[f].existed \in BOOLEAN
    BY <1>3 DEF Task
  <2> QED
    BY <1>1, <1>2, <1>5, <2>1, <2>2, GoesOn
<1>6. /\ "failed" \in Answers /\ "path blocked" \in Answers
      /\ "created" \in Answers /\ "overwritten" \in Answers
  BY DEF Answers
<1>7. CASE ReadText(f)
  <2>1. node[p] \in Texts
    BY <1>2, <1>7 DEF ReadText, At
  <2>2. node[p] \in Answers /\ node[p] # "refused"
    BY <2>1, EvaluatorAssumption DEF Answers, Texts
  <2>3. Tell(f, node[p]) /\ UNCHANGED <<node, torn>>
    BY <1>7 DEF ReadText
  <2> QED
    BY <1>1, <1>3, <1>4, <2>2, <2>3 DEF TaskStep, IsFile
<1>8. CASE MakeParent(f)
  <2>1. task[f].op = "write"
    BY <1>2, <1>8 DEF MakeParent, At
  <2>2. Tell(f, "failed") \/ Tell(f, "path blocked") \/ Move(f, "open")
    BY <1>8 DEF MakeParent
  <2>3. (\E t \in Task : task' = [task EXCEPT ![f] = t]) /\ TaskInv(f)'
    BY <1>4, <1>5, <1>6, <2>1, <2>2
  <2>4. node' = node \/ \E q : node[q] = "absent" /\ node' = [node EXCEPT ![q] = "dir"]
    BY <1>8 DEF MakeParent
  <2>5. torn' = torn
    BY <1>8 DEF MakeParent
  <2>6. \A r \in Files : IsFile(r) => IsFile(r)'
    BY <1>3, <2>4, EvaluatorAssumption DEF IsFile, Texts
  <2>7. node' \in [Files -> {"absent", "dir"} \cup Texts]
    BY <1>3, <2>4
  <2> QED
    BY <1>1, <1>3, <2>3, <2>5, <2>6, <2>7 DEF TaskStep
<1>9. CASE Open(f)
  <2>1. task[f].op = "write"
    BY <1>2, <1>9 DEF Open, At
  <2>2. Tell(f, "failed") \/ Move(f, "fill")
    BY <1>9 DEF Open
  <2>3. (\E t \in Task : task' = [task EXCEPT ![f] = t]) /\ TaskInv(f)'
    BY <1>4, <1>5, <1>6, <2>1, <2>2
  <2>4. node' = node \/ node' = [node EXCEPT ![p] = "empty"]
    BY <1>9 DEF Open, Opened
  <2>5. torn' = torn \/ torn' = [torn EXCEPT ![p] = Writing(p) # {}]
    BY <1>9 DEF Open
  <2>6. node' \in [Files -> {"absent", "dir"} \cup Texts] /\ \A r \in Files : IsFile(r) => IsFile(r)'
    BY <1>2, <1>3, <2>4 DEF IsFile, Texts
  <2> QED
    BY <1>1, <1>3, <2>3, <2>5, <2>6 DEF TaskStep
<1>10. CASE Fill(f)
  <2>1. PICK text \in {f, "mixed"} : node' = [node EXCEPT ![p] = text]
    BY <1>10 DEF Fill
  <2>2. Tell(f, "created") \/ Tell(f, "overwritten")
    BY <1>10 DEF Fill
  <2>3. (\E t \in Task : task' = [task EXCEPT ![f] = t]) /\ TaskInv(f)'
    BY <1>4, <1>6, <2>2
  <2>4. torn' = torn
    BY <1>10 DEF Fill
  <2>5. node' \in [Files -> {"absent", "dir"} \cup Texts] /\ \A r \in Files : IsFile(r) => IsFile(r)'
    BY <1>2, <1>3, <2>1 DEF IsFile, Texts
  <2> QED
    BY <1>1, <1>3, <2>3, <2>4, <2>5 DEF TaskStep
<1> QED
  BY <1>7, <1>8, <1>9, <1>10

LEMMA LastStep ==
    ASSUME TypeOK, NEW f \in Evaluators, TaskInv(f), Delivered(f) \/ Die(f)
    PROVE  (\E t : TaskStep(f, t)) /\ PolicyStep(f) /\ TaskInv(f)'
<1>1. task' = [task EXCEPT ![f] = NoTask] /\ Forget(f) /\ node' = node
  BY DEF Delivered, Die, Step
<1>2. torn' = torn \/ torn' = [torn EXCEPT ![task[f].path] = TRUE]
  BY DEF Delivered, Die
<1>3. TaskStep(f, NoTask)
  BY <1>1, <1>2, TaskTypes DEF TypeOK, WorkspaceTypeOK, TaskStep, IsFile
<1> QED
  BY <1>1, <1>3, ForgottenTask DEF PolicyStep

\* Together: a step of the workspace keeps what each call knows.
LEMMA WorkspaceTasks ==
    ASSUME IInv, NEW f \in Evaluators, WorkspaceStep(f)
    PROVE  (\E t : TaskStep(f, t)) /\ PolicyStep(f) /\ \A e \in Evaluators : TaskInv(e)'
<1>1. TypeOK /\ RefusalsAreLogged /\ \A e \in Evaluators : TaskInv(e)
  BY DEF IInv
<1>2. (\E t : TaskStep(f, t)) /\ PolicyStep(f) /\ TaskInv(f)'
  BY <1>1, CallStep, EnforcedStep, LookStep, FileStep, LastStep DEF WorkspaceStep, PolicyStep, Op
<1>3. \A e \in Evaluators : e # f => TaskInv(e)'
  BY <1>1, <1>2, OtherTasks
<1> QED
  BY <1>2, <1>3

-----------------------------------------------------------------------------
(* Files and their writers.                                                *)

LEMMA TellsAt ==
    ASSUME TypeOK, NEW f \in Evaluators, NEW answer, Tell(f, answer)
    PROVE  task'[f].at = "answered"
  BY DEF TypeOK, WorkspaceTypeOK, Tell, Step, Told, NoTask

LEMMA MovesAt ==
    ASSUME TypeOK, NEW f \in Evaluators, NEW at, Move(f, at)
    PROVE  task'[f].at = at /\ task'[f].path = task[f].path
  BY DEF TypeOK, WorkspaceTypeOK, Move, Step, Doing

\* A step that no writer of a text takes part in.
LEMMA NobodyFills ==
    ASSUME IInv, NEW f \in Evaluators,
           \A e \in Evaluators : e # f => task'[e] = task[e],
           ~At(f, "fill"), ~At(f, "fill")', torn' = torn,
           \A p \in Files : \/ node'[p] = node[p]
                            \/ node[p] = "absent" /\ node'[p] = "dir"
    PROVE  FileInv' /\ WholeUnlessDisturbed'
<1>1. \A e \in Evaluators, p \in Files : Fills(e, p)' <=> Fills(e, p)
  BY DEF Fills, At
<1>2. ASSUME NEW p \in Files, NEW e \in Evaluators, Fills(e, p)' PROVE Alone(e, p)'
  <2>1. Alone(e, p)
    BY <1>1, <1>2 DEF IInv, FileInv
  <2> QED
    BY <1>1, <2>1 DEF Alone
<1>3. ASSUME NEW p \in Files, node'[p] \in {"empty", "mixed"}, ~torn'[p]
      PROVE  Writing(p)' # {}
  <2>1. node[p] \in {"empty", "mixed"}
    BY <1>3
  <2>2. PICK e \in Evaluators : Fills(e, p)
    BY <1>3, <2>1 DEF IInv, WholeUnlessDisturbed, Writing, Fills, At
  <2> QED
    BY <1>1, <2>2 DEF Writing, Fills, At
<1> QED
  BY <1>2, <1>3 DEF FileInv, WholeUnlessDisturbed

\* Who opens a file is alone at it, or knows that it is not.
LEMMA OpensFile ==
    ASSUME IInv, NEW f \in Evaluators, NEW p \in Files,
           \A e \in Evaluators : e # f => task'[e] = task[e],
           ~At(f, "fill"), Fills(f, p)',
           node' = [node EXCEPT ![p] = "empty"],
           torn' = [torn EXCEPT ![p] = Writing(p) # {}]
    PROVE  FileInv' /\ WholeUnlessDisturbed'
<1>1. \A e \in Evaluators, q \in Files : e # f \/ q # p => (Fills(e, q)' <=> Fills(e, q))
  BY DEF Fills, At
<1>2. /\ node'[p] = "empty" /\ torn'[p] = (Writing(p) # {})
      /\ \A q \in Files : q # p => node'[q] = node[q] /\ torn'[q] = torn[q]
  BY DEF IInv, TypeOK, WorkspaceTypeOK
<1>3. Writing(p) = {} => \A e \in Evaluators : Fills(e, p)' => e = f
  BY <1>1 DEF Writing, Fills, At
<1>4. \A e \in Evaluators : Alone(e, p)' \/ (Fills(e, p)' => e = f)
  BY <1>2, <1>3 DEF Alone
<1>5. Alone(f, p)'
  BY <1>2, <1>3 DEF Alone
<1>6. ASSUME NEW q \in Files, q # p, NEW e \in Evaluators, Fills(e, q)' PROVE Alone(e, q)'
  <2>1. Fills(e, q)
    BY <1>1, <1>6
  <2>2. Alone(e, q)
    BY <1>6, <2>1 DEF IInv, FileInv
  <2>3. \A g \in Evaluators : Fills(g, q)' => Fills(g, q)
    BY <1>1, <1>6
  <2> QED
    BY <1>2, <1>6, <2>2, <2>3 DEF Alone
<1>7. FileInv'
  BY <1>4, <1>5, <1>6 DEF FileInv
<1>8. ASSUME NEW q \in Files, node'[q] \in {"empty", "mixed"}, ~torn'[q]
      PROVE  Writing(q)' # {}
  <2>1. CASE q = p
    BY <2>1 DEF Writing, Fills, At
  <2>2. CASE q # p
    <3>1. PICK e \in Evaluators : Fills(e, q)
      BY <1>2, <1>8, <2>2 DEF IInv, WholeUnlessDisturbed, Writing, Fills, At
    <3> QED
      BY <1>1, <2>2, <3>1 DEF Writing, Fills, At
  <2> QED
    BY <2>1, <2>2
<1> QED
  BY <1>7, <1>8 DEF WholeUnlessDisturbed

\* Who is done with a file has made it whole, unless it was torn.
LEMMA LeavesFile ==
    ASSUME IInv, NEW f \in Evaluators, NEW p \in Files,
           \A e \in Evaluators : e # f => task'[e] = task[e],
           Fills(f, p), ~At(f, "fill")',
           \A q \in Files : q # p => node'[q] = node[q] /\ torn'[q] = torn[q],
           torn'[p] \/ (torn'[p] = torn[p] /\ (node'[p] = f \/ node[p] # "empty"))
    PROVE  FileInv' /\ WholeUnlessDisturbed'
<1>1. /\ \A e \in Evaluators, q \in Files : e # f \/ q # p => (Fills(e, q)' <=> Fills(e, q))
      /\ ~Fills(f, p)'
  BY DEF Fills, At
<1>2. Alone(f, p)
  BY DEF IInv, FileInv
<1>3. ~torn'[p] => node'[p] = f
  BY <1>2 DEF Alone
<1>4. ASSUME NEW q \in Files, NEW e \in Evaluators, Fills(e, q)' PROVE Alone(e, q)'
  <2>1. Fills(e, q) /\ Alone(e, q)
    BY <1>1, <1>4 DEF IInv, FileInv
  <2>2. CASE q = p
    <3>1. e # f
      BY <1>1, <1>4, <2>2
    <3>2. torn[p]
      BY <1>2, <2>1, <2>2, <3>1 DEF Alone
    <3> QED
      BY <2>2, <3>2 DEF Alone
  <2>3. CASE q # p
    BY <1>1, <2>1, <2>3 DEF Alone
  <2> QED
    BY <2>2, <2>3
<1>5. ASSUME NEW q \in Files, node'[q] \in {"empty", "mixed"}, ~torn'[q]
      PROVE  Writing(q)' # {}
  <2>1. q # p
    BY <1>3, <1>5, EvaluatorAssumption
  <2>2. PICK e \in Evaluators : Fills(e, q)
    BY <1>5, <2>1 DEF IInv, WholeUnlessDisturbed, Writing, Fills, At
  <2> QED
    BY <1>1, <2>1, <2>2 DEF Writing, Fills, At
<1> QED
  BY <1>4, <1>5 DEF FileInv, WholeUnlessDisturbed

LEMMA WorkspaceFiles ==
    ASSUME IInv, NEW f \in Evaluators, WorkspaceStep(f)
    PROVE  FileInv' /\ WholeUnlessDisturbed'
<1>0. PICK p : p = task[f].path
  OBVIOUS
<1>1. TypeOK /\ TaskInv(f) /\ node \in [Files -> {"absent", "dir"} \cup Texts]
      /\ torn \in [Files -> BOOLEAN]
  BY DEF IInv, TypeOK, WorkspaceTypeOK
<1>2. \A e \in Evaluators : e # f => task'[e] = task[e]
  BY <1>1, WorkspaceTasks DEF TaskStep, TypeOK, WorkspaceTypeOK
<1>3. ASSUME NEW op, NEW path, CallAnswered(f, op, path) \/ CallExists(f, path) \/ CallMount(f, op, path)
      PROVE  FileInv' /\ WholeUnlessDisturbed'
  <2>1. ~At(f, "fill") /\ UNCHANGED <<node, torn>>
    BY <1>3 DEF CallAnswered, CallExists, CallMount, At
  <2>2. task'[f].at \in {"answered", "policy"}
    <3>1. CASE CallMount(f, op, path)
      BY <1>1, <3>1 DEF CallMount, Step, Doing, TypeOK, WorkspaceTypeOK
    <3>2. CASE CallAnswered(f, op, path) \/ CallExists(f, path)
      <4>1. \E answer : Tell(f, answer)
        BY <3>2 DEF CallAnswered, CallExists, Tell
      <4> QED
        BY <1>1, <4>1, TellsAt
    <3> QED
      BY <1>3, <3>1, <3>2
  <2> QED
    BY <1>2, <2>1, <2>2, NobodyFills DEF At
<1>4. ASSUME Enforced(f) \/ Look(f) \/ ReadText(f) PROVE FileInv' /\ WholeUnlessDisturbed'
  <2>1. ~At(f, "fill") /\ UNCHANGED <<node, torn>>
    BY <1>4 DEF Enforced, Look, ReadText, At
  <2>2. task'[f].at # "fill"
    <3>1. CASE Enforced(f)
      <4>1. (\E answer : Tell(f, answer)) \/ Move(f, "look")
        BY <3>1 DEF Enforced
      <4> QED
        BY <1>1, <4>1, TellsAt, MovesAt
    <3>2. CASE Look(f)
      <4>1. task[f].op \in {"list", "read", "write"}
        BY <1>1, <3>2 DEF Look, TaskInv, At
      <4>2. ASSUME task[f].op = "write" PROVE task'[f].at = "mkdir"
        BY <1>1, <3>2, <4>2 DEF Look, Step, Doing, TypeOK, WorkspaceTypeOK
      <4>3. ASSUME task[f].op # "write" PROVE (\E answer : Tell(f, answer)) \/ Move(f, "text")
        BY <3>2, <4>1, <4>3 DEF Look
      <4> QED
        BY <1>1, <4>2, <4>3, TellsAt, MovesAt
    <3>3. CASE ReadText(f)
      BY <1>1, <3>3, TellsAt DEF ReadText
    <3> QED
      BY <1>4, <3>1, <3>2, <3>3
  <2> QED
    BY <1>2, <2>1, <2>2, NobodyFills DEF At
<1>5. ASSUME MakeParent(f) PROVE FileInv' /\ WholeUnlessDisturbed'
  <2>1. ~At(f, "fill") /\ torn' = torn
    BY <1>5 DEF MakeParent, At
  <2>2. task'[f].at # "fill"
    <3>1. Tell(f, "failed") \/ Tell(f, "path blocked") \/ Move(f, "open")
      BY <1>5 DEF MakeParent
    <3>2. ASSUME NEW answer, Tell(f, answer) PROVE task'[f].at # "fill"
      BY <1>1, <3>2, TellsAt
    <3>3. Move(f, "open") => task'[f].at # "fill"
      BY <1>1, MovesAt
    <3> QED
      BY <3>1, <3>2, <3>3
  <2>3. node' = node \/ \E q : node[q] = "absent" /\ node' = [node EXCEPT ![q] = "dir"]
    BY <1>5 DEF MakeParent
  <2>4. \A r \in Files : node'[r] = node[r] \/ (node[r] = "absent" /\ node'[r] = "dir")
    <3>1. ASSUME NEW q, node[q] = "absent", node' = [node EXCEPT ![q] = "dir"], NEW r \in Files
          PROVE  node'[r] = node[r] \/ (node[r] = "absent" /\ node'[r] = "dir")
      <4>1. DOMAIN node = Files
        BY <1>1
      <4> QED
        BY <3>1, <4>1
    <3>2. node' = node => \A r \in Files : node'[r] = node[r]
      OBVIOUS
    <3> QED
      BY <2>3, <3>1, <3>2, Zenon
  <2> QED
    BY <1>2, <2>1, <2>2, <2>4, NobodyFills DEF At
<1>6. ASSUME Open(f) PROVE FileInv' /\ WholeUnlessDisturbed'
  <2>1. ~At(f, "fill") /\ p \in Files
    BY <1>0, <1>1, <1>6 DEF Open, At, TaskInv
  <2>2. CASE node[p] = "dir"
    <3>1. Tell(f, "failed") /\ UNCHANGED <<node, torn>>
      BY <1>0, <1>6, <2>2 DEF Open
    <3> QED
      BY <1>1, <1>2, <2>1, <3>1, TellsAt, NobodyFills DEF At
  <2>3. CASE node[p] # "dir"
    <3>1. /\ node' = [node EXCEPT ![p] = "empty"]
          /\ torn' = [torn EXCEPT ![p] = Writing(p) # {}]
          /\ Move(f, "fill")
      BY <1>0, <1>6, <2>3 DEF Open, Opened
    <3>2. Fills(f, p)'
      BY <1>0, <1>1, <3>1, MovesAt DEF Fills, At
    <3> QED
      BY <1>2, <2>1, <3>1, <3>2, OpensFile
  <2> QED
    BY <2>2, <2>3
<1>7. ASSUME Fill(f) PROVE FileInv' /\ WholeUnlessDisturbed'
  <2>1. Fills(f, p) /\ p \in Files /\ torn' = torn
    BY <1>0, <1>1, <1>7 DEF Fill, Fills, At, TaskInv
  <2>2. task'[f].at = "answered"
    BY <1>1, <1>7, TellsAt DEF Fill
  <2>3. /\ node'[p] = f \/ node[p] # "empty"
        /\ \A q \in Files : q # p => node'[q] = node[q]
    BY <1>0, <1>1, <1>7, <2>1 DEF Fill
  <2> QED
    BY <1>2, <2>1, <2>2, <2>3, LeavesFile DEF At
<1>8. ASSUME Delivered(f) \/ Die(f) PROVE FileInv' /\ WholeUnlessDisturbed'
  <2>1. task'[f].at = "idle" /\ node' = node
    BY <1>1, <1>8 DEF Delivered, Die, Step, NoTask, TypeOK, WorkspaceTypeOK
  <2>2. CASE At(f, "fill")
    <3>1. p \in Files /\ torn' = [torn EXCEPT ![p] = TRUE]
      BY <1>0, <1>1, <1>8, <2>2 DEF Delivered, Die, TaskInv, At
    <3>2. Fills(f, p)
      BY <1>0, <2>2 DEF Fills
    <3>3. torn'[p]
      BY <1>1, <3>1
    <3>4. \A q \in Files : q # p => node'[q] = node[q] /\ torn'[q] = torn[q]
      BY <1>1, <2>1, <3>1
    <3>5. ~At(f, "fill")'
      BY <2>1 DEF At
    <3> QED
      BY <1>2, <3>1, <3>2, <3>3, <3>4, <3>5, LeavesFile, Zenon
  <2>3. CASE ~At(f, "fill")
    <3>1. torn' = torn
      BY <1>8, <2>3 DEF Delivered, Die
    <3> QED
      BY <1>2, <2>1, <2>3, <3>1, NobodyFills DEF At
  <2> QED
    BY <2>2, <2>3
<1> QED
  BY <1>3, <1>4, <1>5, <1>6, <1>7, <1>8 DEF WorkspaceStep

-----------------------------------------------------------------------------
(* What a step of the datasource service leaves to the others.             *)

Call ==
    [op : Op2, at : Steps, req : Registration, row : Ids \cup {0}, known : SUBSET Ids,
     left : SUBSET Tables, schema : SUBSET Tables, bare : SUBSET Tables,
     was : [Tables -> SUBSET BOOLEAN], limit : Limits \cup {NoLimit, DefaultLimit},
     files : SUBSET {"query", "result"}, answer : Replies]

LEMMA NoReqType == NoReq \in Registration
<1>1. PICK k \in Keys, type \in Types, port \in Ports : TRUE
  BY RegistrationAssumption
<1>2. [key |-> k, type |-> type, port |-> port] \in Registration
  BY DEF Registration
<1> QED
  BY <1>2 DEF NoReq

LEMMA NoCallType == NoCall \in Call
  BY NoReqType DEF NoCall, Call, Op2, Steps, Replies, Unseen

LEMMA NoCallFields ==
    /\ NoCall.op = "none" /\ NoCall.at = "idle" /\ NoCall.row = 0 /\ NoCall.known = {}
    /\ NoCall.left = {} /\ NoCall.schema = {} /\ NoCall.bare = {} /\ NoCall.files = {}
    /\ NoCall.answer = "none"
  BY DEF NoCall

LEMMA ReplyFields ==
    ASSUME NEW c \in Call, NEW answer \in Replies, NEW r, r = Reply(c, answer)
    PROVE  /\ r \in Call
           /\ r.at = "answered" /\ r.answer = answer
           /\ r.op = c.op /\ r.req = c.req /\ r.row = c.row /\ r.known = c.known
           /\ r.left = c.left /\ r.schema = c.schema /\ r.bare = c.bare /\ r.was = c.was
           /\ r.limit = c.limit /\ r.files = c.files
  BY DEF Reply, Call, Steps

\* The rows are numbered from 1, and there are not more than there may be.
LEMMA RowTypes ==
    ASSUME TypeOK
    PROVE  /\ Rows \subseteq Ids /\ 0 \notin Rows
           /\ \A id \in Rows : registered[id] \in Registration /\ registered[id].key \in Keys
           /\ exists \in [Keys -> [Tables -> BOOLEAN]]
           /\ call \in [Evaluators -> Call]
<1>1. registered \in Seq(Registration) /\ Len(registered) <= MaxRows
  BY DEF TypeOK, DatasourceTypeOK
<1>2. Rows = 1 .. Len(registered) /\ Len(registered) \in Nat
  BY <1>1 DEF Rows
<1>3. \A id \in Rows : registered[id] \in Registration
  BY <1>1 DEF Rows
<1>4. Rows \subseteq Ids /\ 0 \notin Rows
  BY <1>1, <1>2, LimitAssumption DEF Ids
<1> QED
  BY <1>3, <1>4 DEF TypeOK, DatasourceTypeOK, Call, Registration

LEMMA Became ==
    ASSUME TypeOK, NEW f \in Evaluators, NEW c \in Call, Becomes(f, c)
    PROVE  /\ call' \in [Evaluators -> Call] /\ call'[f] = c
           /\ \A e \in Evaluators : e # f => call'[e] = call[e]
  BY RowTypes DEF Becomes

\* Rows are added, and never changed.
Extends == Rows \subseteq Rows' /\ \A id \in Rows : registered'[id] = registered[id]

LEMMA SameRows == ASSUME registered' = registered PROVE Extends
  BY DEF Extends, Rows

CallInv(e) == RegisterInv(e) /\ SchemaInv(e) /\ QueryInv(e)

LEMMA OtherCalls ==
    ASSUME NEW e \in Evaluators, call'[e] = call[e], Stands(e), exists' = exists, Extends, CallInv(e)
    PROVE  CallInv(e)'
<1>1. RegisterInv(e)'
  BY DEF CallInv, RegisterInv, Known, On, Extends
<1>2. SchemaInv(e)'
  BY DEF CallInv, SchemaInv, On, Extends, Now
<1>3. QueryInv(e)'
  BY DEF CallInv, QueryInv, On, Stands, AsksFor
<1> QED
  BY <1>1, <1>2, <1>3 DEF CallInv

-----------------------------------------------------------------------------
(* register.                                                               *)

\* What the step of f leaves behind, for its own call and for the table.
OwnCall(f) ==
    /\ call' \in [Evaluators -> Call]
    /\ \A e \in Evaluators : e # f => call'[e] = call[e]
    /\ Extends
    /\ CallInv(f)'

LEMMA RegisterStep ==
    ASSUME IInv, NEW f \in Evaluators, NEW req \in Registration, Register(f, req)
    PROVE  OwnCall(f)
<1> DEFINE known == {id \in Rows : SameDatabase(registered[id], req)}
           c == [NoCall EXCEPT !.op = "register", !.at = "find", !.req = req, !.known = known]
<1>1. TypeOK
  BY DEF IInv
<1>2. c \in Call
  BY <1>1, NoCallType, RowTypes DEF Call, Op2, Steps
<1>3. /\ c.op = "register" /\ c.at = "find" /\ c.req = req /\ c.known = known
      /\ c.answer = "none"
  BY NoCallType, NoCallFields DEF Call
<1>4. Becomes(f, c) /\ registered' = registered
  BY DEF Register
<1>5. /\ call' \in [Evaluators -> Call] /\ call'[f] = c
      /\ \A e \in Evaluators : e # f => call'[e] = call[e]
  BY <1>1, <1>2, <1>4, Became
<1>6. /\ call'[f].op = "register" /\ call'[f].at = "find" /\ call'[f].req = req
      /\ call'[f].known = known /\ call'[f].answer = "none" /\ Rows' = Rows
  BY <1>3, <1>4, <1>5 DEF Rows
<1>7. CallInv(f)'
  BY <1>4, <1>6 DEF CallInv, RegisterInv, SchemaInv, QueryInv, Known, On, Schemas
<1> QED
  BY <1>4, <1>5, <1>7, SameRows DEF OwnCall

LEMMA FindStep ==
    ASSUME IInv, NEW f \in Evaluators, Find(f)
    PROVE  OwnCall(f)
<1> DEFINE found == {id \in Rows : Matches(registered[id], call[f].req)}
<1>1. TypeOK /\ registered' = registered /\ RowInv /\ On(f, "find") /\ call[f] \in Call
  BY RowTypes DEF IInv, Find
<1>2. RegisterInv(f) /\ call[f].op = "register" /\ Known(f) /\ call[f].answer = "none"
  BY <1>1 DEF IInv, RegisterInv, QueryInv, On
<1>3. call[f].known \subseteq found
  BY <1>2 DEF Known, Matches
<1>4. CASE found # {}
  <2>1. PICK id \in found : Becomes(f, Reply([call[f] EXCEPT !.row = id], "id"))
    BY <1>4 DEF Find
  <2>0. PICK c : c = [call[f] EXCEPT !.row = id]
    OBVIOUS
  <2>2. c \in Call /\ c.op = "register" /\ c.row = id /\ c.req = call[f].req /\ c.known = call[f].known
    BY <1>1, <1>2, <2>0, RowTypes DEF Call
  <2>9. PICK r : r = Reply(c, "id") /\ Becomes(f, r)
    BY <2>0, <2>1
  <2>10. "id" \in Replies
    BY DEF Replies
  <2>3. /\ r \in Call /\ r.op = "register" /\ r.row = id /\ r.req = call[f].req
        /\ r.known = call[f].known /\ r.at = "answered" /\ r.answer = "id"
    BY <2>2, <2>9, <2>10, ReplyFields
  <2>4. /\ call' \in [Evaluators -> Call] /\ call'[f] = r
        /\ \A e \in Evaluators : e # f => call'[e] = call[e]
    BY <1>1, <2>9, <2>3, Became
  <2>5. SameDatabase(registered[id], call[f].req)
    BY DEF Matches
  <2>6. call[f].known # {} => id \in call[f].known
    <3>1. ASSUME NEW j \in call[f].known PROVE id = j
      BY <1>1, <1>3, <2>5 DEF RowInv, Matches, SameDatabase
    <3> QED
      BY <3>1
  <2>7. CallInv(f)'
    <3>1. /\ call'[f].op = "register" /\ call'[f].row = id /\ call'[f].req = call[f].req
          /\ call'[f].known = call[f].known /\ call'[f].at = "answered" /\ call'[f].answer = "id"
      BY <2>3, <2>4
    <3>2. Known(f)'
      BY <1>1, <1>2, <3>1 DEF Known, Rows
    <3>3. RegisterInv(f)'
      BY <1>1, <2>5, <2>6, <3>1, <3>2 DEF RegisterInv, On, Rows
    <3> QED
      BY <3>1, <3>3 DEF CallInv, SchemaInv, QueryInv, On, Schemas
  <2> QED
    BY <1>1, <2>4, <2>7, SameRows DEF OwnCall
<1>5. CASE found = {}
  <2> DEFINE c == [call[f] EXCEPT !.at = "insert"]
  <2>1. Becomes(f, c)
    BY <1>5 DEF Find
  <2>2. /\ c \in Call /\ c.op = "register" /\ c.at = "insert" /\ c.req = call[f].req
        /\ c.known = call[f].known /\ c.answer = call[f].answer /\ c.row = call[f].row
    BY <1>1, <1>2 DEF Call, Steps
  <2>3. /\ call' \in [Evaluators -> Call] /\ call'[f] = c
        /\ \A e \in Evaluators : e # f => call'[e] = call[e]
    BY <1>1, <2>1, <2>2, Became
  <2>4. /\ call'[f].op = "register" /\ call'[f].at = "insert" /\ call'[f].req = call[f].req
        /\ call'[f].known = call[f].known /\ call'[f].answer = call[f].answer
        /\ call'[f].row = call[f].row
    BY <2>2, <2>3
  <2>5. call[f].known = {}
    BY <1>3, <1>5
  <2>6. Known(f)'
    BY <2>4, <2>5 DEF Known
  <2>7. RegisterInv(f)'
    BY <1>1, <1>2, <2>4, <2>5, <2>6 DEF RegisterInv, On, Rows
  <2>8. QueryInv(f)' /\ SchemaInv(f)'
    BY <1>1, <1>2, <2>4 DEF SchemaInv, QueryInv, On, Schemas
  <2> QED
    BY <1>1, <2>3, <2>7, <2>8, SameRows DEF OwnCall, CallInv
<1> QED
  BY <1>4, <1>5

\* A call that is answered keeps what it has read.
LEMMA Replied ==
    ASSUME TypeOK, NEW f \in Evaluators, NEW c \in Call, NEW answer \in Replies,
           Becomes(f, Reply(c, answer))
    PROVE  /\ call' \in [Evaluators -> Call]
           /\ \A e \in Evaluators : e # f => call'[e] = call[e]
           /\ call'[f].at = "answered" /\ call'[f].answer = answer
           /\ call'[f].op = c.op /\ call'[f].req = c.req /\ call'[f].row = c.row
           /\ call'[f].known = c.known /\ call'[f].left = c.left /\ call'[f].schema = c.schema
           /\ call'[f].bare = c.bare /\ call'[f].was = c.was /\ call'[f].limit = c.limit
           /\ call'[f].files = c.files
<1>1. PICK r : r = Reply(c, answer)
  OBVIOUS
<1>2. /\ r \in Call /\ r.at = "answered" /\ r.answer = answer
      /\ r.op = c.op /\ r.req = c.req /\ r.row = c.row /\ r.known = c.known
      /\ r.left = c.left /\ r.schema = c.schema /\ r.bare = c.bare /\ r.was = c.was
      /\ r.limit = c.limit /\ r.files = c.files
  BY <1>1, ReplyFields
<1>3. /\ call' \in [Evaluators -> Call] /\ call'[f] = r
      /\ \A e \in Evaluators : e # f => call'[e] = call[e]
  BY <1>1, <1>2, Became
<1> QED
  BY <1>2, <1>3

\* The unique index refuses a second row of a database, and what it lets in
\* is a new row.
LEMMA InsertStep ==
    ASSUME IInv, NEW f \in Evaluators, Insert(f)
    PROVE  OwnCall(f) /\ RowInv'
<1>1. TypeOK /\ RowInv /\ On(f, "insert") /\ call[f] \in Call
  BY RowTypes DEF IInv, Insert
<1>2. RegisterInv(f) /\ call[f].op = "register" /\ Known(f) /\ call[f].known = {}
  BY <1>1 DEF IInv, RegisterInv, On
<1>3. "failed" \in Replies /\ "id" \in Replies
  BY DEF Replies
<1>4. CASE \E id \in Rows : Conflicts(registered[id], call[f].req)
  <2>1. Becomes(f, Reply(call[f], "failed")) /\ registered' = registered
    BY <1>4 DEF Insert
  <2>2. /\ call' \in [Evaluators -> Call]
        /\ \A e \in Evaluators : e # f => call'[e] = call[e]
        /\ call'[f].at = "answered" /\ call'[f].answer = "failed" /\ call'[f].op = "register"
        /\ call'[f].known = {}
    BY <1>1, <1>2, <1>3, <2>1, Replied
  <2>3. CallInv(f)'
    BY <2>2 DEF CallInv, RegisterInv, Known, SchemaInv, QueryInv, On, Schemas
  <2> QED
    BY <1>1, <2>1, <2>2, <2>3, SameRows DEF OwnCall, RowInv, Rows
<1>5. CASE ~\E id \in Rows : Conflicts(registered[id], call[f].req)
  <2> DEFINE n == Len(registered) + 1
  <2>0. PICK c : c = [call[f] EXCEPT !.row = n]
    OBVIOUS
  <2>1. /\ Becomes(f, Reply(c, "id")) /\ registered' = Append(registered, call[f].req)
        /\ Len(registered) < MaxRows
    BY <1>5, <2>0 DEF Insert
  <2>2. /\ registered \in Seq(Registration) /\ call[f].req \in Registration
        /\ Len(registered) \in Nat
    BY <1>1 DEF TypeOK, DatasourceTypeOK, Call
  <2>3. /\ Rows = 1 .. Len(registered) /\ Rows' = 1 .. n /\ registered'[n] = call[f].req
        /\ \A id \in Rows : registered'[id] = registered[id]
    BY <2>1, <2>2 DEF Rows
  <2>4. Extends /\ n \in Rows' /\ n \in Ids
    BY <2>1, <2>2, <2>3, LimitAssumption DEF Extends, Ids
  <2>5. /\ c \in Call /\ c.op = "register" /\ c.row = n /\ c.req = call[f].req /\ c.known = {}
    BY <1>1, <1>2, <2>0, <2>4 DEF Call
  <2>6. /\ call' \in [Evaluators -> Call]
        /\ \A e \in Evaluators : e # f => call'[e] = call[e]
        /\ call'[f].at = "answered" /\ call'[f].answer = "id" /\ call'[f].op = "register"
        /\ call'[f].known = {} /\ call'[f].row = n /\ call'[f].req = call[f].req
    BY <1>1, <1>3, <2>1, <2>5, Replied
  <2>7. CallInv(f)'
    BY <2>3, <2>4, <2>6
       DEF CallInv, RegisterInv, Known, SameDatabase, SchemaInv, QueryInv, On, Schemas
  <2>8. RowInv'
    <3>1. ASSUME NEW i \in Rows', NEW j \in Rows', registered'[i].key = registered'[j].key
          PROVE  i = j
      <4>1. (i \in Rows \/ i = n) /\ (j \in Rows \/ j = n)
        BY <2>2, <2>3
      <4>2. \A id \in Rows : registered'[id].key # call[f].req.key
        BY <1>5, <2>3 DEF Conflicts
      <4> QED
        BY <1>1, <2>3, <3>1, <4>1, <4>2 DEF RowInv
    <3> QED
      BY <3>1 DEF RowInv
  <2> QED
    BY <2>4, <2>6, <2>7, <2>8 DEF OwnCall
<1> QED
  BY <1>4, <1>5

-----------------------------------------------------------------------------
(* get_schema, describe_table and sample_rows.                             *)

\* What a call c that reads the tables knows of them.
Reads(c) ==
    /\ c \in Call /\ c.op \in Schemas /\ c.answer = "none"
    /\ c.row \in Rows /\ c.req = registered[c.row]
    /\ \A t \in Tables : Now(c.row, t) \in c.was[t]
    /\ \A t \in c.schema \ c.bare : TRUE \in c.was[t]
    /\ \A t \in c.bare : FALSE \in c.was[t]

\* No table is forgotten that was there all the time.
Complete(c) ==
    c.op = "schema" => \A t \in Tables : t \in c.schema \cup c.left \/ FALSE \in c.was[t]

LEMMA ReadingCall ==
    ASSUME IInv, NEW f \in Evaluators, call[f].at \in {"list", "check", "read"}
    PROVE  /\ Reads(call[f])
           /\ On(f, "list") => call[f].op = "schema"
           /\ call[f].at \in {"check", "read"} => Complete(call[f]) /\ call[f].left # {}
<1>1. call[f] \in Call /\ SchemaInv(f) /\ QueryInv(f)
  BY RowTypes DEF IInv
<1>2. call[f].op \in Schemas /\ call[f].answer = "none"
  BY <1>1 DEF SchemaInv, QueryInv, On
<1>3. Reads(call[f])
  BY <1>1, <1>2 DEF Reads, SchemaInv
<1> QED
  BY <1>1, <1>3 DEF SchemaInv, Complete, On

\* A call that goes on to read the table, or to look for it.
LEMMA GoesOnReading ==
    ASSUME TypeOK, NEW f \in Evaluators, NEW c, Reads(c), UNCHANGED <<registered, exists>>,
           call' \in [Evaluators -> Call], call'[f] = c,
           \/ c.at \in {"check", "read"} /\ Complete(c) /\ c.left # {}
           \/ c.at = "list" /\ c.op = "schema"
    PROVE  CallInv(f)'
<1>1. Rows' = Rows /\ \A id \in Rows, t \in Tables : Now(id, t)' = Now(id, t)
  BY DEF Rows, Now
<1>2. c.op # "register" /\ c.op # "query" /\ c.op \in Schemas
  BY DEF Reads, Schemas
<1>3. SchemaInv(f)'
  BY <1>1, <1>2 DEF SchemaInv, Reads, Complete, On, Now
<1>4. RegisterInv(f)' /\ QueryInv(f)'
  BY <1>2 DEF RegisterInv, QueryInv, On, Reads
<1> QED
  BY <1>3, <1>4 DEF CallInv

\* A call that has read what it can.
LEMMA StopsReading ==
    ASSUME TypeOK, NEW f \in Evaluators, NEW c, Reads(c), UNCHANGED <<registered, exists>>,
           NEW answer \in {"tables", "rows", "not found", "failed"},
           Becomes(f, Reply(c, answer)),
           answer = "tables" => Complete(c) /\ c.left = {},
           answer = "not found" /\ c.req.type # "postgresql" => \E t \in c.left : FALSE \in c.was[t]
    PROVE  OwnCall(f)
<1>1. c \in Call /\ answer \in Replies /\ c.op \in Schemas
  BY DEF Reads, Replies
<1>2. /\ call' \in [Evaluators -> Call]
      /\ \A e \in Evaluators : e # f => call'[e] = call[e]
      /\ call'[f].at = "answered" /\ call'[f].answer = answer
      /\ call'[f].op = c.op /\ call'[f].req = c.req /\ call'[f].left = c.left
      /\ call'[f].schema = c.schema /\ call'[f].bare = c.bare /\ call'[f].was = c.was
  BY <1>1, Replied
<1>3. SchemaInv(f)'
  BY <1>2 DEF SchemaInv, Reads, Complete, On
<1>4. RegisterInv(f)' /\ QueryInv(f)'
  BY <1>1, <1>2 DEF RegisterInv, QueryInv, On, Schemas
<1> QED
  BY <1>2, <1>3, <1>4, SameRows DEF OwnCall, CallInv

LEMMA Continues ==
    ASSUME TypeOK, NEW f \in Evaluators, NEW c, Reads(c), Complete(c),
           UNCHANGED <<registered, exists>>, Becomes(f, Continue(c))
    PROVE  OwnCall(f)
<1>1. CASE c.left = {}
  BY <1>1, StopsReading DEF Continue
<1>2. CASE c.left # {}
  <2>1. PICK r : r = [c EXCEPT !.at = NextRead(c.op, c.req.type)]
    OBVIOUS
  <2>2. NextRead(c.op, c.req.type) \in {"check", "read"}
    BY DEF NextRead
  <2>3. Becomes(f, r) /\ c \in Call
    BY <1>2, <2>1 DEF Continue, Reads
  <2>4. /\ r \in Call /\ r.at \in {"check", "read"} /\ r.op = c.op /\ r.row = c.row /\ r.req = c.req
        /\ r.was = c.was /\ r.left = c.left /\ r.schema = c.schema /\ r.bare = c.bare
        /\ r.answer = c.answer
    BY <2>1, <2>2, <2>3 DEF Call, Steps
  <2>5. Reads(r) /\ Complete(r)
    BY <2>4 DEF Reads, Complete
  <2>6. /\ call' \in [Evaluators -> Call] /\ call'[f] = r
        /\ \A e \in Evaluators : e # f => call'[e] = call[e]
    BY <2>3, <2>4, Became
  <2>7. CallInv(f)'
    BY <1>2, <2>4, <2>5, <2>6, GoesOnReading
  <2> QED
    BY <2>6, <2>7, SameRows DEF OwnCall
<1> QED
  BY <1>1, <1>2

\* What is seen when a call begins is what there is.
LEMMA SeenNow ==
    ASSUME TypeOK, NEW id \in Rows
    PROVE  /\ Seen(id) \in [Tables -> SUBSET BOOLEAN]
           /\ \A t \in Tables : Now(id, t) \in Seen(id)[t] /\ Now(id, t) \in BOOLEAN
<1>1. \A t \in Tables : Now(id, t) \in BOOLEAN
  BY RowTypes DEF Now
<1> QED
  BY <1>1 DEF Seen, Now

LEMMA ReadSchemaStep ==
    ASSUME IInv, NEW f \in Evaluators, NEW id \in Rows, ReadSchema(f, id)
    PROVE  OwnCall(f)
<1>1. TypeOK /\ UNCHANGED <<registered, exists>>
  BY DEF IInv, ReadSchema
<1>2. PICK c : c = [NoCall EXCEPT !.op = "schema", !.at = "list", !.row = id, !.was = Seen(id),
                                  !.req = registered[id]]
  OBVIOUS
<1>3. id \in Ids /\ registered[id] \in Registration /\ Seen(id) \in [Tables -> SUBSET BOOLEAN]
  BY <1>1, RowTypes, SeenNow
<1>4. /\ c \in Call /\ c.op = "schema" /\ c.at = "list" /\ c.row = id /\ c.was = Seen(id)
      /\ c.req = registered[id] /\ c.schema = {} /\ c.bare = {} /\ c.answer = "none"
  BY <1>2, <1>3, NoCallType, NoCallFields DEF Call, Op2, Steps, Schemas
<1>5. Reads(c)
  BY <1>1, <1>4, SeenNow DEF Reads, Schemas
<1>6. /\ call' \in [Evaluators -> Call] /\ call'[f] = c
      /\ \A e \in Evaluators : e # f => call'[e] = call[e]
  BY <1>1, <1>2, <1>4, Became DEF ReadSchema
<1>7. CallInv(f)'
  BY <1>1, <1>4, <1>5, <1>6, GoesOnReading
<1> QED
  BY <1>1, <1>6, <1>7, SameRows DEF OwnCall

LEMMA ReadTableStep ==
    ASSUME IInv, NEW f \in Evaluators, NEW id \in Rows, NEW t \in Tables,
           NEW op \in {"describe", "sample"}, ReadTable(f, op, id, t)
    PROVE  OwnCall(f)
<1>1. TypeOK /\ UNCHANGED <<registered, exists>>
  BY DEF IInv, ReadTable
<1>2. PICK c : c = [NoCall EXCEPT !.op = op, !.at = NextRead(op, registered[id].type), !.row = id,
                                  !.left = {t}, !.was = Seen(id), !.req = registered[id]]
  OBVIOUS
<1>3. id \in Ids /\ registered[id] \in Registration /\ Seen(id) \in [Tables -> SUBSET BOOLEAN]
      /\ NextRead(op, registered[id].type) \in {"check", "read"}
  BY <1>1, RowTypes, SeenNow DEF NextRead
<1>4. /\ c \in Call /\ c.op = op /\ c.at \in {"check", "read"} /\ c.row = id /\ c.was = Seen(id)
      /\ c.req = registered[id] /\ c.left = {t} /\ c.schema = {} /\ c.bare = {}
      /\ c.answer = "none"
  BY <1>2, <1>3, NoCallType, NoCallFields DEF Call, Op2, Steps, Schemas
<1>5. Reads(c) /\ Complete(c)
  BY <1>1, <1>4, SeenNow DEF Reads, Complete, Schemas
<1>6. /\ call' \in [Evaluators -> Call] /\ call'[f] = c
      /\ \A e \in Evaluators : e # f => call'[e] = call[e]
  BY <1>1, <1>2, <1>4, Became DEF ReadTable
<1>7. CallInv(f)'
  BY <1>1, <1>4, <1>5, <1>6, GoesOnReading
<1> QED
  BY <1>1, <1>6, <1>7, SameRows DEF OwnCall

LEMMA ListStep ==
    ASSUME IInv, NEW f \in Evaluators, ListTables(f)
    PROVE  OwnCall(f)
<1>1. TypeOK /\ UNCHANGED <<registered, exists>> /\ On(f, "list")
  BY DEF IInv, ListTables
<1>2. Reads(call[f]) /\ call[f].op = "schema" /\ call[f] \in Call
  BY <1>1, ReadingCall DEF On, Reads
<1>3. PICK c : c = [call[f] EXCEPT !.left = Listed(call[f].row)]
  OBVIOUS
<1>4. Listed(call[f].row) = {t \in Tables : Now(call[f].row, t)}
  BY DEF Listed, TablesOf, Now
<1>5. /\ c \in Call /\ c.op = "schema" /\ c.row = call[f].row /\ c.req = call[f].req
      /\ c.was = call[f].was /\ c.left = {t \in Tables : Now(call[f].row, t)}
      /\ c.schema = call[f].schema /\ c.bare = call[f].bare /\ c.answer = call[f].answer
  BY <1>2, <1>3, <1>4 DEF Call
<1>6. Reads(c)
  BY <1>2, <1>5 DEF Reads
<1>7. ASSUME NEW t \in Tables, t \notin c.left PROVE FALSE \in c.was[t]
  BY <1>1, <1>2, <1>5, <1>7, SeenNow DEF Reads
<1>8. Complete(c)
  BY <1>7 DEF Complete
<1>9. Becomes(f, Continue(c))
  BY <1>3 DEF ListTables
<1> QED
  BY <1>1, <1>6, <1>8, <1>9, Continues

LEMMA CheckStep ==
    ASSUME IInv, NEW f \in Evaluators, Check(f)
    PROVE  OwnCall(f)
<1>1. TypeOK /\ UNCHANGED <<registered, exists>> /\ On(f, "check")
  BY DEF IInv, Check
<1>2. Reads(call[f]) /\ Complete(call[f]) /\ call[f].left # {} /\ call[f] \in Call
  BY <1>1, ReadingCall DEF On, Reads
<1>3. PICK t : t = First(call[f].left)
  OBVIOUS
<1>4. t \in call[f].left /\ t \in Tables
  BY <1>2, <1>3 DEF First, Call
<1>5. CASE t \in TablesOf(call[f].row)
  <2>1. PICK c : c = [call[f] EXCEPT !.at = "read"]
    OBVIOUS
  <2>2. Becomes(f, c)
    BY <1>3, <1>5, <2>1 DEF Check
  <2>3. /\ c \in Call /\ c.at = "read" /\ c.op = call[f].op /\ c.row = call[f].row
        /\ c.req = call[f].req /\ c.was = call[f].was /\ c.left = call[f].left
        /\ c.schema = call[f].schema /\ c.bare = call[f].bare /\ c.answer = call[f].answer
    BY <1>2, <2>1 DEF Call, Steps
  <2>4. Reads(c) /\ Complete(c)
    BY <1>2, <2>3 DEF Reads, Complete
  <2>5. /\ call' \in [Evaluators -> Call] /\ call'[f] = c
        /\ \A e \in Evaluators : e # f => call'[e] = call[e]
    BY <1>1, <2>2, <2>3, Became
  <2>6. CallInv(f)'
    BY <1>1, <1>2, <2>3, <2>4, <2>5, GoesOnReading
  <2> QED
    BY <1>1, <2>5, <2>6, SameRows DEF OwnCall
<1>6. CASE t \notin TablesOf(call[f].row)
  <2>1. Becomes(f, Reply(call[f], "not found"))
    BY <1>3, <1>6 DEF Check
  <2>2. FALSE \in call[f].was[t]
    BY <1>1, <1>2, <1>4, <1>6, SeenNow DEF TablesOf, Now, Reads
  <2> QED
    BY <1>1, <1>2, <1>4, <2>1, <2>2, StopsReading
<1> QED
  BY <1>5, <1>6

LEMMA ReadStep ==
    ASSUME IInv, NEW f \in Evaluators, Read(f)
    PROVE  OwnCall(f)
<1>1. TypeOK /\ UNCHANGED <<registered, exists>> /\ On(f, "read")
  BY DEF IInv, Read
<1>2. Reads(call[f]) /\ Complete(call[f]) /\ call[f].left # {} /\ call[f] \in Call
  BY <1>1, ReadingCall DEF On, Reads
<1>3. PICK t : t = First(call[f].left)
  OBVIOUS
<1>4. t \in call[f].left /\ t \in Tables
  BY <1>2, <1>3 DEF First, Call
<1>5. PICK done : done = [call[f] EXCEPT !.left = @ \ {t}, !.schema = @ \cup {t}]
  OBVIOUS
<1>6. /\ done \in Call /\ done.op = call[f].op /\ done.row = call[f].row
      /\ done.req = call[f].req /\ done.was = call[f].was /\ done.left = call[f].left \ {t}
      /\ done.schema = call[f].schema \cup {t} /\ done.bare = call[f].bare
      /\ done.answer = call[f].answer
  BY <1>2, <1>4, <1>5 DEF Call
<1>7. Complete(done)
  BY <1>2, <1>6 DEF Complete
<1>8. PICK bare : bare = [done EXCEPT !.bare = @ \cup {t}]
  OBVIOUS
<1>9. /\ bare \in Call /\ bare.op = call[f].op /\ bare.row = call[f].row
      /\ bare.req = call[f].req /\ bare.was = call[f].was /\ bare.left = call[f].left \ {t}
      /\ bare.schema = call[f].schema \cup {t} /\ bare.bare = call[f].bare \cup {t}
      /\ bare.answer = call[f].answer
  BY <1>4, <1>6, <1>8 DEF Call
<1>10. t \in TablesOf(call[f].row) => TRUE \in call[f].was[t]
  BY <1>1, <1>2, <1>4, SeenNow DEF TablesOf, Now, Reads
<1>11. t \notin TablesOf(call[f].row) => FALSE \in call[f].was[t]
  BY <1>1, <1>2, <1>4, SeenNow DEF TablesOf, Now, Reads
<1>12. CASE t \in TablesOf(call[f].row) /\ Becomes(f, Continue(done))
  <2>1. Reads(done)
    BY <1>2, <1>6, <1>10, <1>12 DEF Reads
  <2> QED
    BY <1>1, <1>7, <1>12, <2>1, Continues
<1>13. CASE t \notin TablesOf(call[f].row) /\ Becomes(f, Continue(bare))
  <2>1. Reads(bare) /\ Complete(bare)
    BY <1>2, <1>7, <1>6, <1>9, <1>11, <1>13 DEF Reads, Complete
  <2> QED
    BY <1>1, <1>13, <2>1, Continues
<1>14. CASE call[f].req.type = "postgresql" /\ Becomes(f, Reply(call[f], "not found"))
  BY <1>1, <1>2, <1>14, StopsReading
<1> QED
  BY <1>3, <1>5, <1>8, <1>12, <1>13, <1>14 DEF Read

LEMMA FailsStep ==
    ASSUME IInv, NEW f \in Evaluators, ConnectorFails(f)
    PROVE  OwnCall(f)
<1>1. TypeOK /\ UNCHANGED <<registered, exists>> /\ Becomes(f, Reply(call[f], "failed"))
  BY DEF IInv, ConnectorFails
<1>2. Reads(call[f])
  BY ReadingCall DEF ConnectorFails
<1> QED
  BY <1>1, <1>2, StopsReading

\* A call that ends before it has read anything.
LEMMA DeclinedStep ==
    ASSUME IInv, NEW f \in Evaluators, NEW op \in Schemas \cup {"query"}, Declined(f, op)
    PROVE  OwnCall(f)
<1>1. TypeOK /\ registered' = registered
  BY DEF IInv, Declined, Answered
<1>2. PICK answer \in {"not found", "invalid", "credential required"} :
          Becomes(f, Reply([NoCall EXCEPT !.op = op], answer))
  BY DEF Declined, Answered
<1>3. PICK c : c = [NoCall EXCEPT !.op = op]
  OBVIOUS
<1>4. /\ c \in Call /\ c.op = op /\ c.row = 0 /\ c.schema = {} /\ c.bare = {} /\ answer \in Replies
  BY <1>3, NoCallType, NoCallFields DEF Call, Op2, Schemas, Replies
<1>5. /\ call' \in [Evaluators -> Call]
      /\ \A e \in Evaluators : e # f => call'[e] = call[e]
      /\ call'[f].at = "answered" /\ call'[f].answer = answer /\ call'[f].op = op
      /\ call'[f].row = 0 /\ call'[f].schema = {} /\ call'[f].bare = {}
  BY <1>1, <1>2, <1>3, <1>4, Replied
<1>6. CallInv(f)'
  BY <1>5 DEF CallInv, RegisterInv, SchemaInv, QueryInv, On, Schemas
<1> QED
  BY <1>1, <1>5, <1>6, SameRows DEF OwnCall

-----------------------------------------------------------------------------
(* Queries.                                                                *)

LEMMA QueryRequests ==
    ASSUME NEW valid \in BOOLEAN, NEW limit \in Int, NEW approval \in BOOLEAN
    PROVE  QueryRequest(valid, limit, approval) \in Request
<1>1. (limit <= 0) \in BOOLEAN /\ (limit > MaxLimit) \in BOOLEAN
  BY LimitAssumption
<1> QED
  BY <1>1 DEF QueryRequest, Request, Action, Mount

\* A query that the policy has let pass.
Passed(f) == step[f] = "returned" /\ AsksFor(f) /\ ~Refused(asked[f])

LEMMA QueryCall ==
    ASSUME IInv, NEW f \in Evaluators,
           call[f].at \in {"policy", "text", "credential", "execute", "result"}
    PROVE  /\ call[f] \in Call /\ call[f].op = "query" /\ call[f].answer = "none"
           /\ On(f, "policy") => step[f] # "start" /\ AsksFor(f)
           /\ ~On(f, "policy") => Passed(f)
           /\ call[f].at \in {"credential", "execute", "result"} => "query" \in call[f].files
<1>1. QueryInv(f) /\ call[f] \in Call
  BY RowTypes DEF IInv
<1> QED
  BY <1>1 DEF QueryInv, On, Passed

LEMMA QueryGoesOn ==
    ASSUME TypeOK, NEW f \in Evaluators, Passed(f), NEW c \in Call, Becomes(f, c), UNCHANGED policy,
           registered' = registered,
           c.op = "query", c.answer = "none", c.limit = call[f].limit,
           c.at \in {"text", "credential", "execute", "result"},
           c.at # "text" => "query" \in c.files
    PROVE  OwnCall(f)
<1>1. /\ call' \in [Evaluators -> Call] /\ call'[f] = c
      /\ \A e \in Evaluators : e # f => call'[e] = call[e]
  BY Became
<1>2. asked' = asked /\ step' = step
  BY DEF policy
<1>3. AsksFor(f)'
  BY <1>1, <1>2 DEF Passed, AsksFor
<1>4. QueryInv(f)'
  BY <1>1, <1>2, <1>3 DEF QueryInv, Passed, On
<1>5. RegisterInv(f)' /\ SchemaInv(f)'
  BY <1>1 DEF RegisterInv, SchemaInv, On, Schemas
<1> QED
  BY <1>1, <1>4, <1>5, SameRows DEF OwnCall, CallInv

LEMMA QueryEnds ==
    ASSUME TypeOK, NEW f \in Evaluators, NEW c \in Call, NEW answer \in Replies,
           Becomes(f, Reply(c, answer)), registered' = registered, c.op = "query",
           answer = "refused" => logged'[f], answer = "result" => c.files = {"query", "result"}
    PROVE  OwnCall(f)
<1>1. /\ call' \in [Evaluators -> Call]
      /\ \A e \in Evaluators : e # f => call'[e] = call[e]
      /\ call'[f].at = "answered" /\ call'[f].answer = answer /\ call'[f].op = "query"
      /\ call'[f].files = c.files
  BY Replied
<1>2. CallInv(f)'
  BY <1>1 DEF CallInv, RegisterInv, SchemaInv, QueryInv, On, Schemas
<1> QED
  BY <1>1, <1>2, SameRows DEF OwnCall

LEMMA QueryStep ==
    ASSUME IInv, NEW f \in Evaluators, NEW id \in Rows, NEW valid \in BOOLEAN,
           NEW limit \in Limits \cup {NoLimit}, NEW approval \in BOOLEAN,
           Query(f, id, valid, limit, approval)
    PROVE  OwnCall(f) /\ PolicyStep(f)
<1>1. TypeOK /\ registered' = registered
  BY DEF IInv, Query
<1>2. RowLimit(limit) \in Limits \cup {NoLimit, DefaultLimit} /\ RowLimit(limit) \in Int
  BY LimitAssumption DEF RowLimit, NoLimit
<1>3. PICK r : r = QueryRequest(valid, RowLimit(limit), approval)
  OBVIOUS
<1>4. r \in Request /\ Ask(f, r)
  BY <1>2, <1>3, QueryRequests DEF Query
<1>5. step'[f] = "asked" /\ asked'[f] = r
  BY <1>1, <1>4 DEF Ask, TypeOK, PolicyTypeOK
<1>6. PICK c : c = [NoCall EXCEPT !.op = "query", !.at = "policy", !.row = id,
                                  !.limit = RowLimit(limit)]
  OBVIOUS
<1>7. id \in Ids
  BY <1>1, RowTypes
<1>8. /\ c \in Call /\ c.op = "query" /\ c.at = "policy" /\ c.limit = RowLimit(limit)
      /\ c.answer = "none"
  BY <1>2, <1>6, <1>7, NoCallType, NoCallFields DEF Call, Op2, Steps
<1>9. /\ call' \in [Evaluators -> Call] /\ call'[f] = c
      /\ \A e \in Evaluators : e # f => call'[e] = call[e]
  BY <1>1, <1>6, <1>8, Became DEF Query
<1>10. AsksFor(f)'
  BY <1>3, <1>5, <1>8, <1>9 DEF AsksFor
<1>11. CallInv(f)'
  BY <1>5, <1>8, <1>9, <1>10 DEF CallInv, RegisterInv, SchemaInv, QueryInv, On, Schemas
<1> QED
  BY <1>1, <1>4, <1>9, <1>11, SameRows DEF OwnCall, PolicyStep

\* The steps of a query that only move it on.
LEMMA QueryMoves ==
    ASSUME IInv, NEW f \in Evaluators,
           \/ Decided(f) \/ StoreText(f) \/ Credential(f) \/ Execute(f) \/ StoreResult(f)
           \/ StoreFails(f)
    PROVE  OwnCall(f) /\ UNCHANGED policy
<1>1. TypeOK /\ RefusalsAreLogged /\ registered' = registered /\ UNCHANGED policy
  BY DEF IInv, Decided, StoreText, Credential, Execute, StoreResult, StoreFails
<1>2. {"refused", "failed", "credential required", "result"} \subseteq Replies
  BY DEF Replies
<1>3. CASE Decided(f)
  <2>1. /\ call[f] \in Call /\ call[f].op = "query" /\ call[f].answer = "none"
        /\ step[f] = "returned" /\ AsksFor(f)
    BY <1>3, QueryCall DEF Decided, On
  <2>2. CASE Refused(asked[f])
    <3>1. Becomes(f, Reply(call[f], "refused")) /\ logged'[f]
      BY <1>1, <1>3, <2>1, <2>2 DEF Decided, RefusalsAreLogged, policy
    <3> QED
      BY <1>1, <1>2, <2>1, <3>1, QueryEnds
  <2>3. CASE ~Refused(asked[f])
    <3>1. PICK c : c = [call[f] EXCEPT !.at = "text"]
      OBVIOUS
    <3>2. /\ c \in Call /\ c.at = "text" /\ c.op = "query" /\ c.answer = "none"
          /\ c.limit = call[f].limit
      BY <2>1, <3>1 DEF Call, Steps
    <3>3. Becomes(f, c) /\ Passed(f)
      BY <1>3, <2>1, <2>3, <3>1 DEF Decided, Passed
    <3> QED
      BY <1>1, <3>2, <3>3, QueryGoesOn
  <2> QED
    BY <2>2, <2>3
<1>4. CASE StoreText(f)
  <2>1. call[f] \in Call /\ call[f].op = "query" /\ call[f].answer = "none" /\ Passed(f)
    BY <1>4, QueryCall DEF StoreText, On
  <2>2. PICK c : c = [call[f] EXCEPT !.files = @ \cup {"query"}, !.at = "credential"]
    OBVIOUS
  <2>3. /\ c \in Call /\ c.at = "credential" /\ c.op = "query" /\ c.answer = "none"
        /\ c.limit = call[f].limit /\ "query" \in c.files
    BY <2>1, <2>2 DEF Call, Steps
  <2>4. Becomes(f, c)
    BY <1>4, <2>2 DEF StoreText
  <2> QED
    BY <1>1, <2>1, <2>3, <2>4, QueryGoesOn
<1>5. ASSUME NEW at \in {"execute", "result"}, NEW reply \in {"credential required", "failed"},
             call[f].at \in {"credential", "execute"},
             Becomes(f, [call[f] EXCEPT !.at = at]) \/ Becomes(f, Reply(call[f], reply))
      PROVE  OwnCall(f)
  <2>1. /\ call[f] \in Call /\ call[f].op = "query" /\ call[f].answer = "none" /\ Passed(f)
        /\ "query" \in call[f].files
    BY <1>5, QueryCall DEF On
  <2>2. CASE Becomes(f, Reply(call[f], reply))
    BY <1>1, <1>2, <2>1, <2>2, QueryEnds
  <2>3. CASE Becomes(f, [call[f] EXCEPT !.at = at])
    <3>1. PICK c : c = [call[f] EXCEPT !.at = at]
      OBVIOUS
    <3>2. /\ c \in Call /\ c.at = at /\ c.op = "query" /\ c.answer = "none"
          /\ c.limit = call[f].limit /\ "query" \in c.files
      BY <2>1, <3>1 DEF Call, Steps
    <3> QED
      BY <1>1, <2>1, <2>3, <3>1, <3>2, QueryGoesOn
  <2> QED
    BY <1>5, <2>2, <2>3
<1>6. CASE Credential(f) \/ Execute(f)
  BY <1>1, <1>5, <1>6 DEF Credential, Execute, On
<1>7. CASE StoreResult(f) \/ StoreFails(f)
  <2>1. PICK new \in SUBSET {"query", "result"}, reply \in {"result", "failed"} :
            /\ Becomes(f, Reply([call[f] EXCEPT !.files = @ \cup new], reply))
            /\ On(f, "text") \/ On(f, "result")
            /\ reply = "result" => On(f, "result") /\ new = {"result"}
    BY <1>7 DEF StoreResult, StoreFails
  <2>2. /\ call[f] \in Call /\ call[f].op = "query"
        /\ On(f, "result") => "query" \in call[f].files
    BY <2>1, QueryCall DEF On
  <2>3. PICK c : c = [call[f] EXCEPT !.files = @ \cup new]
    OBVIOUS
  <2>4. c \in Call /\ c.op = "query" /\ c.files = call[f].files \cup new
        /\ call[f].files \subseteq {"query", "result"}
    BY <2>1, <2>2, <2>3 DEF Call
  <2>5. reply = "result" => c.files = {"query", "result"}
    BY <2>1, <2>2, <2>4
  <2>6. Becomes(f, Reply(c, reply)) /\ reply \in Replies
    BY <1>2, <2>1, <2>3
  <2> QED
    BY <1>1, <2>1, <2>4, <2>5, <2>6, QueryEnds
<1> QED
  BY <1>1, <1>3, <1>4, <1>6, <1>7

LEMMA LeaveStep ==
    ASSUME IInv, NEW f \in Evaluators, Leave(f)
    PROVE  OwnCall(f) /\ PolicyStep(f)
<1>1. TypeOK /\ registered' = registered
  BY DEF IInv, Leave
<1>2. /\ call' \in [Evaluators -> Call] /\ call'[f] = NoCall
      /\ \A e \in Evaluators : e # f => call'[e] = call[e]
  BY <1>1, NoCallType, Became DEF Leave
<1>3. CallInv(f)'
  BY <1>2, NoCallFields DEF CallInv, RegisterInv, SchemaInv, QueryInv, On, Schemas
<1> QED
  BY <1>1, <1>2, <1>3, SameRows DEF OwnCall, PolicyStep, Leave

-----------------------------------------------------------------------------
(* Tables come and go.                                                     *)

Note(b, t, here) == [b EXCEPT !.was[t] = @ \cup {here}]

LEMMA Noted ==
    ASSUME NEW t \in Tables, NEW b \in Call, NEW here \in BOOLEAN,
           NEW c, c = Note(b, t, here)
    PROVE  /\ c \in Call
           /\ c.op = b.op /\ c.at = b.at /\ c.req = b.req /\ c.row = b.row /\ c.known = b.known
           /\ c.left = b.left /\ c.schema = b.schema /\ c.bare = b.bare /\ c.limit = b.limit
           /\ c.files = b.files /\ c.answer = b.answer
           /\ c.was[t] = b.was[t] \cup {here}
           /\ \A s \in Tables : s # t => c.was[s] = b.was[s]
<1>1. b.was \in [Tables -> SUBSET BOOLEAN]
  BY DEF Call
<1>2. PICK w : w = [b.was EXCEPT ![t] = @ \cup {here}]
  OBVIOUS
<1>3. /\ w \in [Tables -> SUBSET BOOLEAN] /\ w[t] = b.was[t] \cup {here}
      /\ \A s \in Tables : s # t => w[s] = b.was[s]
  BY <1>1, <1>2
<1>4. c = [b EXCEPT !.was = w]
  BY <1>1, <1>2 DEF Note
<1>5. /\ c \in Call /\ c.was = w
      /\ c.op = b.op /\ c.at = b.at /\ c.req = b.req /\ c.row = b.row /\ c.known = b.known
      /\ c.left = b.left /\ c.schema = b.schema /\ c.bare = b.bare /\ c.limit = b.limit
      /\ c.files = b.files /\ c.answer = b.answer
  BY <1>3, <1>4 DEF Call
<1> QED
  BY <1>3, <1>5

\* The calls that read the database note what becomes of the table, and the
\* other calls do not change.
LEMMA AlterStep ==
    ASSUME IInv, NEW k \in Keys, NEW t \in Tables, Alter(k, t), NEW e \in Evaluators
    PROVE  /\ exists' \in [Keys -> [Tables -> BOOLEAN]]
           /\ call' \in [Evaluators -> Call]
           /\ call[e] = NoCall => call'[e] = NoCall
           /\ CallInv(e)'
<1>1. TypeOK /\ registered' = registered /\ UNCHANGED policy /\ CallInv(e)
  BY DEF IInv, Alter, CallInv
<1>2. /\ exists \in [Keys -> [Tables -> BOOLEAN]] /\ call \in [Evaluators -> Call]
      /\ \A id \in Rows : registered[id] \in Registration /\ registered[id].key \in Keys
  BY <1>1, RowTypes
<1>3. PICK now : now = [exists EXCEPT ![k][t] = ~@]
  OBVIOUS
<1>4. exists' = now
  BY <1>3 DEF Alter
<1>5. /\ exists' \in [Keys -> [Tables -> BOOLEAN]]
      /\ \A j \in Keys, s \in Tables : j # k \/ s # t => exists'[j][s] = exists[j][s]
  BY <1>2, <1>3, <1>4
<1>6. PICK here : here = now[k][t]
  OBVIOUS
<1> DEFINE reads(d) == call[d].op \in Schemas /\ call[d].row # 0 /\ call[d].req.key = k
                       /\ ~On(d, "answered")
<1>7. here \in BOOLEAN
  BY <1>4, <1>5, <1>6
<1>8. call' = [d \in Evaluators |-> IF reads(d) THEN Note(call[d], t, here) ELSE call[d]]
  BY <1>3, <1>6 DEF Alter, Note
<1>9. call' \in [Evaluators -> Call]
  <2> HIDE DEF reads
  <2>1. ASSUME NEW d \in Evaluators
        PROVE  (IF reads(d) THEN Note(call[d], t, here) ELSE call[d]) \in Call
    BY <1>2, <1>7, Noted
  <2> QED
    BY <1>8, <2>1
<1>10. CASE ~reads(e)
  <2>1. call'[e] = call[e]
    BY <1>8, <1>10
  <2>2. call[e].at \in {"list", "check", "read"} => call[e].row \in Rows /\ call[e].req.key # k
    BY <1>1, <1>2, <1>10, RowTypes DEF CallInv, SchemaInv, On
  <2>3. RegisterInv(e)' /\ QueryInv(e)'
    BY <1>1, <2>1 DEF CallInv, RegisterInv, QueryInv, Known, On, Rows, AsksFor, policy
  <2>4. ASSUME call[e].at \in {"list", "check", "read"}, NEW s \in Tables
        PROVE  Now(call[e].row, s)' \in call'[e].was[s]
    <3>1. call[e].row \in Rows /\ call[e].req = registered[call[e].row]
          /\ Now(call[e].row, s) \in call[e].was[s]
      BY <1>1, <2>4 DEF CallInv, SchemaInv
    <3>2. Now(call[e].row, s)' = exists'[registered[call[e].row].key][s]
      BY <1>1, <2>1 DEF Now
    <3>3. registered[call[e].row].key # k /\ registered[call[e].row].key \in Keys
      BY <1>2, <2>2, <2>4, <3>1
    <3>4. Now(call[e].row, s)' = Now(call[e].row, s)
      BY <1>5, <3>2, <3>3 DEF Now
    <3> QED
      BY <2>1, <3>1, <3>4
  <2>5. SchemaInv(e)'
    BY <1>1, <2>1, <2>4 DEF CallInv, SchemaInv, On, Rows
  <2> QED
    BY <1>5, <1>9, <2>1, <2>3, <2>5 DEF CallInv
<1>11. CASE reads(e)
  <2>1. /\ call'[e].op = call[e].op /\ call'[e].at = call[e].at /\ call'[e].req = call[e].req
        /\ call'[e].row = call[e].row /\ call'[e].known = call[e].known
        /\ call'[e].left = call[e].left /\ call'[e].schema = call[e].schema
        /\ call'[e].bare = call[e].bare /\ call'[e].limit = call[e].limit
        /\ call'[e].files = call[e].files /\ call'[e].answer = call[e].answer
        /\ call'[e].was[t] = call[e].was[t] \cup {here}
        /\ \A s \in Tables : s # t => call'[e].was[s] = call[e].was[s]
    <3>1. call'[e] = Note(call[e], t, here) /\ call[e] \in Call
      BY <1>2, <1>8, <1>11
    <3> QED
      BY <1>7, <3>1, Noted
  <2>2. call[e].op \in Schemas /\ ~On(e, "answered") /\ call[e] # NoCall
    BY <1>11, NoCallFields
  <2>3. RegisterInv(e)' /\ QueryInv(e)'
    BY <1>1, <2>1, <2>2 DEF CallInv, RegisterInv, QueryInv, Known, On, Rows, AsksFor, Schemas, policy
  <2>4. \A s \in Tables : call[e].was[s] \subseteq call'[e].was[s]
    BY <2>1
  <2>5. ASSUME call[e].at \in {"list", "check", "read"}, NEW s \in Tables
        PROVE  Now(call[e].row, s)' \in call'[e].was[s]
    <3>1. call[e].row \in Rows /\ call[e].req = registered[call[e].row]
          /\ Now(call[e].row, s) \in call[e].was[s]
      BY <1>1, <2>5 DEF CallInv, SchemaInv
    <3>2. Now(call[e].row, s)' = exists'[registered[call[e].row].key][s]
      BY <1>1, <2>1 DEF Now
    <3>3. CASE s = t /\ registered[call[e].row].key = k
      BY <1>4, <1>6, <2>1, <3>2, <3>3
    <3>4. CASE s # t \/ registered[call[e].row].key # k
      BY <1>2, <1>5, <2>4, <3>1, <3>2, <3>4 DEF Now
    <3> QED
      BY <3>3, <3>4
  <2>6. SchemaInv(e)'
    <3>1. call[e].schema \subseteq Tables /\ call[e].bare \subseteq Tables
      BY <1>2 DEF Call
    <3> QED
      BY <1>1, <2>1, <2>2, <2>4, <2>5, <3>1 DEF CallInv, SchemaInv, On, Rows, Now
  <2> QED
    BY <1>5, <1>9, <2>2, <2>3, <2>6 DEF CallInv
<1> QED
  BY <1>10, <1>11

-----------------------------------------------------------------------------
(* Every step.                                                             *)

LEMMA DatasourceCalls ==
    ASSUME IInv, NEW f \in Evaluators, DatasourceStep(f)
    PROVE  /\ OwnCall(f) /\ PolicyStep(f) /\ exists' = exists /\ RowInv'
           /\ registered' \in Seq(Registration) /\ Len(registered') <= MaxRows
<1>1. OwnCall(f) /\ PolicyStep(f)
  <2>1. ASSUME NEW req \in Registration, Register(f, req) PROVE OwnCall(f) /\ PolicyStep(f)
    BY <2>1, RegisterStep DEF Register, PolicyStep
  <2>2. ASSUME NEW op \in Schemas \cup {"query"}, Declined(f, op) PROVE OwnCall(f) /\ PolicyStep(f)
    BY <2>2, DeclinedStep DEF Declined, Answered, PolicyStep
  <2>3. ASSUME NEW id \in Rows, ReadSchema(f, id) PROVE OwnCall(f) /\ PolicyStep(f)
    BY <2>3, ReadSchemaStep DEF ReadSchema, PolicyStep
  <2>4. ASSUME NEW id \in Rows, NEW t \in Tables, NEW op \in {"describe", "sample"},
               ReadTable(f, op, id, t)
        PROVE  OwnCall(f) /\ PolicyStep(f)
    BY <2>4, ReadTableStep DEF ReadTable, PolicyStep
  <2>5. Find(f) => OwnCall(f) /\ PolicyStep(f)
    BY FindStep DEF Find, PolicyStep
  <2>6. Insert(f) => OwnCall(f) /\ PolicyStep(f)
    BY InsertStep DEF Insert, PolicyStep
  <2>7. ListTables(f) \/ Check(f) \/ Read(f) \/ ConnectorFails(f) => OwnCall(f) /\ PolicyStep(f)
    BY ListStep, CheckStep, ReadStep, FailsStep
       DEF ListTables, Check, Read, ConnectorFails, PolicyStep
  <2>8. Decided(f) \/ StoreText(f) \/ Credential(f) \/ Execute(f) \/ StoreResult(f) \/ StoreFails(f)
            => OwnCall(f) /\ PolicyStep(f)
    BY QueryMoves DEF PolicyStep
  <2> QED
    BY <2>1, <2>2, <2>3, <2>4, <2>5, <2>6, <2>7, <2>8, QueryStep, LeaveStep DEF DatasourceStep
<1>2. exists' = exists
  BY DEF DatasourceStep, Register, Declined, Answered, ReadSchema, ReadTable, Query, Find, Insert,
     ListTables, Check, Read, ConnectorFails, Decided, StoreText, Credential, Execute, StoreResult,
     StoreFails, Leave
<1>3. registered' = registered \/ Insert(f)
  BY DEF DatasourceStep, Register, Declined, Answered, ReadSchema, ReadTable, Query, Find,
     ListTables, Check, Read, ConnectorFails, Decided, StoreText, Credential, Execute, StoreResult,
     StoreFails, Leave
<1>4. /\ registered \in Seq(Registration) /\ Len(registered) <= MaxRows
      /\ call[f].req \in Registration /\ RowInv
  BY RowTypes DEF IInv, TypeOK, DatasourceTypeOK, Call
<1>5. CASE registered' = registered
  BY <1>1, <1>2, <1>4, <1>5 DEF RowInv, Rows
<1>6. CASE Insert(f)
  <2>1. \/ registered' = registered
        \/ registered' = Append(registered, call[f].req) /\ Len(registered) < MaxRows
    BY <1>6 DEF Insert
  <2>2. registered' \in Seq(Registration) /\ Len(registered') <= MaxRows
    BY <1>4, <2>1, LimitAssumption
  <2> QED
    BY <1>1, <1>2, <1>6, <2>2, InsertStep
<1> QED
  BY <1>3, <1>5, <1>6

LEMMA IdleTask == ASSUME NEW e \in Evaluators, task'[e] = NoTask PROVE TaskInv(e)'
  BY TaskFields DEF TaskInv, At

LEMMA IdleCall == ASSUME NEW e \in Evaluators, call'[e] = NoCall PROVE CallInv(e)'
  BY NoCallFields DEF CallInv, RegisterInv, SchemaInv, QueryInv, On, Schemas

\* Whoever calls it, the policy takes the steps of PolicyEngine.tla.
LEMMA PolicySteps == ASSUME IInv, [Next]_vars PROVE [PolicyNext]_policy
<1>1. ASSUME NEW f \in Evaluators, PolicyStep(f) PROVE [PolicyNext]_policy
  BY <1>1 DEF PolicyStep, PolicyNext
<1>2. CASE UNCHANGED vars
  BY <1>2 DEF vars, policy
<1>3. CASE EvaluateNext
  BY <1>3 DEF EvaluateNext, Evaluate, PolicyNext
<1>4. CASE WorkspaceNext
  BY <1>1, <1>4, WorkspaceTasks DEF WorkspaceNext
<1>5. CASE DatasourcesNext
  BY <1>1, <1>5, DatasourceCalls DEF DatasourcesNext, Others, Alter
<1> QED
  BY <1>2, <1>3, <1>4, <1>5 DEF Next

LEMMA PolicyKept ==
    ASSUME IInv, [Next]_vars
    PROVE  PolicyTypeOK' /\ RefusalsAreLogged'
<1>1. [PolicyNext]_policy /\ PolicyTypeOK /\ RefusalsAreLogged
  BY PolicySteps DEF IInv, TypeOK
<1> QED
  BY <1>1, PolicyTypeKept, AuditKept

\* The types follow from what the services keep.
LEMMA TypesKept ==
    ASSUME PolicyTypeOK', WorkspaceTypeOK', DatasourceTypeOK', backend' \in {"first", "second"},
           \A e \in Evaluators : TaskInv(e)' /\ CallInv(e)'
    PROVE  TypeOK'
  BY DEF TypeOK, TaskInv, CallInv, QueryInv

LEMMA EvaluateInv == ASSUME IInv, EvaluateNext PROVE IInv'
<1>1. PICK f \in Evaluators : Evaluate(f) /\ UNCHANGED <<backend, workspace, datasources>>
  BY DEF EvaluateNext
<1>2. /\ backend' = backend /\ node' = node /\ torn' = torn /\ task' = task
      /\ registered' = registered /\ exists' = exists /\ call' = call
  BY <1>1 DEF workspace, datasources
<1>3. PolicyTypeOK' /\ RefusalsAreLogged'
  BY PolicyKept DEF Next
<1>4. WorkspaceTypeOK' /\ DatasourceTypeOK' /\ backend' \in {"first", "second"}
  BY <1>2 DEF IInv, TypeOK, WorkspaceTypeOK, DatasourceTypeOK
<1>5. OneService' /\ FileInv' /\ WholeUnlessDisturbed' /\ RowInv'
  BY <1>2 DEF IInv, OneService, FileInv, Fills, Alone, WholeUnlessDisturbed, Writing, RowInv, Rows, At
<1>6. \A e \in Evaluators : Stands(e)
  BY <1>1, EvaluateStands DEF IInv, TypeOK
<1>7. ASSUME NEW e \in Evaluators PROVE TaskInv(e)' /\ CallInv(e)'
  <2>1. TaskInv(e)'
    BY <1>2, <1>6 DEF IInv, TaskInv, At, Stands, IsFile
  <2> QED
    BY <1>2, <1>6, <2>1, OtherCalls, SameRows DEF IInv, CallInv
<1>8. TypeOK'
  BY <1>3, <1>4, <1>7, TypesKept
<1> QED
  BY <1>3, <1>5, <1>7, <1>8 DEF IInv, CallInv

LEMMA WorkspaceInv == ASSUME IInv, WorkspaceNext PROVE IInv'
<1>1. PICK f \in Evaluators : WorkspaceStep(f)
  BY DEF WorkspaceNext
<1>2. /\ backend = "first" /\ backend' = "first"
      /\ registered' = registered /\ exists' = exists /\ call' = call
  BY DEF WorkspaceNext, datasources
<1>3. PolicyTypeOK' /\ RefusalsAreLogged'
  BY PolicyKept DEF Next
<1>4. PICK t : TaskStep(f, t)
  BY <1>1, WorkspaceTasks
<1>5. WorkspaceTypeOK'
  BY <1>4 DEF TaskStep, WorkspaceTypeOK, IInv, TypeOK, Task
<1>6. DatasourceTypeOK' /\ RowInv'
  BY <1>2 DEF IInv, TypeOK, DatasourceTypeOK, RowInv, Rows
<1>7. \A e \in Evaluators : call'[e] = NoCall
  BY <1>2 DEF IInv, OneService
<1>8. \A e \in Evaluators : TaskInv(e)' /\ CallInv(e)'
  BY <1>1, <1>7, WorkspaceTasks, IdleCall
<1>9. TypeOK'
  BY <1>2, <1>3, <1>5, <1>6, <1>8, TypesKept
<1>10. OneService'
  BY <1>2, <1>7 DEF OneService
<1>11. FileInv' /\ WholeUnlessDisturbed'
  BY <1>1, WorkspaceFiles
<1> QED
  BY <1>3, <1>6, <1>8, <1>9, <1>10, <1>11 DEF IInv, CallInv

LEMMA DatasourcesInv == ASSUME IInv, DatasourcesNext PROVE IInv'
<1>1. /\ backend = "second" /\ backend' = "second"
      /\ node' = node /\ torn' = torn /\ task' = task
  BY DEF DatasourcesNext, workspace
<1>2. PolicyTypeOK' /\ RefusalsAreLogged'
  BY PolicyKept DEF Next
<1>3. WorkspaceTypeOK' /\ FileInv' /\ WholeUnlessDisturbed'
  BY <1>1 DEF IInv, TypeOK, WorkspaceTypeOK, FileInv, Fills, Alone, WholeUnlessDisturbed, Writing, At
<1>4. \A e \in Evaluators : task'[e] = NoTask
  BY <1>1 DEF IInv, OneService
<1>5. OneService'
  BY <1>1, <1>4 DEF OneService
<1>6. DatasourceTypeOK' /\ RowInv' /\ \A e \in Evaluators : CallInv(e)'
  <2>1. CASE Others
    <3>1. PICK k \in Keys, t \in Tables : Alter(k, t)
      BY <2>1 DEF Others
    <3>2. \A e \in Evaluators : CallInv(e)'
      BY <3>1, AlterStep
    <3>3. exists' \in [Keys -> [Tables -> BOOLEAN]]
      BY <3>1, RowTypes DEF Alter, IInv
    <3>4. call' \in [Evaluators -> Call]
      <4>1. CASE Evaluators = {}
        BY <3>1, <4>1 DEF Alter
      <4> QED
        BY <3>1, <4>1, AlterStep
    <3>5. registered' = registered /\ RowInv'
      BY <3>1 DEF Alter, IInv, RowInv, Rows
    <3> QED
      BY <3>1, <3>2, <3>3, <3>4, <3>5 DEF Alter, IInv, TypeOK, DatasourceTypeOK, Call
  <2>2. ASSUME NEW f \in Evaluators, DatasourceStep(f)
        PROVE  DatasourceTypeOK' /\ RowInv' /\ \A e \in Evaluators : CallInv(e)'
    <3>1. /\ OwnCall(f) /\ PolicyStep(f) /\ exists' = exists /\ RowInv'
          /\ registered' \in Seq(Registration) /\ Len(registered') <= MaxRows
      BY <2>2, DatasourceCalls
    <3>2. DatasourceTypeOK'
      BY <3>1 DEF IInv, TypeOK, DatasourceTypeOK, OwnCall, Call
    <3>3. ASSUME NEW e \in Evaluators, e # f PROVE CallInv(e)'
      BY <3>1, <3>3, OtherCalls, OthersStand DEF IInv, TypeOK, OwnCall, CallInv, PolicyStep
    <3> QED
      BY <3>1, <3>2, <3>3 DEF OwnCall
  <2> QED
    BY <2>1, <2>2 DEF DatasourcesNext
<1>7. \A e \in Evaluators : TaskInv(e)' /\ CallInv(e)'
  BY <1>4, <1>6, IdleTask
<1>8. TypeOK'
  BY <1>1, <1>2, <1>3, <1>6, <1>7, TypesKept
<1> QED
  BY <1>2, <1>3, <1>5, <1>6, <1>7, <1>8 DEF IInv, CallInv

LEMMA InitInv == Init => IInv
<1> SUFFICES ASSUME Init PROVE IInv
  OBVIOUS
<1>1. PolicyTypeOK /\ RefusalsAreLogged
  BY DEF Init, PolicyInit, PolicyTypeOK, RefusalsAreLogged, NoRequest, Request, Action, Mount
<1>2. /\ \A e \in Evaluators : task[e] = NoTask /\ call[e] = NoCall
      /\ backend \in {"first", "second"}
  BY DEF Init, WorkspaceInit, DatasourcesInit
<1>3. WorkspaceTypeOK
  BY TaskTypes DEF Init, WorkspaceInit, WorkspaceTypeOK, Task
<1>4. DatasourceTypeOK
  <2>1. registered \in Seq(Registration) /\ Len(registered) = 0
    BY DEF Init, DatasourcesInit
  <2> QED
    BY <2>1, NoCallType, LimitAssumption DEF Init, DatasourcesInit, DatasourceTypeOK, Call
<1>5. TypeOK
  BY <1>1, <1>2, <1>3, <1>4, TaskFields, NoCallFields DEF TypeOK, At, On
<1>6. FileInv /\ WholeUnlessDisturbed
  <2>1. \A p \in Files : node[p] \in {"dir", "absent"}
    BY DEF Init, WorkspaceInit
  <2>2. \A e \in Evaluators : ~At(e, "fill")
    BY <1>2, TaskFields DEF At
  <2> QED
    BY <2>1, <2>2 DEF FileInv, Fills, WholeUnlessDisturbed
<1>7. RowInv
  BY DEF Init, DatasourcesInit, RowInv, Rows
<1>8. ASSUME NEW e \in Evaluators
      PROVE  TaskInv(e) /\ RegisterInv(e) /\ SchemaInv(e) /\ QueryInv(e)
  BY <1>2, TaskFields, NoCallFields DEF TaskInv, RegisterInv, SchemaInv, QueryInv, At, On, Schemas
<1> QED
  BY <1>1, <1>2, <1>5, <1>6, <1>7, <1>8 DEF IInv, OneService

LEMMA UnchangedInv == ASSUME IInv, UNCHANGED vars PROVE IInv'
<1>1. /\ backend' = backend /\ node' = node /\ torn' = torn /\ task' = task
      /\ registered' = registered /\ exists' = exists /\ call' = call
      /\ asked' = asked /\ step' = step /\ logged' = logged
  BY DEF vars, policy, workspace, datasources
<1>2. TypeOK' /\ RefusalsAreLogged' /\ OneService'
  BY <1>1 DEF IInv, TypeOK, PolicyTypeOK, WorkspaceTypeOK, DatasourceTypeOK, RefusalsAreLogged,
     OneService, At, On, Refused
<1>3. FileInv' /\ WholeUnlessDisturbed' /\ RowInv'
  BY <1>1 DEF IInv, FileInv, Fills, Alone, WholeUnlessDisturbed, Writing, RowInv, Rows, At
<1>4. ASSUME NEW e \in Evaluators PROVE TaskInv(e)' /\ CallInv(e)'
  <2>1. TaskInv(e)'
    BY <1>1 DEF IInv, TaskInv, At, IsFile
  <2> QED
    BY <1>1, <2>1, OtherCalls, SameRows, SameStands DEF IInv, CallInv, policy
<1> QED
  BY <1>2, <1>3, <1>4 DEF IInv, CallInv

LEMMA Invariance == Spec => []IInv
<1>1. IInv /\ [Next]_vars => IInv'
  BY EvaluateInv, WorkspaceInv, DatasourcesInv, UnchangedInv DEF Next
<1> QED
  BY <1>1, InitInv, PTL DEF Spec

-----------------------------------------------------------------------------
(* Theorems.                                                               *)

\* The fields keep their types, and nobody waits for a decision that nobody
\* asked for.
THEOREM TypeCorrect == Spec => []TypeOK
<1>1. IInv => TypeOK
  BY DEF IInv
<1> QED
  BY <1>1, Invariance, PTL

\* The policy that answers the services is the one of PolicyEngine.tla: their
\* calls take no other steps in it than its own.
THEOREM ClientsUsePolicy == Spec => PolicySpec
<1>1. Init => PolicyInit
  BY DEF Init
<1>2. IInv /\ [Next]_vars => [PolicyNext]_policy
  BY PolicySteps
<1> QED
  BY <1>1, <1>2, Invariance, PTL DEF Spec, PolicySpec

\* No approval id opens what the policy blocks, for the requests that the
\* services make of it.
THEOREM ClientsStayBlocked == Spec => []BlockedStaysBlocked
  BY ClientsUsePolicy, Blocking, PTL

\* write_text tears a file only when two writers meet at it or one dies, for
\* any number of callers and any paths (workspace_storage_service.py).
THEOREM FilesAreWhole == Spec => []WholeUnlessDisturbed
<1>1. IInv => WholeUnlessDisturbed
  BY DEF IInv
<1> QED
  BY <1>1, Invariance, PTL

\* register takes the datasource it knows, however many register at once.
THEOREM KnownDatasources == Spec => []KnownIsTaken
<1>1. ASSUME IInv PROVE KnownIsTaken
  <2>1. ASSUME NEW e \in Evaluators, call[e].op = "register", On(e, "answered")
        PROVE  /\ call[e].answer = "id" => SameDatabase(registered[call[e].row], call[e].req)
               /\ call[e].known # {} => call[e].answer = "id" /\ call[e].row \in call[e].known
    BY <1>1, <2>1 DEF IInv, RegisterInv
  <2> QED
    BY <1>1, <2>1 DEF IInv, RowInv, KnownIsTaken
<1> QED
  BY <1>1, Invariance, PTL

\* A schema that is read table by table is true of its time, for any tables,
\* however others change them and wherever the connector fails.
THEOREM SchemasOfTheirTime == Spec => []SchemaIsOfItsTime
<1>1. IInv => SchemaIsOfItsTime
  BY DEF IInv, SchemaInv, SchemaIsOfItsTime
<1> QED
  BY <1>1, Invariance, PTL

\* Refusals are on record before they are answered, and nothing is written or
\* executed without the policy's word.
THEOREM RecordedAnswers == Spec => []AnswersAreOnRecord
<1>1. ASSUME IInv, NEW e \in Evaluators
      PROVE  /\ task[e].answer = "refused" \/ call[e].answer = "refused" => logged[e]
             /\ call[e].answer = "result" => call[e].files = {"query", "result"}
  BY <1>1 DEF IInv, TaskInv, QueryInv
<1>2. ASSUME IInv, NEW e \in Evaluators, At(e, "open") \/ At(e, "fill")
      PROVE  /\ Head(task[e].path) = "workspace" /\ asked[e].mount = "elsewhere"
             /\ Decide(asked[e]) = "allowed"
  <2>1. /\ task[e].path \in Files /\ asked[e] = FileRequest(task[e].op, task[e].path)
        /\ ~Refused(asked[e])
    BY <1>2 DEF IInv, TaskInv, At
  <2>2. Head(task[e].path) = "workspace"
    BY <2>1 DEF Files
  <2>3. Decide(asked[e]) = "allowed"
    BY <2>1 DEF Refused
  <2>4. asked[e].mount # "secrets"
    BY <2>3 DEF Decide
  <2> QED
    BY <2>1, <2>2, <2>3, <2>4 DEF FileRequest
<1>3. ASSUME IInv, NEW e \in Evaluators, On(e, "execute") \/ On(e, "result")
      PROVE  /\ Decide(asked[e]) = "allowed" /\ ~asked[e].invalid
             /\ call[e].limit \in 1 .. MaxLimit
             /\ "query" \in call[e].files
  <2>1. /\ Passed(e) /\ call[e] \in Call /\ "query" \in call[e].files
    BY <1>3, QueryCall DEF On
  <2>2. PICK valid \in BOOLEAN, approval \in BOOLEAN :
            asked[e] = QueryRequest(valid, call[e].limit, approval)
    BY <2>1 DEF Passed, AsksFor
  <2>3. call[e].limit \in Int
    <3>1. Limits \cup {NoLimit, DefaultLimit} \subseteq Int
      BY LimitAssumption DEF NoLimit
    <3> QED
      BY <2>1, <3>1 DEF Call
  <2>4. /\ asked[e].action = "sql.run" /\ asked[e].mount = "elsewhere"
        /\ asked[e].invalid = (~valid \/ call[e].limit <= 0)
        /\ asked[e].over = (call[e].limit > MaxLimit)
    BY <2>2 DEF QueryRequest
  <2>5. Decide(asked[e]) = "allowed"
    BY <2>1 DEF Passed, Refused
  <2>6. Decide(asked[e]) = QueryVerdict(asked[e])
    BY <2>4 DEF Decide
  <2>7. ~asked[e].invalid /\ ~asked[e].over
    BY <2>5, <2>6 DEF QueryVerdict
  <2>8. ~(call[e].limit <= 0) /\ ~(call[e].limit > MaxLimit)
    BY <2>4, <2>7
  <2> QED
    BY <2>1, <2>3, <2>5, <2>7, <2>8, LimitAssumption
<1>4. IInv => AnswersAreOnRecord
  BY <1>1, <1>2, <1>3 DEF AnswersAreOnRecord
<1> QED
  BY <1>4, Invariance, PTL
=============================================================================
