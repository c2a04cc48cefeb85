----------------------------- MODULE Workspace -----------------------------
(***************************************************************************)
(* Workspace: logical paths, the mounts behind them, and the files of the  *)
(* one mount that can be written.                                          *)
(*                                                                         *)
(* A path is the sequence of its parts.  Every call resolves its path,     *)
(* asks the policy (PolicyEngine.tla) and then works on the mount.  The    *)
(* files below /workspace are modelled; what the other mounts hold is      *)
(* not, so a read of one finds something or does not.  A text is           *)
(* identified with its writer.  preview is a read, for all the modelled    *)
(* state is concerned, and symbolic links are left out.                    *)
(***************************************************************************)
EXTENDS PolicyEngine, Integers, Sequences

CONSTANT Paths  \* the paths callers name

\* A text is told from what a path without one is, and from an answer.
ASSUME EvaluatorAssumption ==
    Evaluators \cap {"absent", "dir", "empty", "mixed", "refused"} = {}

VARIABLES
    node,  \* node[p] : what the path p below /workspace is
    torn,  \* torn[p] : whether a writer of p met another one, or died (history)
    task   \* task[e] : the call that e is in

workspace == <<node, torn, task>>

-----------------------------------------------------------------------------
(* Paths.                                                                  *)

Mounts == {"workspace", "artifacts", "catalog", "memory", "skills", "exports"}

\* The parts that are "secrets" in some case, and those that begin with it.
SecretParts == {"secrets", "SECRETS"}
SecretLike == SecretParts \cup {"secrets_plan"}

\* What normalize_logical_path raises POLICY_BLOCKED for.  "C:" stands for
\* the drive of a host path; behind a leading slash it is a mount like any
\* other name.
Rejected(path) ==
    \/ path # <<>> /\ Head(path) = "C:"
    \/ \E i \in DOMAIN path : path[i] \in {"..", "~"} \cup SecretParts

\* Where normalize_logical_path and WorkspaceRouter.resolve end: in an
\* answer, or in a mount.
Resolved(op, path) ==
    CASE Rejected(path)                            -> "path blocked"
      [] path = <<>> /\ op = "list"                -> "entries"
      [] path = <<>> /\ op # "list"                -> "invalid"
      [] path # <<>> /\ Head(path) \notin Mounts   -> "not found"
      [] OTHER                                     -> "mount"

\* The request the mount makes of the policy.  No verdict on it looks at an
\* approval, so none is brought.
FileRequest(op, path) ==
    [action   |-> IF op = "write" THEN "workspace.write" ELSE "plain",
     mount    |-> IF \E i \in DOMAIN path : path[i] \in SecretLike THEN "secrets"
                  ELSE IF Head(path) = "workspace" THEN "elsewhere" ELSE Head(path),
     invalid  |-> FALSE, over |-> FALSE, local |-> FALSE, approval |-> FALSE]

-----------------------------------------------------------------------------
(* State.                                                                  *)

Files == {path \in Paths : Resolved("read", path) = "mount" /\ Head(path) = "workspace"}

Root == <<"workspace">>

Parent(path) == SubSeq(path, 1, Len(path) - 1)

Texts == Evaluators \cup {"empty", "mixed"}

IsFile(p) == node[p] \in Texts

Op == {"list", "read", "write", "exists"}

NoTask == [op |-> "none", path |-> <<>>, at |-> "idle", existed |-> FALSE, answer |-> "none"]

Doing(op, path, at, existed) ==
    [op |-> op, path |-> path, at |-> at, existed |-> existed, answer |-> "none"]

Told(answer) == [NoTask EXCEPT !.at = "answered", !.answer = answer]

Writing(p) == {e \in Evaluators : task[e].at = "fill" /\ task[e].path = p}

Answers == {"none", "path blocked", "refused", "invalid", "not found", "found", "entries",
            "yes", "no", "created", "overwritten", "failed"} \cup Texts

WorkspaceTypeOK ==
    /\ node \in [Files -> {"absent", "dir"} \cup Texts]
    /\ torn \in [Files -> BOOLEAN]
    /\ task \in [Evaluators ->
           [op : Op \cup {"none"}, path : Paths \cup {<<>>},
            at : {"idle", "policy", "look", "mkdir", "open", "fill", "text", "answered"},
            existed : BOOLEAN, answer : Answers]]

WorkspaceInit ==
    /\ node = [p \in Files |-> IF p = Root THEN "dir" ELSE "absent"]
    /\ torn = [p \in Files |-> FALSE]
    /\ task = [e \in Evaluators |-> NoTask]

Step(e, t) == task' = [task EXCEPT ![e] = t]

Tell(e, answer) == Step(e, Told(answer))

Move(e, at) == Step(e, Doing(task[e].op, task[e].path, at, task[e].existed))

At(e, at) == task[e].at = at

-----------------------------------------------------------------------------
(* A call, up to the mount.                                                *)

\* The call is answered by the path alone: nobody asks the policy.
CallAnswered(e, op, path) ==
    /\ At(e, "idle")
    /\ op # "exists" /\ Resolved(op, path) # "mount"
    /\ Step(e, Told(Resolved(op, path)))
    /\ UNCHANGED <<node, torn, policy>>

\* exists makes FALSE of every error, and asks no policy either, save that the
\* memory mount reads the record.  What the other mounts answer is not modelled.
AsksPolicy(op, path) == Resolved(op, path) = "mount" /\ (op = "exists" => Head(path) = "memory")

CallExists(e, path) ==
    /\ At(e, "idle")
    /\ ~AsksPolicy("exists", path)
    /\ \E found \in {"yes", "no"} :
           /\ Resolved("exists", path) # "mount" => found = "no"
           /\ path \in Files => (found = "yes" <=> node[path] # "absent")
           /\ Step(e, Told(found))
    /\ UNCHANGED <<node, torn, policy>>

CallMount(e, op, path) ==
    /\ At(e, "idle")
    /\ AsksPolicy(op, path)
    /\ Ask(e, FileRequest(op, path))
    /\ Step(e, Doing(op, path, "policy", FALSE))
    /\ UNCHANGED <<node, torn>>

\* enforce returns or raises.  A mount other than /workspace refuses every
\* write that the policy would let through.
Enforced(e) ==
    /\ At(e, "policy") /\ step[e] = "returned"
    /\ IF task[e].op = "exists" THEN \E found \in {"yes", "no"} :
           (Refused(asked[e]) => found = "no") /\ Tell(e, found)
       ELSE IF Refused(asked[e]) THEN Tell(e, "refused")
       ELSE IF task[e].path \in Files THEN Move(e, "look")
       ELSE IF task[e].op = "write" THEN Tell(e, "path blocked")
       ELSE \E answer \in {"found", "not found", "invalid"} : Tell(e, answer)
    /\ UNCHANGED <<node, torn, policy>>

-----------------------------------------------------------------------------
(* The directory of /workspace.                                            *)

\* list and read_text look at the path, and read_text opens it in a step of
\* its own; write_text remembers whether there was something to overwrite.
Look(e) ==
    LET p == task[e].path IN
    /\ At(e, "look")
    /\ CASE task[e].op = "list"  -> Tell(e, IF node[p] = "absent" THEN "not found" ELSE "entries")
         [] task[e].op = "read"  -> IF IsFile(p) THEN Move(e, "text") ELSE Tell(e, "not found")
         [] task[e].op = "write" -> Step(e, Doing("write", p, "mkdir", node[p] # "absent"))
    /\ UNCHANGED <<node, torn, policy>>

ReadText(e) ==
    /\ At(e, "text")
    /\ Tell(e, node[task[e].path])
    /\ UNCHANGED <<node, torn, policy>>

\* host.parent.mkdir fails when a file stands there.  The parent of the mount
\* itself is not in the mount: ensure_child_path refuses it.
MakeParent(e) ==
    LET q == Parent(task[e].path) IN
    /\ At(e, "mkdir")
    /\ CASE q = <<>>              -> Tell(e, "path blocked") /\ UNCHANGED node
         [] q # <<>> /\ IsFile(q) -> Tell(e, "failed") /\ UNCHANGED node
         [] OTHER -> /\ Move(e, "open")
                     /\ node' = IF node[q] = "absent" THEN [node EXCEPT ![q] = "dir"] ELSE node
    /\ UNCHANGED <<torn, policy>>

\* Mutant: the file is opened without truncating it.
Kept(content) == IF content = "absent" THEN "empty" ELSE content

\* What open(..., "w") leaves of the file.
Opened(content) == "empty"

Open(e) ==
    LET p == task[e].path IN
    /\ At(e, "open")
    /\ IF node[p] = "dir"
       THEN Tell(e, "failed") /\ UNCHANGED <<node, torn>>
       ELSE /\ node' = [node EXCEPT ![p] = Opened(node[p])]
            /\ torn' = [torn EXCEPT ![p] = Writing(p) # {}]
            /\ Move(e, "fill")
    /\ UNCHANGED policy

\* The text is written from the start of the file.  Over another text the
\* shorter one leaves the end of the longer one behind it.
Fill(e) ==
    LET p == task[e].path IN
    /\ At(e, "fill")
    /\ \E text \in IF node[p] = "empty" THEN {e} ELSE {e, "mixed"} :
           node' = [node EXCEPT ![p] = text]
    /\ Tell(e, IF task[e].existed THEN "overwritten" ELSE "created")
    /\ UNCHANGED <<torn, policy>>

\* The answer is delivered.
Delivered(e) ==
    /\ At(e, "answered")
    /\ Step(e, NoTask)
    /\ Forget(e)
    /\ UNCHANGED <<node, torn>>

\* The process of e dies.
Die(e) ==
    /\ ~At(e, "idle")
    /\ torn' = IF At(e, "fill") THEN [torn EXCEPT ![task[e].path] = TRUE] ELSE torn
    /\ Step(e, NoTask)
    /\ Forget(e)
    /\ UNCHANGED node

WorkspaceStep(e) ==
    \/ \E path \in Paths :
           \/ CallExists(e, path)
           \/ \E op \in Op : CallAnswered(e, op, path) \/ CallMount(e, op, path)
    \/ Enforced(e) \/ Look(e) \/ ReadText(e) \/ MakeParent(e) \/ Open(e) \/ Fill(e)
    \/ Delivered(e) \/ Die(e)

-----------------------------------------------------------------------------
(* Properties.                                                             *)

\* write_text truncates and then writes, under no lock: a file is empty, or
\* holds pieces of two texts, only when two writers of it met or one died
\* half way, and a write that meets nobody makes it whole again.
WholeUnlessDisturbed ==
    \A p \in Files : node[p] \in {"empty", "mixed"} => torn[p] \/ Writing(p) # {}
=============================================================================
