------------------------------- MODULE Sandbox --------------------------------
(***************************************************************************)
(* LocalPythonSandboxExecutor and DockerSandboxExecutor: run_python, from  *)
(* the policy decision to the answer, beside the process that runs the     *)
(* code.                                                                   *)
(*                                                                         *)
(* The executor writes a start log, starts the process, waits for it no    *)
(* longer than its timeout, registers the files it left as artifacts, then *)
(* a log artifact that lists them, writes a finish log and answers.  The   *)
(* process may leave descendants that the executor does not kill: they are *)
(* in a session of their own, or `docker rm -f` failed, or the executor    *)
(* itself was killed.  They go on writing.                                 *)
(*                                                                         *)
(* ArtifactRegistry has the details of a registration; here it succeeds,   *)
(* is rejected with a BackendError (its policy check), or fails otherwise  *)
(* (a locked database, a file that is gone).                               *)
(***************************************************************************)

CONSTANTS
    Execs,      \* executions, one for each call of run_python
    Workspace,  \* files of the workspace directory
    Outputs,    \* files of the outputs directory
    Log         \* the log artifact

ASSUME FileAssumption == Workspace \cap Outputs = {} /\ Log \notin Workspace \cup Outputs

VARIABLES
    kept,       \* kept      : executions with sandbox_keep_run_dirs
    at,         \* at[e]     : where the executor is in run_python
    status,     \* status[e] : ExecutionStatus, "none" as long as there is none
    todo,       \* todo[e]   : listed files that are still to be registered
    ids,        \* ids[e]    : generated_artifact_ids
    process,    \* process[e]: the process that runs the code
    disk,       \* disk[e]   : files in workspace and outputs
    logs,       \* logs[e]   : files in the logs directory
    rows,       \* rows[e]   : artifacts of the execution in the registry
    told        \* told[e]   : artifacts that the log artifact lists

vars == <<kept, at, status, todo, ids, process, disk, logs, rows, told>>

Files == Workspace \cup Outputs

Refused == {"approval_required", "policy_blocked", "invalid"}

\* The steps of run_python.  A raised call is one that an exception ended.
Step == {"policy", "prepared", "logged", "running", "list workspace", "workspace",
         "list outputs", "outputs", "log", "finish", "clean"}
Over == {"answered", "raised", "killed"}

TypeOK ==
    /\ kept \in SUBSET Execs
    /\ at \in [Execs -> Step \cup Over]
    /\ status \in [Execs -> Refused \cup {"none", "success", "error", "timeout"}]
    /\ todo \in [Execs -> SUBSET Files]
    /\ ids \in [Execs -> SUBSET (Files \cup {Log})]
    /\ process \in [Execs -> {"none", "running", "gone", "loose"}]
    /\ disk \in [Execs -> SUBSET Files]
    /\ logs \in [Execs -> SUBSET {"start", "finish"}]
    /\ rows \in [Execs -> SUBSET (Files \cup {Log})]
    /\ told \in [Execs -> SUBSET Files]

Init ==
    /\ kept \in SUBSET Execs
    /\ at = [e \in Execs |-> "policy"]
    /\ status = [e \in Execs |-> "none"]
    /\ process = [e \in Execs |-> "none"]
    /\ todo = [e \in Execs |-> {}] /\ ids = [e \in Execs |-> {}]
    /\ disk = [e \in Execs |-> {}] /\ logs = [e \in Execs |-> {}]
    /\ rows = [e \in Execs |-> {}] /\ told = [e \in Execs |-> {}]

Goto(e, step) == at' = [at EXCEPT ![e] = step]
Settle(e, s)  == status' = [status EXCEPT ![e] = s]

-------------------------------------------------------------------------------
(* Up to the start of the process.                                         *)

\* Not allowed, or a timeout out of range: an answer and nothing else.
Refuse(e, s) ==
    /\ at[e] = "policy"
    /\ Goto(e, "answered") /\ Settle(e, s)
    /\ UNCHANGED <<kept, todo, ids, process, disk, logs, rows, told>>

\* _prepare_run_dir: the directories of the run, its code and its inputs.
Prepare(e) ==
    /\ at[e] = "policy"
    /\ Goto(e, "prepared")
    /\ UNCHANGED <<kept, status, todo, ids, process, disk, logs, rows, told>>

\* Mutant: the process is started before its start log is written.
Unlogged == "prepared"

\* Where the process is started.
StartAt == "logged"

LogStart(e) ==
    /\ at[e] = "prepared"
    /\ Goto(e, "logged")
    /\ logs' = [logs EXCEPT ![e] = @ \cup {"start"}]
    /\ UNCHANGED <<kept, status, todo, ids, process, disk, rows, told>>

Start(e) ==
    /\ at[e] = StartAt
    /\ Goto(e, "running")
    /\ process' = [process EXCEPT ![e] = "running"]
    /\ UNCHANGED <<kept, status, todo, ids, disk, logs, rows, told>>

\* FileNotFoundError: no interpreter, no docker.
NoInterpreter(e) ==
    /\ at[e] = StartAt
    /\ Goto(e, "list workspace") /\ Settle(e, "error")
    /\ UNCHANGED <<kept, todo, ids, process, disk, logs, rows, told>>

-------------------------------------------------------------------------------
(* The process.                                                            *)

\* It, or what it has left behind, creates or deletes a file.
Touch(e, f) ==
    /\ process[e] \in {"running", "loose"}
    /\ disk' = [disk EXCEPT ![e] = IF f \in @ THEN @ \ {f} ELSE @ \cup {f}]
    /\ UNCHANGED <<kept, at, status, todo, ids, process, logs, rows, told>>

\* remains says whether all of it is gone.
End(e, s, remains) ==
    /\ at[e] = "running"
    /\ process' = [process EXCEPT ![e] = remains]
    /\ Goto(e, "list workspace") /\ Settle(e, s)
    /\ UNCHANGED <<kept, todo, ids, disk, logs, rows, told>>

\* It exits by itself.
Exit(e, s, remains) == End(e, s, remains)

\* Mutant: no timeout is set.
Patient(e, remains) == FALSE /\ End(e, "timeout", remains)

\* communicate times out: the process and its group are killed.
TimeOut(e, remains) == End(e, "timeout", remains)

-------------------------------------------------------------------------------
(* Registration.  Each directory is listed when its turn comes.            *)

\* Mutant: the workspace alone is looked at.
WorkspaceOnly(root) == "log"

After(root) == IF root = "workspace" THEN "list outputs" ELSE "log"

Root == {"workspace", "outputs"}
In(root) == IF root = "workspace" THEN Workspace ELSE Outputs
Listing(root) == IF root = "workspace" THEN "list workspace" ELSE "list outputs"

List(e, root) ==
    /\ at[e] = Listing(root)
    /\ Goto(e, root)
    /\ todo' = [todo EXCEPT ![e] = disk[e] \cap In(root)]
    /\ UNCHANGED <<kept, status, ids, process, disk, logs, rows, told>>

\* register_artifact for one file, which has to be there still.
Register(e, f) ==
    /\ at[e] \in Root /\ f \in todo[e] /\ f \in disk[e]
    /\ rows' = [rows EXCEPT ![e] = @ \cup {f}]
    /\ ids' = [ids EXCEPT ![e] = @ \cup {f}]
    /\ todo' = [todo EXCEPT ![e] = @ \ {f}]
    /\ UNCHANGED <<kept, at, status, process, disk, logs, told>>

Listed(e, root) ==
    /\ at[e] = root /\ todo[e] = {}
    /\ Goto(e, After(root))
    /\ UNCHANGED <<kept, status, todo, ids, process, disk, logs, rows, told>>

\* The log artifact repeats the finish log and the ids so far.
RegisterLog(e) ==
    /\ at[e] = "log"
    /\ rows' = [rows EXCEPT ![e] = @ \cup {Log}]
    /\ told' = [told EXCEPT ![e] = ids[e]]
    /\ ids' = [ids EXCEPT ![e] = @ \cup {Log}]
    /\ Goto(e, "finish")
    /\ UNCHANGED <<kept, status, todo, process, disk, logs>>

\* Mutants: the status of the code is kept; the log artifact is registered all
\* the same; the call returns at once.
KeptStatus(e) == status[e]
LogAnyway == "log"
ReturnAtOnce == "clean"

RejectedStatus(e) == "error"
AfterReject == "finish"

\* A BackendError: the ids that _register_generated_files had collected go
\* with its frame.
Reject(e) ==
    /\ (at[e] \in Root /\ todo[e] # {}) \/ at[e] = "log"
    /\ Settle(e, RejectedStatus(e))
    /\ ids' = [ids EXCEPT ![e] = IF at[e] = "log" THEN @ ELSE {}]
    /\ Goto(e, AfterReject)
    /\ UNCHANGED <<kept, todo, process, disk, logs, rows, told>>

-------------------------------------------------------------------------------
(* The end of the call.                                                    *)

LogFinish(e) ==
    /\ at[e] = "finish"
    /\ logs' = [logs EXCEPT ![e] = @ \cup {"finish"}]
    /\ Goto(e, "clean")
    /\ UNCHANGED <<kept, status, todo, ids, process, disk, rows, told>>

\* rmtree(run_dir, ignore_errors=True), unless run directories are kept.
Clean(e) ==
    /\ at[e] = "clean"
    /\ disk' = [disk EXCEPT ![e] = IF e \in kept THEN @ ELSE {}]
    /\ logs' = [logs EXCEPT ![e] = IF e \in kept THEN @ ELSE {}]
    /\ Goto(e, "answered")
    /\ UNCHANGED <<kept, status, todo, ids, process, rows, told>>

\* A listed file is gone: FileNotFoundError.
Miss(e, f) ==
    /\ at[e] \in Root /\ f \in todo[e] \ disk[e]
    /\ Goto(e, "raised")
    /\ UNCHANGED <<kept, status, todo, ids, process, disk, logs, rows, told>>

\* The output cannot be decoded, or the process cannot be waited for: the
\* exception goes through run_python.
WaitFails(e, remains) ==
    /\ at[e] = "running"
    /\ process' = [process EXCEPT ![e] = remains]
    /\ Goto(e, "raised")
    /\ UNCHANGED <<kept, status, todo, ids, disk, logs, rows, told>>

\* Any other exception goes through run_python: an input artifact that does
\* not exist, no space, a locked database, before a row is stored or when it
\* is read back.
Raise(e, more) ==
    /\ at[e] \in Step \ {"running", "clean"}
    /\ more \subseteq (IF at[e] = "log" THEN {Log} ELSE IF at[e] \in Root THEN todo[e] ELSE {})
    /\ rows' = [rows EXCEPT ![e] = @ \cup more]
    /\ told' = [told EXCEPT ![e] = IF Log \in more THEN ids[e] ELSE @]
    /\ Goto(e, "raised")
    /\ UNCHANGED <<kept, status, todo, ids, process, disk, logs>>

\* The process of the backend is killed.
Kill(e) ==
    /\ at[e] \in Step
    /\ Goto(e, "killed")
    /\ process' = [process EXCEPT ![e] = IF @ = "running" THEN "loose" ELSE @]
    /\ UNCHANGED <<kept, status, todo, ids, disk, logs, rows, told>>

-------------------------------------------------------------------------------

\* The next step of a call that nothing goes wrong for.
Proceed(e) ==
    \/ Prepare(e) \/ LogStart(e) \/ Start(e)
    \/ \E remains \in {"gone", "loose"} : TimeOut(e, remains)
    \/ \E root \in Root : List(e, root) \/ Listed(e, root)
    \/ \E f \in Files : Register(e, f) \/ Miss(e, f)
    \/ RegisterLog(e) \/ LogFinish(e) \/ Clean(e)

NextOf(e) ==
    \/ Proceed(e)
    \/ \E s \in Refused : Refuse(e, s)
    \/ NoInterpreter(e) \/ Reject(e) \/ Kill(e)
    \/ \E remains \in {"gone", "loose"} : WaitFails(e, remains)
    \/ \E more \in {{}} \cup {{x} : x \in Files \cup {Log}} : Raise(e, more)
    \/ \E f \in Files : Touch(e, f)
    \/ \E s \in {"success", "error"}, remains \in {"gone", "loose"} : Exit(e, s, remains)

Next == \E e \in Execs : NextOf(e)

Spec == Init /\ [][Next]_vars

\* The executor goes on; the code it runs may never end.
FairSpec == Spec /\ \A e \in Execs : WF_vars(Proceed(e))

-------------------------------------------------------------------------------
(* Properties.                                                             *)

HasRun(e) == process[e] # "none"

\* The log files of a run directory bracket the call: whoever finds the
\* directory of code that has been started finds its start log, though the
\* backend was killed, and once the call was answered its finish log
\* (sandbox_executor.py:140-156 and 188-198).  The code is taken to leave the
\* logs directory alone; Docker does not mount it, the local executor cannot
\* keep the code from it.
LogsBracketTheCall ==
    \A e \in Execs :
        HasRun(e) /\ (at[e] = "answered" => e \in kept) =>
            /\ "start" \in logs[e]
            /\ at[e] = "answered" => "finish" \in logs[e]

\* An answer of success or timeout names each file that the code has left,
\* and the log artifact, and no other; unless a descendant of the process was
\* still writing.  When artifacts exist that the answer does not name, it says
\* error, and there is no log artifact (sandbox_executor.py:161-187, 314-356).
AnswerIsComplete ==
    \A e \in Execs :
        at[e] = "answered" =>
            /\ status[e] \in {"success", "timeout"} /\ process[e] = "gone" =>
                   /\ ids[e] = rows[e] /\ Log \in rows[e]
                   /\ e \in kept => rows[e] = disk[e] \cup {Log}
            /\ ids[e] # rows[e] => status[e] = "error" /\ Log \notin rows[e]

\* A log artifact lists all other artifacts of its execution, for ever
\* (sandbox_executor.py:165-184).
LogTellsAll == \A e \in Execs : Log \in rows[e] => told[e] = rows[e] \ {Log}

\* A call comes to an end, whatever the code does and leaves behind: it may
\* never exit, and files may come and go while they are registered
\* (sandbox_executor.py:242-262 and 324-327).  `docker rm -f` has no timeout
\* (533-534): that it returns is part of the fairness of TimeOut.
CallsEnd == \A e \in Execs : at[e] = "prepared" ~> at[e] \in Over
===============================================================================
