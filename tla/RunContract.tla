---------------------------- MODULE RunContract ----------------------------
(***************************************************************************)
(* What RunService promises to a caller who looks only at the runs table:  *)
(* a run is created once, each status update is one indivisible change of  *)
(* a run that is not yet terminal, and metadata is only ever merged in.    *)
(* RunLifecycle is the service as it is written, one SQL statement at a    *)
(* time; it is compared with this specification there.                     *)
(***************************************************************************)

CONSTANTS
    Runs,       \* run ids
    Keys        \* metadata keys; the values stored under them are left out

VARIABLE run    \* run[r] : the row of r in the table "runs"

\* models/runs.py: RunStatus, and TERMINAL_RUN_STATUSES.
Terminal == {"succeeded", "failed", "cancelled"}
Status   == {"created", "running", "waiting_approval"} \cup Terminal

\* A row; "absent" stands for the lack of one.
Row    == [status : Status \cup {"absent"}, meta : SUBSET Keys]
Absent == [status |-> "absent", meta |-> {}]

Exists(row)  == row.status # "absent"
IsFinal(row) == row.status \in Terminal

TypeOK == run \in [Runs -> Row]

Init == run = [r \in Runs |-> Absent]

\* A row appears in status "created".
Create(r, m) ==
    /\ ~Exists(run[r])
    /\ run' = [run EXCEPT ![r] = [status |-> "created", meta |-> m]]

\* A live run moves to any status, itself included, and its metadata grows.
Update(r, s, m) ==
    /\ Exists(run[r])
    /\ ~IsFinal(run[r])
    /\ run' = [run EXCEPT ![r] = [status |-> s, meta |-> @.meta \cup m]]

Next == \E r \in Runs, m \in SUBSET Keys :
            \/ Create(r, m)
            \/ \E s \in Status : Update(r, s, m)

Spec == Init /\ [][Next]_run

----------------------------------------------------------------------------
(* Consequences of the contract, which callers rely on.                    *)

\* "Terminal runs cannot be updated." (run_service.py:98): no step changes
\* the row of a terminal run.
TerminalIsFinal == [][\A r \in Runs : IsFinal(run[r]) => run'[r] = run[r]]_run

\* Merging never loses a metadata key (run_service.py:104-105).
MetadataOnlyGrows == [][\A r \in Runs : run[r].meta \subseteq run'[r].meta]_run
============================================================================
