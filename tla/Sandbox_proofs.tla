---------------------------- MODULE Sandbox_proofs -----------------------------
(***************************************************************************)
(* For any number of executions and any files: what an answer, a log       *)
(* artifact and a run directory say of the code that was run.              *)
(***************************************************************************)
EXTENDS Sandbox, TLAPS

(* The values of the variables for one execution, as sets of positions in  *)
(* run_python.                                                             *)
Unstarted == {"policy", "prepared", "logged"}
Unlisted  == Unstarted \cup {"running", "list workspace"}
Unreported == Unlisted \cup {"workspace", "list outputs", "outputs", "log"}

\* The code ended as it should, and nothing of it is left.
Quiet(e) == status[e] \in {"success", "timeout"} /\ process[e] = "gone"

\* What has been written of an execution, as run_python goes on.
Beginning(e) ==
    /\ at[e] \in Unstarted => process[e] = "none"
    /\ at[e] \in Unstarted \cup {"running"} => status[e] = "none"
    /\ at[e] \in Unlisted => rows[e] = {}
    /\ at[e] \in {"logged", "running"} => "start" \in logs[e]
    /\ HasRun(e) /\ (at[e] = "answered" => e \in kept) => "start" \in logs[e]

\* The ids that the executor knows, those that exist, and those in the log.
Naming(e) ==
    /\ at[e] \in Unreported => ids[e] = rows[e] /\ Log \notin rows[e]
    /\ at[e] \in {"finish", "clean", "answered"} /\ ids[e] # rows[e] =>
          status[e] = "error" /\ Log \notin rows[e]
    /\ Log \in rows[e] => told[e] = rows[e] \ {Log}

\* How far the registration of what is on disk has come.
Covering(e) ==
    Quiet(e) =>
        /\ at[e] = "workspace" => rows[e] \cup todo[e] = disk[e] \cap Workspace
        /\ at[e] = "list outputs" => rows[e] = disk[e] \cap Workspace
        /\ at[e] = "outputs" => rows[e] \cup todo[e] = disk[e]
        /\ at[e] = "log" => rows[e] = disk[e]
        /\ at[e] \in {"finish", "clean", "answered"} => ids[e] = rows[e] /\ Log \in rows[e]
        /\ at[e] \in {"finish", "clean"} => rows[e] = disk[e] \cup {Log}
        /\ at[e] = "answered" /\ e \in kept => rows[e] = disk[e] \cup {Log}

Ending(e) ==
    /\ at[e] = "clean" => "finish" \in logs[e]
    /\ at[e] = "answered" /\ HasRun(e) /\ e \in kept => "finish" \in logs[e]

Progress(e) == Beginning(e) /\ Naming(e) /\ Covering(e) /\ Ending(e)

IInv == TypeOK /\ \A e \in Execs : Progress(e)

-----------------------------------------------------------------------------
(* A step is one of an execution, and the others do not see it.            *)

\* Nothing of execution d has changed.
Same(d) ==
    /\ at'[d] = at[d] /\ status'[d] = status[d] /\ todo'[d] = todo[d]
    /\ ids'[d] = ids[d] /\ process'[d] = process[d] /\ disk'[d] = disk[d]
    /\ logs'[d] = logs[d] /\ rows'[d] = rows[d] /\ told'[d] = told[d]

LEMMA SameProgress ==
    ASSUME NEW d \in Execs, Progress(d), Same(d), kept' = kept
    PROVE  Progress(d)'
BY DEF Progress, Beginning, Naming, Covering, Ending, Quiet, HasRun, Same

LEMMA OneStep ==
    ASSUME IInv, NEW e \in Execs, kept' = kept, TypeOK', Progress(e)',
           \A d \in Execs \ {e} : Same(d)
    PROVE  IInv'
BY SameProgress DEF IInv

-----------------------------------------------------------------------------
(* One lemma for each action.                                              *)

LEMMA PrepareStep ==
    ASSUME IInv, NEW e \in Execs, Prepare(e)
    PROVE  IInv'
<1>1. TypeOK'
  BY DEF Prepare, Goto, Settle, TypeOK, IInv, Files, Step, Over
<1>2. kept' = kept /\ \A d \in Execs \ {e} : Same(d)
  BY DEF Prepare, Goto, Settle, TypeOK, IInv, Same
<1>3. TypeOK /\ Progress(e)
  BY DEF IInv
<1>4. Beginning(e)'
  BY <1>3, FileAssumption
     DEF Progress, Beginning, Unstarted, Unlisted, HasRun, Prepare, Goto,
         Settle, TypeOK, IInv, Files
<1>5. Naming(e)'
  BY <1>3, FileAssumption
     DEF Progress, Naming, Unreported, Unlisted, Unstarted, Prepare, Goto,
         Settle, TypeOK, IInv, Files
<1>6. Covering(e)'
  BY <1>3, FileAssumption
     DEF Progress, Covering, Quiet, Naming, Beginning, Unstarted, Unlisted,
         Unreported, Prepare, Goto, Settle, TypeOK, IInv, Files
<1>7. Ending(e)'
  BY <1>3, FileAssumption
     DEF Progress, Ending, HasRun, Beginning, Unstarted, Prepare, Goto,
         Settle, TypeOK, IInv, Files
<1> QED
  BY <1>1, <1>2, <1>4, <1>5, <1>6, <1>7, OneStep DEF Progress

LEMMA LogStartStep ==
    ASSUME IInv, NEW e \in Execs, LogStart(e)
    PROVE  IInv'
<1>1. TypeOK'
  BY DEF LogStart, Goto, Settle, TypeOK, IInv, Files, Step, Over
<1>2. kept' = kept /\ \A d \in Execs \ {e} : Same(d)
  BY DEF LogStart, Goto, Settle, TypeOK, IInv, Same
<1>3. TypeOK /\ Progress(e)
  BY DEF IInv
<1>4. Beginning(e)'
  BY <1>3, FileAssumption
     DEF Progress, Beginning, Unstarted, Unlisted, HasRun, LogStart, Goto,
         Settle, TypeOK, IInv, Files
<1>5. Naming(e)'
  BY <1>3, FileAssumption
     DEF Progress, Naming, Unreported, Unlisted, Unstarted, LogStart, Goto,
         Settle, TypeOK, IInv, Files
<1>6. Covering(e)'
  BY <1>3, FileAssumption
     DEF Progress, Covering, Quiet, Naming, Beginning, Unstarted, Unlisted,
         Unreported, LogStart, Goto, Settle, TypeOK, IInv, Files
<1>7. Ending(e)'
  BY <1>3, FileAssumption
     DEF Progress, Ending, HasRun, Beginning, Unstarted, LogStart, Goto,
         Settle, TypeOK, IInv, Files
<1> QED
  BY <1>1, <1>2, <1>4, <1>5, <1>6, <1>7, OneStep DEF Progress

LEMMA StartStep ==
    ASSUME IInv, NEW e \in Execs, Start(e)
    PROVE  IInv'
<1>1. TypeOK'
  BY DEF Start, Goto, Settle, TypeOK, IInv, Files, StartAt, Step, Over
<1>2. kept' = kept /\ \A d \in Execs \ {e} : Same(d)
  BY DEF Start, Goto, Settle, TypeOK, IInv, Same
<1>3. TypeOK /\ Progress(e)
  BY DEF IInv
<1>4. Beginning(e)'
  BY <1>3, FileAssumption
     DEF Progress, Beginning, Unstarted, Unlisted, HasRun, Start, Goto,
         Settle, TypeOK, IInv, Files, StartAt
<1>5. Naming(e)'
  BY <1>3, FileAssumption
     DEF Progress, Naming, Unreported, Unlisted, Unstarted, Start, Goto,
         Settle, TypeOK, IInv, Files, StartAt
<1>6. Covering(e)'
  BY <1>3, FileAssumption
     DEF Progress, Covering, Quiet, Naming, Beginning, Unstarted, Unlisted,
         Unreported, Start, Goto, Settle, TypeOK, IInv, Files, StartAt
<1>7. Ending(e)'
  BY <1>3, FileAssumption
     DEF Progress, Ending, HasRun, Beginning, Unstarted, Start, Goto, Settle,
         TypeOK, IInv, Files, StartAt
<1> QED
  BY <1>1, <1>2, <1>4, <1>5, <1>6, <1>7, OneStep DEF Progress

LEMMA NoInterpreterStep ==
    ASSUME IInv, NEW e \in Execs, NoInterpreter(e)
    PROVE  IInv'
<1>1. TypeOK'
  BY DEF NoInterpreter, Goto, Settle, TypeOK, IInv, Files, StartAt, Step, Over
<1>2. kept' = kept /\ \A d \in Execs \ {e} : Same(d)
  BY DEF NoInterpreter, Goto, Settle, TypeOK, IInv, Same
<1>3. TypeOK /\ Progress(e)
  BY DEF IInv
<1>4. Beginning(e)'
  BY <1>3, FileAssumption
     DEF Progress, Beginning, Unstarted, Unlisted, HasRun, NoInterpreter,
         Goto, Settle, TypeOK, IInv, Files, StartAt
<1>5. Naming(e)'
  BY <1>3, FileAssumption
     DEF Progress, Naming, Unreported, Unlisted, Unstarted, NoInterpreter,
         Goto, Settle, TypeOK, IInv, Files, StartAt
<1>6. Covering(e)'
  BY <1>3, FileAssumption
     DEF Progress, Covering, Quiet, Naming, Beginning, Unstarted, Unlisted,
         Unreported, NoInterpreter, Goto, Settle, TypeOK, IInv, Files, StartAt
<1>7. Ending(e)'
  BY <1>3, FileAssumption
     DEF Progress, Ending, HasRun, Beginning, Unstarted, NoInterpreter, Goto,
         Settle, TypeOK, IInv, Files, StartAt
<1> QED
  BY <1>1, <1>2, <1>4, <1>5, <1>6, <1>7, OneStep DEF Progress

LEMMA RegisterLogStep ==
    ASSUME IInv, NEW e \in Execs, RegisterLog(e)
    PROVE  IInv'
<1>3. TypeOK /\ Progress(e)
  BY DEF IInv
<1>0. at[e] = "log" /\ ids[e] = rows[e] /\ Log \notin rows[e]
  BY <1>3 DEF RegisterLog, Progress, Naming, Unreported
<1>8. rows[e] \in SUBSET Files
  BY <1>0, <1>3 DEF TypeOK
<1>1. TypeOK'
  BY <1>0, <1>3, <1>8 DEF RegisterLog, Goto, TypeOK, Step, Over
<1>2. kept' = kept /\ \A d \in Execs \ {e} : Same(d)
  BY DEF RegisterLog, Goto, Settle, TypeOK, IInv, Same
<1>4. Beginning(e)'
  BY <1>3, FileAssumption
     DEF Progress, Beginning, Unstarted, Unlisted, HasRun, RegisterLog, Goto,
         Settle, TypeOK, IInv, Files
<1>5. Naming(e)'
  <2>1. /\ rows'[e] = rows[e] \cup {Log} /\ ids'[e] = rows[e] \cup {Log}
        /\ told'[e] = rows[e] /\ at'[e] = "finish"
    BY <1>0, <1>3 DEF RegisterLog, Goto, TypeOK
  <2> QED
    BY <2>1, <1>0 DEF Naming, Unreported, Unlisted, Unstarted
<1>6. Covering(e)'
  BY <1>3, FileAssumption
     DEF Progress, Covering, Quiet, Naming, Beginning, Unstarted, Unlisted,
         Unreported, RegisterLog, Goto, Settle, TypeOK, IInv, Files
<1>7. Ending(e)'
  BY <1>3, FileAssumption
     DEF Progress, Ending, HasRun, Beginning, Unstarted, RegisterLog, Goto,
         Settle, TypeOK, IInv, Files
<1> QED
  BY <1>1, <1>2, <1>4, <1>5, <1>6, <1>7, OneStep DEF Progress

LEMMA RejectStep ==
    ASSUME IInv, NEW e \in Execs, Reject(e)
    PROVE  IInv'
<1>1. TypeOK'
  BY
     DEF Reject, Goto, Settle, TypeOK, IInv, Files, Root, RejectedStatus,
         AfterReject, Step, Over
<1>2. kept' = kept /\ \A d \in Execs \ {e} : Same(d)
  BY DEF Reject, Goto, Settle, TypeOK, IInv, Same
<1>3. TypeOK /\ Progress(e)
  BY DEF IInv
<1>4. Beginning(e)'
  BY <1>3, FileAssumption
     DEF Progress, Beginning, Unstarted, Unlisted, HasRun, Reject, Goto,
         Settle, TypeOK, IInv, Files, Root, RejectedStatus, AfterReject
<1>5. Naming(e)'
  BY <1>3, FileAssumption
     DEF Progress, Naming, Unreported, Unlisted, Unstarted, Reject, Goto,
         Settle, TypeOK, IInv, Files, Root, RejectedStatus, AfterReject
<1>6. Covering(e)'
  BY <1>3, FileAssumption
     DEF Progress, Covering, Quiet, Naming, Beginning, Unstarted, Unlisted,
         Unreported, Reject, Goto, Settle, TypeOK, IInv, Files, Root,
         RejectedStatus, AfterReject
<1>7. Ending(e)'
  BY <1>3, FileAssumption
     DEF Progress, Ending, HasRun, Beginning, Unstarted, Reject, Goto, Settle,
         TypeOK, IInv, Files, Root, RejectedStatus, AfterReject
<1> QED
  BY <1>1, <1>2, <1>4, <1>5, <1>6, <1>7, OneStep DEF Progress

LEMMA LogFinishStep ==
    ASSUME IInv, NEW e \in Execs, LogFinish(e)
    PROVE  IInv'
<1>1. TypeOK'
  BY DEF LogFinish, Goto, Settle, TypeOK, IInv, Files, Step, Over
<1>2. kept' = kept /\ \A d \in Execs \ {e} : Same(d)
  BY DEF LogFinish, Goto, Settle, TypeOK, IInv, Same
<1>3. TypeOK /\ Progress(e)
  BY DEF IInv
<1>4. Beginning(e)'
  BY <1>3, FileAssumption
     DEF Progress, Beginning, Unstarted, Unlisted, HasRun, LogFinish, Goto,
         Settle, TypeOK, IInv, Files
<1>5. Naming(e)'
  BY <1>3, FileAssumption
     DEF Progress, Naming, Unreported, Unlisted, Unstarted, LogFinish, Goto,
         Settle, TypeOK, IInv, Files
<1>6. Covering(e)'
  BY <1>3, FileAssumption
     DEF Progress, Covering, Quiet, Naming, Beginning, Unstarted, Unlisted,
         Unreported, LogFinish, Goto, Settle, TypeOK, IInv, Files
<1>7. Ending(e)'
  BY <1>3, FileAssumption
     DEF Progress, Ending, HasRun, Beginning, Unstarted, LogFinish, Goto,
         Settle, TypeOK, IInv, Files
<1> QED
  BY <1>1, <1>2, <1>4, <1>5, <1>6, <1>7, OneStep DEF Progress

LEMMA CleanStep ==
    ASSUME IInv, NEW e \in Execs, Clean(e)
    PROVE  IInv'
<1>1. TypeOK'
  BY DEF Clean, Goto, Settle, TypeOK, IInv, Files, Step, Over
<1>2. kept' = kept /\ \A d \in Execs \ {e} : Same(d)
  BY DEF Clean, Goto, Settle, TypeOK, IInv, Same
<1>3. TypeOK /\ Progress(e)
  BY DEF IInv
<1>4. Beginning(e)'
  BY <1>3, FileAssumption
     DEF Progress, Beginning, Unstarted, Unlisted, HasRun, Clean, Goto,
         Settle, TypeOK, IInv, Files
<1>5. Naming(e)'
  BY <1>3, FileAssumption
     DEF Progress, Naming, Unreported, Unlisted, Unstarted, Clean, Goto,
         Settle, TypeOK, IInv, Files
<1>6. Covering(e)'
  BY <1>3, FileAssumption
     DEF Progress, Covering, Quiet, Naming, Beginning, Unstarted, Unlisted,
         Unreported, Clean, Goto, Settle, TypeOK, IInv, Files
<1>7. Ending(e)'
  BY <1>3, FileAssumption
     DEF Progress, Ending, HasRun, Beginning, Unstarted, Clean, Goto, Settle,
         TypeOK, IInv, Files
<1> QED
  BY <1>1, <1>2, <1>4, <1>5, <1>6, <1>7, OneStep DEF Progress

LEMMA KillStep ==
    ASSUME IInv, NEW e \in Execs, Kill(e)
    PROVE  IInv'
<1>1. TypeOK'
  BY DEF Kill, Goto, Settle, TypeOK, IInv, Files, Step, Over
<1>2. kept' = kept /\ \A d \in Execs \ {e} : Same(d)
  BY DEF Kill, Goto, Settle, TypeOK, IInv, Same
<1>3. TypeOK /\ Progress(e)
  BY DEF IInv
<1>4. Beginning(e)'
  BY <1>3, FileAssumption
     DEF Progress, Beginning, Unstarted, Unlisted, HasRun, Kill, Goto, Settle,
         TypeOK, IInv, Files, Step
<1>5. Naming(e)'
  BY <1>3, FileAssumption
     DEF Progress, Naming, Unreported, Unlisted, Unstarted, Kill, Goto,
         Settle, TypeOK, IInv, Files, Step
<1>6. Covering(e)'
  BY <1>3, FileAssumption
     DEF Progress, Covering, Quiet, Naming, Beginning, Unstarted, Unlisted,
         Unreported, Kill, Goto, Settle, TypeOK, IInv, Files, Step
<1>7. Ending(e)'
  BY <1>3, FileAssumption
     DEF Progress, Ending, HasRun, Beginning, Unstarted, Kill, Goto, Settle,
         TypeOK, IInv, Files, Step
<1> QED
  BY <1>1, <1>2, <1>4, <1>5, <1>6, <1>7, OneStep DEF Progress

LEMMA RefuseStep ==
    ASSUME IInv, NEW e \in Execs, NEW s \in Refused, Refuse(e, s)
    PROVE  IInv'
<1>1. TypeOK'
  BY DEF Refuse, Goto, Settle, TypeOK, IInv, Files, Refused, Step, Over
<1>2. kept' = kept /\ \A d \in Execs \ {e} : Same(d)
  BY DEF Refuse, Goto, Settle, TypeOK, IInv, Same
<1>3. TypeOK /\ Progress(e)
  BY DEF IInv
<1>4. Beginning(e)'
  BY <1>3, FileAssumption
     DEF Progress, Beginning, Unstarted, Unlisted, HasRun, Refuse, Goto,
         Settle, TypeOK, IInv, Files, Refused
<1>5. Naming(e)'
  BY <1>3, FileAssumption
     DEF Progress, Naming, Unreported, Unlisted, Unstarted, Refuse, Goto,
         Settle, TypeOK, IInv, Files, Refused
<1>6. Covering(e)'
  BY <1>3, FileAssumption
     DEF Progress, Covering, Quiet, Naming, Beginning, Unstarted, Unlisted,
         Unreported, Refuse, Goto, Settle, TypeOK, IInv, Files, Refused
<1>7. Ending(e)'
  BY <1>3, FileAssumption
     DEF Progress, Ending, HasRun, Beginning, Unstarted, Refuse, Goto, Settle,
         TypeOK, IInv, Files, Refused
<1> QED
  BY <1>1, <1>2, <1>4, <1>5, <1>6, <1>7, OneStep DEF Progress

LEMMA ListStep ==
    ASSUME IInv, NEW e \in Execs, NEW root \in Root, List(e, root)
    PROVE  IInv'
<1>1. TypeOK'
  BY DEF List, Goto, Settle, TypeOK, IInv, Files, Root, In, Listing, Step, Over
<1>2. kept' = kept /\ \A d \in Execs \ {e} : Same(d)
  BY DEF List, Goto, Settle, TypeOK, IInv, Same
<1>3. TypeOK /\ Progress(e)
  BY DEF IInv
<1>4. Beginning(e)'
  BY <1>3, FileAssumption
     DEF Progress, Beginning, Unstarted, Unlisted, HasRun, List, Goto, Settle,
         TypeOK, IInv, Files, Root, In, Listing
<1>5. Naming(e)'
  BY <1>3, FileAssumption
     DEF Progress, Naming, Unreported, Unlisted, Unstarted, List, Goto,
         Settle, TypeOK, IInv, Files, Root, In, Listing
<1>6. Covering(e)'
  BY <1>3, FileAssumption
     DEF Progress, Covering, Quiet, Naming, Beginning, Unstarted, Unlisted,
         Unreported, List, Goto, Settle, TypeOK, IInv, Files, Root, In,
         Listing
<1>7. Ending(e)'
  BY <1>3, FileAssumption
     DEF Progress, Ending, HasRun, Beginning, Unstarted, List, Goto, Settle,
         TypeOK, IInv, Files, Root, In, Listing
<1> QED
  BY <1>1, <1>2, <1>4, <1>5, <1>6, <1>7, OneStep DEF Progress

LEMMA ListedStep ==
    ASSUME IInv, NEW e \in Execs, NEW root \in Root, Listed(e, root)
    PROVE  IInv'
<1>1. TypeOK'
  BY DEF Listed, Goto, Settle, TypeOK, IInv, Files, Root, After, Step, Over
<1>2. kept' = kept /\ \A d \in Execs \ {e} : Same(d)
  BY DEF Listed, Goto, Settle, TypeOK, IInv, Same
<1>3. TypeOK /\ Progress(e)
  BY DEF IInv
<1>4. Beginning(e)'
  BY <1>3, FileAssumption
     DEF Progress, Beginning, Unstarted, Unlisted, HasRun, Listed, Goto,
         Settle, TypeOK, IInv, Files, Root, After
<1>5. Naming(e)'
  BY <1>3, FileAssumption
     DEF Progress, Naming, Unreported, Unlisted, Unstarted, Listed, Goto,
         Settle, TypeOK, IInv, Files, Root, After
<1>6. Covering(e)'
  BY <1>3, FileAssumption
     DEF Progress, Covering, Quiet, Naming, Beginning, Unstarted, Unlisted,
         Unreported, Listed, Goto, Settle, TypeOK, IInv, Files, Root, After
<1>7. Ending(e)'
  BY <1>3, FileAssumption
     DEF Progress, Ending, HasRun, Beginning, Unstarted, Listed, Goto, Settle,
         TypeOK, IInv, Files, Root, After
<1> QED
  BY <1>1, <1>2, <1>4, <1>5, <1>6, <1>7, OneStep DEF Progress

LEMMA RegisterStep ==
    ASSUME IInv, NEW e \in Execs, NEW f \in Files, Register(e, f)
    PROVE  IInv'
<1>1. TypeOK'
  BY DEF Register, Goto, Settle, TypeOK, IInv, Files, Root, Step, Over
<1>2. kept' = kept /\ \A d \in Execs \ {e} : Same(d)
  BY DEF Register, Goto, Settle, TypeOK, IInv, Same
<1>3. TypeOK /\ Progress(e)
  BY DEF IInv
<1>4. Beginning(e)'
  BY <1>3, FileAssumption
     DEF Progress, Beginning, Unstarted, Unlisted, HasRun, Register, Goto,
         Settle, TypeOK, IInv, Files, Root
<1>5. Naming(e)'
  BY <1>3, FileAssumption
     DEF Progress, Naming, Unreported, Unlisted, Unstarted, Register, Goto,
         Settle, TypeOK, IInv, Files, Root
<1>6. Covering(e)'
  <2>1. /\ rows'[e] = rows[e] \cup {f} /\ todo'[e] = todo[e] \ {f} /\ f \in todo[e]
        /\ at'[e] = at[e] /\ at[e] \in {"workspace", "outputs"} /\ disk'[e] = disk[e]
        /\ status'[e] = status[e] /\ process'[e] = process[e]
    BY <1>3 DEF Register, Root, TypeOK
  <2>2. rows'[e] \cup todo'[e] = rows[e] \cup todo[e]
    BY <2>1
  <2> QED
    BY <2>1, <2>2, <1>3 DEF Progress, Covering, Quiet
<1>7. Ending(e)'
  BY <1>3, FileAssumption
     DEF Progress, Ending, HasRun, Beginning, Unstarted, Register, Goto,
         Settle, TypeOK, IInv, Files, Root
<1> QED
  BY <1>1, <1>2, <1>4, <1>5, <1>6, <1>7, OneStep DEF Progress

LEMMA MissStep ==
    ASSUME IInv, NEW e \in Execs, NEW f \in Files, Miss(e, f)
    PROVE  IInv'
<1>1. TypeOK'
  BY DEF Miss, Goto, Settle, TypeOK, IInv, Files, Root, Step, Over
<1>2. kept' = kept /\ \A d \in Execs \ {e} : Same(d)
  BY DEF Miss, Goto, Settle, TypeOK, IInv, Same
<1>3. TypeOK /\ Progress(e)
  BY DEF IInv
<1>4. Beginning(e)'
  BY <1>3, FileAssumption
     DEF Progress, Beginning, Unstarted, Unlisted, HasRun, Miss, Goto, Settle,
         TypeOK, IInv, Files, Root
<1>5. Naming(e)'
  BY <1>3, FileAssumption
     DEF Progress, Naming, Unreported, Unlisted, Unstarted, Miss, Goto,
         Settle, TypeOK, IInv, Files, Root
<1>6. Covering(e)'
  BY <1>3, FileAssumption
     DEF Progress, Covering, Quiet, Naming, Beginning, Unstarted, Unlisted,
         Unreported, Miss, Goto, Settle, TypeOK, IInv, Files, Root
<1>7. Ending(e)'
  BY <1>3, FileAssumption
     DEF Progress, Ending, HasRun, Beginning, Unstarted, Miss, Goto, Settle,
         TypeOK, IInv, Files, Root
<1> QED
  BY <1>1, <1>2, <1>4, <1>5, <1>6, <1>7, OneStep DEF Progress

LEMMA TouchStep ==
    ASSUME IInv, NEW e \in Execs, NEW f \in Files, Touch(e, f)
    PROVE  IInv'
<1>1. TypeOK'
  BY DEF Touch, Goto, Settle, TypeOK, IInv, Files, Step, Over
<1>2. kept' = kept /\ \A d \in Execs \ {e} : Same(d)
  BY DEF Touch, Goto, Settle, TypeOK, IInv, Same
<1>3. TypeOK /\ Progress(e)
  BY DEF IInv
<1>4. Beginning(e)'
  BY <1>3, FileAssumption
     DEF Progress, Beginning, Unstarted, Unlisted, HasRun, Touch, Goto,
         Settle, TypeOK, IInv, Files
<1>5. Naming(e)'
  BY <1>3, FileAssumption
     DEF Progress, Naming, Unreported, Unlisted, Unstarted, Touch, Goto,
         Settle, TypeOK, IInv, Files
<1>6. Covering(e)'
  BY <1>3, FileAssumption
     DEF Progress, Covering, Quiet, Naming, Beginning, Unstarted, Unlisted,
         Unreported, Touch, Goto, Settle, TypeOK, IInv, Files
<1>7. Ending(e)'
  BY <1>3, FileAssumption
     DEF Progress, Ending, HasRun, Beginning, Unstarted, Touch, Goto, Settle,
         TypeOK, IInv, Files
<1> QED
  BY <1>1, <1>2, <1>4, <1>5, <1>6, <1>7, OneStep DEF Progress

LEMMA WaitFailsStep ==
    ASSUME IInv, NEW e \in Execs, NEW remains \in {"gone", "loose"}, WaitFails(e, remains)
    PROVE  IInv'
<1>1. TypeOK'
  BY DEF WaitFails, Goto, TypeOK, IInv, Files, Step, Over
<1>2. kept' = kept /\ \A d \in Execs \ {e} : Same(d)
  BY DEF WaitFails, Goto, TypeOK, IInv, Same
<1>3. TypeOK /\ Progress(e)
  BY DEF IInv
<1>4. Beginning(e)'
  BY <1>3 DEF Progress, Beginning, Unstarted, Unlisted, HasRun, WaitFails, Goto, TypeOK
<1>5. Naming(e)'
  BY <1>3 DEF Progress, Naming, Beginning, Unreported, Unlisted, Unstarted, WaitFails, Goto, TypeOK
<1>6. Covering(e)' /\ Ending(e)'
  BY <1>3 DEF Covering, Ending, WaitFails, Goto, TypeOK
<1> QED
  BY <1>1, <1>2, <1>4, <1>5, <1>6, OneStep DEF Progress

LEMMA RaiseStep ==
    ASSUME IInv, NEW e \in Execs, NEW more \in {{}} \cup {{x} : x \in Files \cup {Log}}, Raise(e, more)
    PROVE  IInv'
<1>3. TypeOK /\ Progress(e)
  BY DEF IInv
<1>0. /\ more \in SUBSET (Files \cup {Log})
      /\ Log \in more => at[e] = "log" /\ more = {Log}
                        /\ ids[e] = rows[e] /\ Log \notin rows[e]
  <2>1. more \subseteq Files \/ (at[e] = "log" /\ more \subseteq {Log})
    BY <1>3 DEF Raise, TypeOK
  <2> QED
    BY <2>1, <1>3, FileAssumption DEF Progress, Naming, Unreported, Files
<1>8. at[e] # "clean" /\ more # {} => at[e] \in {"workspace", "outputs", "log"}
  BY DEF Raise, Root
<1>9. /\ rows'[e] = rows[e] \cup more /\ at'[e] = "raised"
      /\ told'[e] = IF Log \in more THEN ids[e] ELSE told[e]
  BY <1>3 DEF Raise, Goto, TypeOK
<1>10. (IF Log \in more THEN ids[e] ELSE told[e]) \in SUBSET Files
  BY <1>0, <1>3 DEF TypeOK
<1>1. TypeOK'
  BY <1>0, <1>3, <1>10 DEF Raise, Goto, TypeOK, Step, Over
<1>2. kept' = kept /\ \A d \in Execs \ {e} : Same(d)
  BY DEF Raise, Goto, Settle, TypeOK, IInv, Same
<1>4. Beginning(e)'
  BY <1>3, FileAssumption
     DEF Progress, Beginning, Unstarted, Unlisted, HasRun, Raise, Goto,
         Settle, TypeOK, IInv, Files, Root, Step
<1>5. Naming(e)'
  <2>1. CASE Log \in more
    BY <2>1, <1>0, <1>9 DEF Naming, Unreported, Unlisted, Unstarted
  <2>2. CASE more = {}
    BY <2>2, <1>3, <1>9 DEF Progress, Naming, Unreported, Unlisted, Unstarted
  <2>3. CASE Log \notin more /\ more # {}
    <3>1. Log \notin rows[e]
      BY <2>3, <1>3, <1>8 DEF Progress, Naming, Unreported, Raise
    <3> QED
      BY <2>3, <3>1, <1>9 DEF Naming, Unreported, Unlisted, Unstarted
  <2> QED
    BY <2>1, <2>2, <2>3
<1>6. Covering(e)'
  BY <1>3, FileAssumption
     DEF Progress, Covering, Quiet, Naming, Beginning, Unstarted, Unlisted,
         Unreported, Raise, Goto, Settle, TypeOK, IInv, Files, Root, Step
<1>7. Ending(e)'
  BY <1>3, FileAssumption
     DEF Progress, Ending, HasRun, Beginning, Unstarted, Raise, Goto, Settle,
         TypeOK, IInv, Files, Root, Step
<1> QED
  BY <1>1, <1>2, <1>4, <1>5, <1>6, <1>7, OneStep DEF Progress

LEMMA EndStep ==
    ASSUME IInv, NEW e \in Execs, NEW s \in {"success", "error", "timeout"}, NEW remains \in {"gone", "loose"}, End(e, s, remains)
    PROVE  IInv'
<1>1. TypeOK'
  BY DEF End, Goto, Settle, TypeOK, IInv, Files, Step, Over
<1>2. kept' = kept /\ \A d \in Execs \ {e} : Same(d)
  BY DEF End, Goto, Settle, TypeOK, IInv, Same
<1>3. TypeOK /\ Progress(e)
  BY DEF IInv
<1>4. Beginning(e)'
  BY <1>3, FileAssumption
     DEF Progress, Beginning, Unstarted, Unlisted, HasRun, End, Goto, Settle,
         TypeOK, IInv, Files
<1>5. Naming(e)'
  BY <1>3, FileAssumption
     DEF Progress, Naming, Unreported, Unlisted, Unstarted, End, Goto, Settle,
         TypeOK, IInv, Files
<1>6. Covering(e)'
  BY <1>3, FileAssumption
     DEF Progress, Covering, Quiet, Naming, Beginning, Unstarted, Unlisted,
         Unreported, End, Goto, Settle, TypeOK, IInv, Files
<1>7. Ending(e)'
  BY <1>3, FileAssumption
     DEF Progress, Ending, HasRun, Beginning, Unstarted, End, Goto, Settle,
         TypeOK, IInv, Files
<1> QED
  BY <1>1, <1>2, <1>4, <1>5, <1>6, <1>7, OneStep DEF Progress

-----------------------------------------------------------------------------

LEMMA InitInv == Init => IInv
<1> SUFFICES ASSUME Init PROVE IInv
  OBVIOUS
<1>1. TypeOK
  BY DEF Init, TypeOK, Step
<1>2. ASSUME NEW e \in Execs PROVE Progress(e)
  BY DEF Init, Progress, Beginning, Naming, Covering, Ending, Quiet, HasRun
<1> QED
  BY <1>1, <1>2 DEF IInv

LEMMA NextInv == IInv /\ [Next]_vars => IInv'
<1> SUFFICES ASSUME IInv, [Next]_vars PROVE IInv'
  OBVIOUS
<1>1. CASE UNCHANGED vars
  <2>1. TypeOK' /\ kept' = kept /\ \A d \in Execs : Same(d)
    BY <1>1 DEF vars, IInv, TypeOK, Same
  <2> QED
    BY <2>1, SameProgress DEF IInv
<1>2. CASE Next
  <2> PICK e \in Execs : NextOf(e)
    BY <1>2 DEF Next
  <2>1. CASE Proceed(e)
    BY <2>1, PrepareStep, LogStartStep, StartStep, EndStep, ListStep, ListedStep,
       RegisterStep, MissStep, RegisterLogStep, LogFinishStep, CleanStep
       DEF Proceed, TimeOut
  <2>2. CASE ~Proceed(e)
    BY <2>2, RefuseStep, NoInterpreterStep, RejectStep, KillStep, WaitFailsStep, RaiseStep,
       TouchStep, EndStep DEF NextOf, Exit
  <2> QED
    BY <2>1, <2>2
<1> QED
  BY <1>1, <1>2

THEOREM Invariance == Spec => []IInv
BY InitInv, NextInv, PTL DEF Spec

-----------------------------------------------------------------------------
(* What follows.                                                           *)

\* Executions, their files, logs and artifacts stay well formed.
THEOREM TypeCorrect == Spec => []TypeOK
<1>1. IInv => TypeOK
  BY DEF IInv
<1> QED
  BY <1>1, Invariance, PTL

\* The start log is there once the code has been started, and the finish log
\* once the call was answered (sandbox_executor.py:140-156 and 188-198).
THEOREM BracketingLogs == Spec => []LogsBracketTheCall
<1>1. IInv => LogsBracketTheCall
  BY DEF IInv, Progress, Beginning, Ending, LogsBracketTheCall
<1> QED
  BY <1>1, Invariance, PTL

\* A good answer names all that the code has left, and one that hides
\* artifacts says error (sandbox_executor.py:161-187).
THEOREM CompleteAnswers == Spec => []AnswerIsComplete
<1>1. IInv => AnswerIsComplete
  BY DEF IInv, Progress, Covering, Naming, Quiet, AnswerIsComplete
<1> QED
  BY <1>1, Invariance, PTL

\* The log artifact lists all other artifacts of its execution
\* (sandbox_executor.py:165-184).
THEOREM CompleteLogs == Spec => []LogTellsAll
<1>1. IInv => LogTellsAll
  BY DEF IInv, Progress, Naming, LogTellsAll
<1> QED
  BY <1>1, Invariance, PTL
===============================================================================
