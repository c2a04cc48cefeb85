-------------------------- MODULE Migrations_proofs --------------------------
(***************************************************************************)
(* For any number of processes and threads: what is recorded is applied,   *)
(* and who serves does so from the current schema.                         *)
(***************************************************************************)
EXTENDS Migrations, TLAPS

(* What a thread in the middle of migrate knows.  It is the link between   *)
(* its position in the scripts and the two tables: all versions below its  *)
(* own are recorded, by itself or by others, and its part of the script    *)
(* has been run.                                                           *)
InScript(t) == thread[t].at \in {"script", "insert", "commit"}

Progress(t) ==
    InScript(t) =>
        /\ thread[t].applied \subseteq versions
        /\ \A u \in Version : u < thread[t].v => u \in versions
        /\ thread[t].at \in {"insert", "commit"} =>
               thread[t].v \in Version /\ thread[t].i = Len(Script[thread[t].v])
        /\ thread[t].at = "script" /\ thread[t].v \in Version =>
               thread[t].i < Len(Script[thread[t].v])
        /\ \A j \in 1..thread[t].i : Script[thread[t].v][j] \in schema

IInv ==
    /\ TypeOK
    /\ RecordedMeansApplied
    /\ ServedMeansCurrent
    /\ \A t \in Threads : Progress(t)

-----------------------------------------------------------------------------

LEMMA ScriptFacts ==
    ASSUME NEW v \in Version
    PROVE  /\ Len(Script[v]) \in 1..2
           /\ Things(v) = {Script[v][j] : j \in 1..Len(Script[v])}
           /\ Things(v) \subseteq AllThings
<1>1. Len(Script[v]) \in 1..2 /\ DOMAIN Script[v] = 1..Len(Script[v])
  <2>1. v = 1 \/ v = 2 \/ v = 3 \/ v = 4
    BY DEF Version
  <2> QED
    BY <2>1 DEF Script
<1> QED
  BY <1>1 DEF Things, AllThings

LEMMA ThreadType ==
    ASSUME TypeOK, NEW t \in Threads, InScript(t)
    PROVE  /\ thread[t] \in Migrating
           /\ thread[t].applied \in SUBSET Version
           /\ thread[t].v \in 1..5 /\ thread[t].i \in 0..2
<1>1. thread[t] \in {Idle, Reading} \cup Migrating
  BY DEF TypeOK
<1> QED
  BY <1>1 DEF Idle, Reading, Migrating, InScript

\* Progress is only ever gained by the tables growing.
LEMMA ProgressStays ==
    ASSUME NEW u \in Threads, Progress(u), thread'[u] = thread[u],
           versions \subseteq versions', schema \subseteq schema'
    PROVE  Progress(u)'
BY DEF Progress, InScript

\* A step that moves one thread.
LEMMA OneThread ==
    ASSUME TypeOK, \A u \in Threads : Progress(u),
           NEW t \in Threads, NEW s, thread' = [thread EXCEPT ![t] = s],
           versions \subseteq versions', schema \subseteq schema',
           Progress(t)'
    PROVE  \A u \in Threads : Progress(u)'
<1> SUFFICES ASSUME NEW u \in Threads
             PROVE  Progress(u)'
  OBVIOUS
<1>1. CASE u = t
  BY <1>1
<1>2. CASE u # t
  <2>1. thread'[u] = thread[u]
    BY <1>2 DEF TypeOK
  <2> QED
    BY <2>1, ProgressStays
<1> QED
  BY <1>1, <1>2

\* A failed request leaves no trace but what its script has made.
LEMMA FailStep ==
    ASSUME IInv, NEW t \in Threads, Fail(t)
    PROVE  IInv'
<1>1. thread' = [thread EXCEPT ![t] = Idle] /\ UNCHANGED <<schema, versions, services>>
  BY DEF Fail, Goto
<1>2. thread'[t] = Idle
  BY <1>1 DEF IInv, TypeOK
<1>3. Progress(t)'
  BY <1>2 DEF Progress, InScript, Idle
<1>4. \A u \in Threads : Progress(u)'
  BY <1>1, <1>3, OneThread DEF IInv
<1>5. TypeOK'
  BY <1>1 DEF IInv, TypeOK, Fail
<1>6. RecordedMeansApplied' /\ ServedMeansCurrent'
  BY <1>1 DEF IInv, RecordedMeansApplied, ServedMeansCurrent
<1> QED
  BY <1>4, <1>5, <1>6 DEF IInv

LEMMA RequestStep ==
    ASSUME IInv, NEW t \in Threads, Request(t)
    PROVE  IInv'
<1>1. thread' = [thread EXCEPT ![t] = Reading] /\ UNCHANGED <<schema, versions, lock, services>>
  BY DEF Request, Goto
<1>2. thread'[t] = Reading
  BY <1>1 DEF IInv, TypeOK
<1>3. Progress(t)'
  BY <1>2 DEF Progress, InScript, Reading
<1>4. \A u \in Threads : Progress(u)'
  BY <1>1, <1>3, OneThread DEF IInv
<1>5. TypeOK'
  BY <1>1 DEF IInv, TypeOK
<1>6. RecordedMeansApplied' /\ ServedMeansCurrent'
  BY <1>1 DEF IInv, RecordedMeansApplied, ServedMeansCurrent
<1> QED
  BY <1>4, <1>5, <1>6 DEF IInv

LEMMA SelectStep ==
    ASSUME IInv, NEW t \in Threads, SelectVersions(t)
    PROVE  IInv'
<1> DEFINE s == At("script", versions, 1, 0)
<1>1. thread' = [thread EXCEPT ![t] = s] /\ UNCHANGED <<schema, versions, lock, services>>
  BY DEF SelectVersions, Goto, Applied
<1>2. versions \in SUBSET Version /\ thread'[t] = s
  BY <1>1 DEF IInv, TypeOK
<1>3. s \in Migrating
  BY <1>2 DEF At, Migrating
<1>4. Progress(t)'
  <2>1. s.at = "script" /\ s.applied = versions /\ s.v = 1 /\ s.i = 0
    BY DEF At
  <2>2. ~ \E u \in Version : u < 1
    BY DEF Version
  <2>3. 0 < Len(Script[1]) /\ 1 \in Version
    BY ScriptFacts DEF Version
  <2> HIDE DEF s
  <2> QED
    BY <1>1, <1>2, <2>1, <2>2, <2>3 DEF Progress, InScript
<1> HIDE DEF s
<1>5. \A u \in Threads : Progress(u)'
  BY <1>1, <1>4, OneThread DEF IInv
<1>6. TypeOK'
  BY <1>1, <1>3 DEF IInv, TypeOK
<1>7. RecordedMeansApplied' /\ ServedMeansCurrent'
  BY <1>1 DEF IInv, RecordedMeansApplied, ServedMeansCurrent
<1> QED
  BY <1>5, <1>6, <1>7 DEF IInv

\* What is true of a thread that moves on to the next version.
LEMMA NextVersion ==
    ASSUME IInv, NEW t \in Threads, InScript(t), thread[t].v \in Version,
           NEW s, s = At("script", thread[t].applied, thread[t].v + 1, 0),
           thread' = [thread EXCEPT ![t] = s], schema' = schema,
           versions \subseteq versions', thread[t].v \in versions'
    PROVE  s \in Migrating /\ \A u \in Threads : Progress(u)'
<1>1. /\ thread[t].applied \in SUBSET Version
      /\ thread[t].applied \subseteq versions
      /\ \A u \in Version : u < thread[t].v => u \in versions
  BY ThreadType DEF IInv, Progress
<1>2. s \in Migrating
  BY <1>1 DEF At, Migrating, Version
<1>3. s.at = "script" /\ s.applied = thread[t].applied /\ s.v = thread[t].v + 1 /\ s.i = 0
  BY DEF At
<1>4. thread'[t] = s
  BY DEF IInv, TypeOK
<1>5. \A u \in Version : u < s.v => u \in versions'
  BY <1>1, <1>3 DEF Version
<1>6. s.v \in Version => s.i < Len(Script[s.v])
  BY <1>3, ScriptFacts
<1>7. Progress(t)'
  BY <1>1, <1>3, <1>4, <1>5, <1>6 DEF Progress, InScript
<1> QED
  BY <1>2, <1>7, OneThread DEF IInv

LEMMA SkipStep ==
    ASSUME IInv, NEW t \in Threads, Skip(t)
    PROVE  IInv'
<1> DEFINE s == At("script", thread[t].applied, thread[t].v + 1, 0)
<1>1. /\ thread' = [thread EXCEPT ![t] = s] /\ UNCHANGED <<schema, versions, lock, services>>
      /\ InScript(t) /\ thread[t].v \in thread[t].applied
  BY DEF Skip, Goto, InScript
<1>2. thread[t].v \in Version /\ thread[t].v \in versions
  BY <1>1, ThreadType DEF IInv, Progress
<1>3. s \in Migrating /\ \A u \in Threads : Progress(u)'
  BY <1>1, <1>2, NextVersion
<1> HIDE DEF s
<1>4. TypeOK'
  BY <1>1, <1>3 DEF IInv, TypeOK
<1>5. RecordedMeansApplied' /\ ServedMeansCurrent'
  BY <1>1 DEF IInv, RecordedMeansApplied, ServedMeansCurrent
<1> QED
  BY <1>3, <1>4, <1>5 DEF IInv

\* The whole script of a version that is about to be inserted or committed.
LEMMA ScriptDone ==
    ASSUME IInv, NEW t \in Threads, thread[t].at \in {"insert", "commit"}
    PROVE  thread[t].v \in Version /\ Things(thread[t].v) \subseteq schema
<1>1. /\ thread[t].v \in Version
      /\ thread[t].i = Len(Script[thread[t].v])
      /\ \A j \in 1..thread[t].i : Script[thread[t].v][j] \in schema
  BY DEF IInv, Progress, InScript
<1> QED
  BY <1>1, ScriptFacts

LEMMA StatementStep ==
    ASSUME IInv, NEW t \in Threads, Statement(t)
    PROVE  IInv'
<1> DEFINE v == thread[t].v
           i == thread[t].i
           thing == Script[v][i + 1]
           s == At(IF i + 1 = Len(Script[v]) THEN "insert" ELSE "script",
                   thread[t].applied, v, i + 1)
<1>1. InScript(t) /\ thread[t].at = "script" /\ v \in Version
  BY DEF Statement, InScript
<1>2. CASE Fail(t)
  BY <1>2, FailStep
<1>3. CASE /\ schema' = schema \cup {thing}
           /\ Goto(t, s)
           /\ UNCHANGED <<versions, lock, services>>
  <2>1. /\ thread[t].applied \in SUBSET Version /\ i \in 0..2
        /\ thread[t].applied \subseteq versions
        /\ \A u \in Version : u < v => u \in versions
        /\ i < Len(Script[v])
        /\ \A j \in 1..i : Script[v][j] \in schema
    BY <1>1, ThreadType DEF IInv, Progress
  <2>2. Len(Script[v]) \in 1..2 /\ thing \in AllThings
    BY <1>1, <2>1, ScriptFacts
  <2>3. s \in Migrating
    BY <1>1, <2>1, <2>2 DEF At, Migrating, Version
  <2>4. /\ s.at = IF i + 1 = Len(Script[v]) THEN "insert" ELSE "script"
        /\ s.applied = thread[t].applied /\ s.v = v /\ s.i = i + 1
    BY DEF At
  <2>5. thread' = [thread EXCEPT ![t] = s] /\ thread'[t] = s
    BY <1>3 DEF Goto, IInv, TypeOK
  <2>6. \A j \in 1..(i + 1) : Script[v][j] \in schema'
    <3> SUFFICES ASSUME NEW j \in 1..(i + 1)
                 PROVE  Script[v][j] \in schema'
      OBVIOUS
    <3>1. j \in 1..i \/ j = i + 1
      BY <2>1
    <3> QED
      BY <1>3, <2>1, <3>1
  <2>7. i + 1 <= Len(Script[v])
    BY <2>1, <2>2
  <2> HIDE DEF s, v, i
  <2>8. Progress(t)'
    BY <1>1, <1>3, <2>1, <2>2, <2>4, <2>5, <2>6, <2>7 DEF Progress, InScript
  <2>9. schema \subseteq schema' /\ versions' = versions
    BY <1>3
  <2>10. \A u \in Threads : Progress(u)'
    BY <2>5, <2>8, <2>9, OneThread DEF IInv
  <2>11. TypeOK'
    BY <1>3, <2>2, <2>3, <2>5 DEF IInv, TypeOK
  <2>12. RecordedMeansApplied'
    BY <2>9 DEF IInv, RecordedMeansApplied
  <2>13. ServedMeansCurrent'
    BY <1>3, <2>2 DEF IInv, ServedMeansCurrent
  <2> QED
    BY <2>10, <2>11, <2>12, <2>13 DEF IInv
<1> QED
  BY <1>2, <1>3 DEF Statement

LEMMA InsertStep ==
    ASSUME IInv, NEW t \in Threads, InsertVersion(t)
    PROVE  IInv'
<1> DEFINE s == At("commit", thread[t].applied, thread[t].v, thread[t].i)
<1>1. CASE Fail(t)
  BY <1>1, FailStep
<1>2. CASE lock' = t /\ Goto(t, s) /\ UNCHANGED <<schema, versions, services>>
  <2>1. InScript(t) /\ thread[t].at = "insert"
    BY DEF InsertVersion, InScript
  <2>2. thread[t].applied \in SUBSET Version /\ thread[t].v \in 1..5 /\ thread[t].i \in 0..2
    BY <2>1, ThreadType DEF IInv
  <2>3. s \in Migrating
    BY <2>2 DEF At, Migrating
  <2>4. /\ s.at = "commit" /\ s.applied = thread[t].applied
        /\ s.v = thread[t].v /\ s.i = thread[t].i
    BY DEF At
  <2> HIDE DEF s
  <2>5. thread' = [thread EXCEPT ![t] = s] /\ thread'[t] = s
    BY <1>2 DEF Goto, IInv, TypeOK
  <2>6. Progress(t)'
    BY <1>2, <2>1, <2>4, <2>5 DEF IInv, Progress, InScript
  <2>7. \A u \in Threads : Progress(u)'
    BY <1>2, <2>5, <2>6, OneThread DEF IInv
  <2>8. TypeOK'
    BY <1>2, <2>3, <2>5 DEF IInv, TypeOK
  <2>9. RecordedMeansApplied' /\ ServedMeansCurrent'
    BY <1>2 DEF IInv, RecordedMeansApplied, ServedMeansCurrent
  <2> QED
    BY <2>7, <2>8, <2>9 DEF IInv
<1> QED
  BY <1>1, <1>2 DEF InsertVersion

LEMMA CommitStep ==
    ASSUME IInv, NEW t \in Threads, Commit(t)
    PROVE  IInv'
<1> DEFINE s == At("script", thread[t].applied, thread[t].v + 1, 0)
<1>1. /\ thread' = [thread EXCEPT ![t] = s]
      /\ versions' = versions \cup {thread[t].v}
      /\ lock' = Nobody /\ UNCHANGED <<schema, services>>
      /\ InScript(t) /\ thread[t].at = "commit"
  BY DEF Commit, Goto, InScript
<1>2. thread[t].v \in Version /\ Things(thread[t].v) \subseteq schema
  BY <1>1, ScriptDone
<1>3. s \in Migrating /\ \A u \in Threads : Progress(u)'
  BY <1>1, <1>2, NextVersion
<1> HIDE DEF s
<1>4. TypeOK'
  BY <1>1, <1>2, <1>3 DEF IInv, TypeOK
<1>5. RecordedMeansApplied'
  BY <1>1, <1>2 DEF IInv, RecordedMeansApplied
<1>6. ServedMeansCurrent'
  BY <1>1, <1>2 DEF IInv, ServedMeansCurrent
<1> QED
  BY <1>3, <1>4, <1>5, <1>6 DEF IInv

LEMMA ServeStep ==
    ASSUME IInv, NEW t \in Threads, Serve(t)
    PROVE  IInv'
<1>1. /\ thread' = [thread EXCEPT ![t] = Idle]
      /\ services' = [services EXCEPT ![t[1]] = TRUE]
      /\ UNCHANGED <<schema, versions, lock>>
      /\ InScript(t) /\ thread[t].v = 5
  BY DEF Serve, Goto, InScript
<1>2. versions = Version
  <2>1. \A u \in Version : u \in versions
    BY <1>1 DEF IInv, Progress, Version
  <2> QED
    BY <2>1 DEF IInv, TypeOK
<1>3. schema = AllThings
  BY <1>2 DEF IInv, TypeOK, RecordedMeansApplied, AllThings
<1>4. thread'[t] = Idle
  BY <1>1 DEF IInv, TypeOK
<1>5. Progress(t)'
  BY <1>4 DEF Progress, InScript, Idle
<1>6. \A u \in Threads : Progress(u)'
  BY <1>1, <1>5, OneThread DEF IInv
<1>7. TypeOK'
  BY <1>1 DEF IInv, TypeOK, Threads
<1>8. RecordedMeansApplied'
  BY <1>1 DEF IInv, RecordedMeansApplied
<1>9. ServedMeansCurrent'
  BY <1>1, <1>2, <1>3 DEF ServedMeansCurrent
<1> QED
  BY <1>6, <1>7, <1>8, <1>9 DEF IInv

LEMMA CrashStep ==
    ASSUME IInv, NEW p \in Processes, Crash(p)
    PROVE  IInv'
<1>1. /\ services' = [services EXCEPT ![p] = FALSE]
      /\ thread' = [t \in Threads |-> IF t[1] = p THEN Idle ELSE thread[t]]
      /\ lock' = IF lock \in {p} \X Slots THEN Nobody ELSE lock
      /\ UNCHANGED <<schema, versions>>
  BY DEF Crash
<1>2. TypeOK'
  BY <1>1 DEF IInv, TypeOK
<1>3. \A u \in Threads : Progress(u)'
  <2> SUFFICES ASSUME NEW u \in Threads
               PROVE  Progress(u)'
    OBVIOUS
  <2>1. CASE u[1] = p
    BY <1>1, <2>1 DEF Progress, InScript, Idle
  <2>2. CASE u[1] # p
    BY <1>1, <2>2, ProgressStays DEF IInv
  <2> QED
    BY <2>1, <2>2
<1>4. RecordedMeansApplied'
  BY <1>1 DEF IInv, RecordedMeansApplied
<1>5. ServedMeansCurrent'
  BY <1>1 DEF IInv, TypeOK, ServedMeansCurrent
<1> QED
  BY <1>2, <1>3, <1>4, <1>5 DEF IInv

-----------------------------------------------------------------------------

LEMMA InitHolds == Init => IInv
<1> SUFFICES ASSUME Init
             PROVE  IInv
  OBVIOUS
<1> PICK k \in 0..4 : versions = 1..k /\ schema = UNION {Things(v) : v \in 1..k}
  BY DEF Init
<1>1. 1..k \subseteq Version
  BY DEF Version
<1>2. schema \subseteq AllThings
  BY <1>1 DEF AllThings
<1>3. TypeOK
  BY <1>1, <1>2 DEF Init, TypeOK, Threads
<1>4. RecordedMeansApplied
  BY DEF RecordedMeansApplied
<1>5. ServedMeansCurrent
  BY DEF Init, ServedMeansCurrent
<1>6. \A t \in Threads : Progress(t)
  BY DEF Init, Progress, InScript, Idle
<1> QED
  BY <1>3, <1>4, <1>5, <1>6 DEF IInv

LEMMA NextKeeps == IInv /\ [Next]_vars => IInv'
<1> SUFFICES ASSUME IInv, [Next]_vars
             PROVE  IInv'
  OBVIOUS
<1>1. CASE UNCHANGED vars
  BY <1>1 DEF IInv, TypeOK, RecordedMeansApplied, ServedMeansCurrent, Progress, InScript, vars
<1>2. ASSUME NEW t \in Threads, Request(t)
      PROVE  IInv'
  BY <1>2, RequestStep
<1>3. ASSUME NEW t \in Threads, Step(t)
      PROVE  IInv'
  <2>1. CASE Locked(t)
    BY <2>1, FailStep DEF Locked
  <2> QED
    BY <1>3, <2>1, SelectStep, SkipStep, StatementStep, InsertStep, CommitStep, ServeStep DEF Step
<1>4. ASSUME NEW p \in Processes, Crash(p)
      PROVE  IInv'
  BY <1>4, CrashStep
<1> QED
  BY <1>1, <1>2, <1>3, <1>4 DEF Next

THEOREM Invariance == Spec => []IInv
BY InitHolds, NextKeeps, PTL DEF Spec

\* The variables keep their types.
THEOREM TypeCorrect == Spec => []TypeOK
<1>1. IInv => TypeOK
  BY DEF IInv
<1> QED
  BY <1>1, Invariance, PTL

\* A version that is recorded is applied, whatever crashes and races.
THEOREM AppliedWhenRecorded == Spec => []RecordedMeansApplied
<1>1. IInv => RecordedMeansApplied
  BY DEF IInv
<1> QED
  BY <1>1, Invariance, PTL

\* Whoever serves, serves from the current schema.
THEOREM CurrentWhenServing == Spec => []ServedMeansCurrent
<1>1. IInv => ServedMeansCurrent
  BY DEF IInv
<1> QED
  BY <1>1, Invariance, PTL

-----------------------------------------------------------------------------
(* The write lock, and what a script leaves behind.                        *)

\* A thread holds the lock exactly while it has inserted a version that it
\* has not committed; nobody else has recorded that version meanwhile.
LockInv ==
    /\ \A t \in Threads : thread[t].at = "commit" => lock = t
    /\ lock # Nobody => thread[lock].at = "commit" /\ thread[lock].v \notin versions

\* What a step of a thread does to the lock and to the other threads.
LEMMA Others ==
    ASSUME TypeOK, NEW t \in Threads, NEW s, Goto(t, s)
    PROVE  thread'[t] = s /\ \A u \in Threads \ {t} : thread'[u] = thread[u]
BY DEF TypeOK, Goto

\* A step that leaves the lock and the versions, of a thread that neither
\* holds the lock nor takes it.
LEMMA LockApart ==
    ASSUME TypeOK, LockInv, NEW t \in Threads, thread[t].at # "commit",
           NEW s, Goto(t, s), s.at # "commit", UNCHANGED <<lock, versions>>
    PROVE  LockInv'
<1>1. thread'[t] = s /\ \A u \in Threads \ {t} : thread'[u] = thread[u]
  BY Others
<1>2. lock # Nobody => lock \in Threads \ {t}
  BY DEF LockInv, TypeOK
<1> QED
  BY <1>1, <1>2 DEF LockInv

LEMMA LockFail ==
    ASSUME TypeOK, LockInv, NEW t \in Threads, thread[t].at # "commit", Fail(t)
    PROVE  LockInv'
<1>1. Goto(t, Idle) /\ UNCHANGED <<lock, versions>> /\ Idle.at # "commit"
  BY DEF Fail, LockInv, Idle
<1> QED
  BY <1>1, LockApart

LEMMA LockStep ==
    ASSUME IInv, LockInv, [Next]_vars
    PROVE  LockInv'
<1>1. TypeOK
  BY DEF IInv
<1>2. \A at, a, v, i : At(at, a, v, i).at = at /\ At(at, a, v, i).v = v
  BY DEF At
<1>3. Idle.at = "idle" /\ Reading.at = "read"
  BY DEF Idle, Reading
<1>4. ASSUME NEW t \in Threads, Request(t)
      PROVE  LockInv'
  BY <1>1, <1>3, <1>4, LockApart DEF Request
<1>5. ASSUME NEW t \in Threads, SelectVersions(t)
      PROVE  LockInv'
  BY <1>1, <1>2, <1>5, LockApart DEF SelectVersions
<1>6. ASSUME NEW t \in Threads, Skip(t)
      PROVE  LockInv'
  BY <1>1, <1>2, <1>6, LockApart DEF Skip
<1>7. ASSUME NEW t \in Threads, Statement(t)
      PROVE  LockInv'
  <2>1. thread[t].at = "script"
    BY <1>7 DEF Statement
  <2>2. CASE Fail(t)
    BY <1>1, <2>1, <2>2, LockFail
  <2>3. CASE ~Fail(t)
    <3>1. PICK at \in {"insert", "script"} :
             Goto(t, At(at, thread[t].applied, thread[t].v, thread[t].i + 1))
      BY <1>7, <2>3 DEF Statement
    <3>2. UNCHANGED <<lock, versions>>
      BY <1>7, <2>3 DEF Statement
    <3> QED
      BY <1>1, <1>2, <2>1, <3>1, <3>2, LockApart
  <2> QED
    BY <2>2, <2>3
<1>8. ASSUME NEW t \in Threads, InsertVersion(t)
      PROVE  LockInv'
  <2>1. thread[t].at = "insert" /\ MayWrite(t)
    BY <1>8 DEF InsertVersion
  <2>2. CASE Fail(t)
    BY <1>1, <2>1, <2>2, LockFail
  <2>3. CASE ~Fail(t)
    <3>1. PICK s : s = At("commit", thread[t].applied, thread[t].v, thread[t].i)
      OBVIOUS
    <3>2. Goto(t, s) /\ lock' = t /\ versions' = versions /\ thread[t].v \notin versions
      BY <1>8, <2>3, <3>1 DEF InsertVersion
    <3>3. s.at = "commit" /\ s.v = thread[t].v
      BY <1>2, <3>1
    <3>4. lock = Nobody
      BY <2>1 DEF MayWrite, LockInv
    <3>5. \A u \in Threads : thread[u].at # "commit"
      BY <3>4, NobodyAssumption DEF LockInv, Threads
    <3>6. thread'[t] = s /\ \A u \in Threads \ {t} : thread'[u] = thread[u]
      BY <1>1, <3>2, Others
    <3> QED
      BY <3>2, <3>3, <3>5, <3>6 DEF LockInv
  <2> QED
    BY <2>2, <2>3
<1>9. ASSUME NEW t \in Threads, Commit(t)
      PROVE  LockInv'
  <2>1. PICK s : s = At("script", thread[t].applied, thread[t].v + 1, 0)
    OBVIOUS
  <2>2. thread[t].at = "commit" /\ lock' = Nobody /\ Goto(t, s) /\ s.at = "script"
    BY <1>2, <1>9, <2>1 DEF Commit
  <2>3. \A u \in Threads \ {t} : thread[u].at # "commit"
    BY <2>2 DEF LockInv
  <2>4. thread'[t] = s /\ \A u \in Threads \ {t} : thread'[u] = thread[u]
    BY <1>1, <2>2, Others
  <2> QED
    BY <2>2, <2>3, <2>4 DEF LockInv
<1>10. ASSUME NEW t \in Threads, Locked(t)
       PROVE  LockInv'
  BY <1>1, <1>10, LockFail DEF Locked
<1>11. ASSUME NEW t \in Threads, Serve(t)
       PROVE  LockInv'
  BY <1>1, <1>3, <1>11, LockApart DEF Serve
<1>12. ASSUME NEW p \in Processes, Crash(p)
       PROVE  LockInv'
  <2>1. /\ thread' = [t \in Threads |-> IF t[1] = p THEN Idle ELSE thread[t]]
        /\ lock' = IF lock \in {p} \X Slots THEN Nobody ELSE lock
        /\ versions' = versions
    BY <1>12 DEF Crash
  <2>2. ASSUME NEW t \in Threads, thread'[t].at = "commit"
        PROVE  lock' = t
    <3>1. t[1] # p /\ thread[t].at = "commit"
      BY <1>3, <2>1, <2>2
    <3>2. lock = t /\ t \notin {p} \X Slots
      BY <3>1 DEF LockInv
    <3> QED
      BY <2>1, <3>2
  <2>3. ASSUME lock' # Nobody
        PROVE  thread'[lock'].at = "commit" /\ thread'[lock'].v \notin versions'
    <3>1. lock' = lock /\ lock \in Threads /\ lock \notin {p} \X Slots
      BY <1>1, <2>1, <2>3 DEF TypeOK
    <3>2. lock[1] # p
      BY <3>1 DEF Threads
    <3>3. thread'[lock] = thread[lock]
      BY <2>1, <3>1, <3>2
    <3> QED
      BY <2>1, <2>3, <3>1, <3>3 DEF LockInv
  <2> QED
    BY <2>2, <2>3 DEF LockInv
<1>13. CASE UNCHANGED vars
  BY <1>13 DEF vars, LockInv
<1> QED
  BY <1>4, <1>5, <1>6, <1>7, <1>8, <1>9, <1>10, <1>11, <1>12, <1>13 DEF Next, Step

\* A thread that has run the ALTER TABLE, and is going to record it.
Due(t) == InScript(t) /\ thread[t].v = 2 /\ thread[t].i > 0

\* A thread that is due stays so, or its version gets recorded, or another is
\* due: only then does it find the database locked.
LEMMA DueStep ==
    ASSUME IInv, LockInv, NEW t \in Threads, Request(t) \/ Step(t), Due(t), 2 \notin versions
    PROVE  2 \in versions' \/ \E u \in Threads : Due(u)'
<1>1. TypeOK /\ thread[t] \in Migrating /\ thread[t].v = 2 /\ thread[t].i \in 1..2
  BY ThreadType DEF IInv, Due
<1>2. thread[t].at \in {"script", "insert", "commit"}
  BY DEF Due, InScript
<1>3. Script[2] = <<"runs.status", "run_events">> /\ Len(Script[2]) = 2 /\ 2 \in Version
  BY DEF Script, Version
<1>4. ~Request(t) /\ ~SelectVersions(t) /\ ~Serve(t)
  BY <1>1, <1>2 DEF Request, SelectVersions, Serve, Idle
<1>5. ~Skip(t)
  BY <1>1, <1>2 DEF Skip, IInv, Progress, InScript
<1>6. CASE Statement(t)
  <2>1. thread[t].i = 1
    <3>1. thread[t].at = "script"
      BY <1>6 DEF Statement
    <3>2. thread[t].i < Len(Script[2])
      BY <1>1, <1>3, <3>1 DEF IInv, Progress, InScript
    <3> QED
      BY <1>1, <1>3, <3>2
  <2>2. PICK at \in {"insert", "script"} : Goto(t, At(at, thread[t].applied, 2, 2))
    <3>1. Script[2][2] = "run_events" /\ Repeatable("run_events")
      BY <1>3 DEF Repeatable
    <3> QED
      BY <1>1, <1>6, <2>1, <3>1 DEF Statement
  <2>3. PICK s : s = At(at, thread[t].applied, 2, 2)
    OBVIOUS
  <2>4. s.at = at /\ s.v = 2 /\ s.i = 2
    BY <2>3 DEF At
  <2>5. thread'[t] = s
    BY <1>1, <2>2, <2>3, Others
  <2> QED
    BY <2>4, <2>5 DEF Due, InScript
<1>7. CASE InsertVersion(t)
  <2>1. PICK s : s = At("commit", thread[t].applied, 2, thread[t].i)
    OBVIOUS
  <2>2. s.at = "commit" /\ s.v = 2 /\ s.i = thread[t].i
    BY <2>1 DEF At
  <2>3. Goto(t, s)
    BY <1>1, <1>7, <2>1 DEF InsertVersion
  <2>4. thread'[t] = s
    BY <1>1, <2>3, Others
  <2> QED
    BY <2>2, <2>4, <1>1 DEF Due, InScript
<1>8. CASE Commit(t)
  BY <1>1, <1>8 DEF Commit
<1>9. CASE Locked(t)
  <2>1. lock \in Threads \ {t} /\ thread[lock].at = "commit" /\ thread[lock].v \notin versions
    BY <1>1, <1>9 DEF Locked, MayWrite, LockInv, TypeOK
  <2>2. /\ thread[lock].v \in Version /\ thread[lock].i = Len(Script[thread[lock].v])
        /\ \A u \in Version : u < thread[lock].v => u \in versions
    BY <2>1 DEF IInv, Progress, InScript
  <2>3. 1 \in versions
    BY <1>1, <1>2 DEF IInv, Progress, InScript, Version
  <2>4. thread[lock].v = 2
    BY <2>1, <2>2, <2>3, <1>3 DEF Version
  <2>5. thread'[lock] = thread[lock]
    BY <1>1, <1>9, <2>1, Others DEF Locked, Fail
  <2>6. thread[lock].i = 2
    BY <2>2, <2>4, <1>3
  <2> QED
    BY <2>1, <2>4, <2>5, <2>6 DEF Due, InScript
<1> QED
  BY <1>4, <1>5, <1>6, <1>7, <1>8, <1>9 DEF Step

\* The statement that adds the column is the first of version 2.
LEMMA ColumnStep ==
    ASSUME IInv, NEW t \in Threads, Request(t) \/ Step(t),
           "runs.status" \notin schema, "runs.status" \in schema'
    PROVE  Due(t)'
<1>1. Statement(t) /\ ~Fail(t)
  BY DEF Request, Step, SelectVersions, Skip, Statement, InsertVersion, Commit, Locked, Serve, Fail
<1>2. /\ thread[t].at = "script" /\ thread[t].v \in Version
      /\ "runs.status" = Script[thread[t].v][thread[t].i + 1]
  BY <1>1 DEF Statement
<1>3. thread[t].i \in 0..1 /\ thread[t].i < Len(Script[thread[t].v])
  <2>1. thread[t].i \in 0..2 /\ thread[t].i < Len(Script[thread[t].v])
    BY <1>2, ThreadType DEF IInv, Progress, InScript
  <2>2. Len(Script[thread[t].v]) \in 1..2
    BY <1>2, ScriptFacts
  <2>3. \A i \in 0..2, l \in 1..2 : i < l => i \in 0..1
    OBVIOUS
  <2> QED
    BY <2>1, <2>2, <2>3
<1>4. thread[t].v = 2 /\ thread[t].i = 0
  <2>1. thread[t].v \in {1, 2, 3, 4}
    BY <1>2 DEF Version
  <2> QED
    BY <1>2, <1>3, <2>1 DEF Script
<1>5. PICK at \in {"insert", "script"} : Goto(t, At(at, thread[t].applied, 2, 1))
  BY <1>1, <1>4 DEF Statement
<1>6. PICK s : s = At(at, thread[t].applied, 2, 1)
  OBVIOUS
<1>7. s.at = at /\ s.v = 2 /\ s.i = 1
  BY <1>6 DEF At
<1>8. thread'[t] = s
  BY <1>5, <1>6, Others DEF IInv
<1> QED
  BY <1>7, <1>8 DEF Due, InScript

LEMMA StrandStep ==
    ASSUME IInv, LockInv, NEW t \in Threads, Request(t) \/ Step(t), ~Stranded
    PROVE  ~Stranded'
<1>1. Stranded' => "runs.status" \in schema' /\ 2 \notin versions' /\ ~ \E u \in Threads : Due(u)'
  BY DEF Stranded, Due, InScript
<1>2. versions \subseteq versions'
  BY DEF Request, Step, SelectVersions, Skip, Statement, InsertVersion, Commit, Locked, Serve, Fail
<1>3. CASE 2 \in versions
  BY <1>1, <1>2, <1>3
<1>4. CASE "runs.status" \notin schema
  BY <1>1, <1>4, ColumnStep
<1>5. CASE 2 \notin versions /\ \E u \in Threads : Due(u)
  <2>1. PICK u \in Threads : Due(u)
    BY <1>5
  <2>2. CASE u = t
    BY <1>1, <1>5, <2>1, <2>2, DueStep
  <2>3. CASE u # t
    <3>1. thread'[u] = thread[u]
      BY <2>3, Others DEF IInv, Request, Step, SelectVersions, Skip, Statement, InsertVersion,
                          Commit, Locked, Serve, Fail
    <3> QED
      BY <1>1, <2>1, <3>1 DEF Due, InScript
  <2> QED
    BY <2>2, <2>3
<1> QED
  BY <1>3, <1>4, <1>5 DEF Stranded, Due, InScript

\* The threads of any number of processes may race each other through the
\* scripts, fail and find the database locked: a column without its version
\* is left only by the death of a process.
THEOREM Strandings == Spec => OnlyCrashesStrand
<1>1. Init => LockInv
  BY DEF Init, LockInv, Idle
<1>2. IInv /\ LockInv /\ [Next]_vars => LockInv'
  BY LockStep
<1>3. IInv /\ LockInv /\ [Next]_vars =>
          [~Stranded /\ Stranded' => \E p \in Processes : Crash(p)]_vars
  BY StrandStep DEF Next
<1> QED
  BY <1>1, <1>2, <1>3, Invariance, PTL DEF Spec, OnlyCrashesStrand
=============================================================================
