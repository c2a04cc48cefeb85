-------------------------- MODULE RunsAndStream_proofs --------------------------
(***************************************************************************)
(* Proofs about runs and about the stream that tells a page of one:        *)
(* RunLifecycle, for any set of workers, runs, metadata keys and           *)
(* artifacts, and AnalysisStream, for any set of threads and whatever a    *)
(* backend may write.                                                      *)
(***************************************************************************)
EXTENDS RunLifecycle, AnalysisStream, FiniteSetTheorems, SequenceTheorems, TLAPS

-----------------------------------------------------------------------------
(* The inductive invariant of RunLifecycle.  Each part says what a method  *)
(* that is between two statements can still count on, although other       *)
(* workers have run in the meantime.                                       *)

\* An update has read an existing run that was not terminal.  The run of an
\* append exists, and so does the artifact it reports.  What a summary has
\* read so far is a lower bound of what is stored.
Knows(w) ==
    /\ IsUpdate(w) => Exists(call[w].run) /\ MayUpdate(call[w].seen)
    /\ IsAppend(w) => /\ Exists(call[w].run)
                      /\ call[w].event \in artifacts[call[w].run] \cup {NoArtifact}
    /\ IsSummary(w) =>
         /\ call[w].pos >= 2 => call[w].before \subseteq events[call[w].run]
         /\ call[w].pos >= 3 => /\ call[w].before \subseteq call[w].events
                                /\ call[w].events \subseteq events[call[w].run]
         /\ call[w].pos = 4 => call[w].events \ {NoArtifact} \subseteq call[w].artifacts

\* A stored event belongs to a run and reports a registered artifact.
EventsInv ==
    \A r \in Runs :
        /\ events[r] # {} => Exists(r)
        /\ events[r] \subseteq artifacts[r] \cup {NoArtifact}

\* Nothing is stored in the row of a run that does not exist.
AbsentInv == \A r \in Runs : ~Exists(r) => run[r].meta = {}

IInv == TypeOK /\ (\A w \in Workers : Knows(w)) /\ EventsInv /\ AbsentInv

-----------------------------------------------------------------------------
(* The locals of a worker are well formed and told apart by their op.      *)

LEMMA RowType ==
    /\ Contract!Absent \in Contract!Row
    /\ ~Contract!Exists(Contract!Absent)
    /\ \A s \in Status, m \in SUBSET Keys : [status |-> s, meta |-> m] \in Contract!Row
    /\ \A row \in Contract!Row : row.meta \subseteq Keys
BY DEF Contract!Absent, Contract!Row, Contract!Exists, Status, Contract!Status, Contract!Terminal

LEMMA CallType ==
    ASSUME TypeOK, NEW w \in Workers
    PROVE  /\ IsUpdate(w)  => call[w] \in UpdateCall
           /\ IsAppend(w)  => call[w] \in AppendCall
           /\ IsSummary(w) => call[w] \in SummaryCall
BY DEF TypeOK, IsUpdate, IsAppend, IsSummary, Idle, UpdateCall, AppendCall, SummaryCall

\* A step either leaves every run row alone, or creates one row, or is an
\* update's write of one row.
LEMMA RowSteps ==
    ASSUME TypeOK, [Next]_vars
    PROVE  \/ run' = run
           \/ \E r \in Runs, m \in SUBSET Keys :
                ~Exists(r) /\ run' = [run EXCEPT ![r] = [status |-> "created", meta |-> m]]
           \/ \E w \in Workers : WriteStatus(w)
<1>1. ASSUME NEW w \in Workers, NEW r \in Runs, NEW m \in SUBSET Keys, EnsureRun(w, r, m)
      PROVE  \/ run' = run
             \/ ~Exists(r) /\ run' = [run EXCEPT ![r] = [status |-> "created", meta |-> m]]
  BY <1>1 DEF EnsureRun, Upserted, Exists, TypeOK
<1>2. ASSUME NEW w \in Workers, NEW r \in Runs, NEW m \in SUBSET Keys, CreateRun(w, r, m)
      PROVE  ~Exists(r) /\ run' = [run EXCEPT ![r] = [status |-> "created", meta |-> m]]
  BY <1>2 DEF CreateRun, Contract!Create, Exists
<1>3. ASSUME NEW w \in Workers,
             \/ WriteEvent(w) \/ SummaryRead(w) \/ EndSummary(w) \/ Crash(w)
             \/ \E r \in Runs :
                  \/ BeginSummary(w, r)
                  \/ \E e \in Event : ReadForAppend(w, r, e)
                  \/ \E a \in Artifacts : RegisterArtifact(w, r, a)
                  \/ \E m \in SUBSET Keys, s \in Status, given \in BOOLEAN :
                       ReadForUpdate(w, r, s, given, m)
      PROVE  run' = run
  BY <1>3 DEF WriteEvent, SummaryRead, EndSummary, Crash, BeginSummary,
     ReadForAppend, RegisterArtifact, ReadForUpdate
<1>4. CASE UNCHANGED vars
  BY <1>4 DEF vars
<1>5. CASE Next
  <2>1. PICK w \in Workers : NextOf(w)
    BY <1>5 DEF Next
  <2> QED
    BY <2>1, <1>1, <1>2, <1>3 DEF NextOf, CallOf
<1> QED
  BY <1>4, <1>5

-----------------------------------------------------------------------------
(* Type correctness.                                                       *)

\* The definitions of a worker's locals.
LEMMA CallConstructors ==
    ASSUME TypeOK
    PROVE  /\ \A r \in Runs, s \in Status, given \in BOOLEAN, m \in SUBSET Keys :
                  Updating(r, run[r], s, given, m) \in UpdateCall
           /\ \A r \in Runs, e \in Event : Appending(r, e) \in AppendCall
           /\ \A r \in Runs, pos \in 1..4, row \in Contract!Row, evs \in SUBSET Event,
                 arts \in SUBSET Artifacts, before \in SUBSET Event :
                  Summary(r, pos, row, evs, arts, before) \in SummaryCall
BY DEF TypeOK, Updating, Appending, Summary, UpdateCall, AppendCall, SummaryCall

LEMMA TypeStep == TypeOK /\ [Next]_vars => TypeOK'
<1> SUFFICES ASSUME TypeOK, [Next]_vars PROVE TypeOK'
  OBVIOUS
<1> USE DEF TypeOK, Start, Return
<1>1. ASSUME NEW w \in Workers, WriteStatus(w) PROVE TypeOK'
  <2>1. call[w] \in UpdateCall
    BY <1>1, CallType DEF WriteStatus
  <2>2. Merged(call[w]) \in SUBSET Keys
    BY <2>1, RowType DEF Merged, UpdateCall
  <2>3. [status |-> call[w].status, meta |-> Merged(call[w])] \in Contract!Row
    BY <2>1, <2>2, RowType DEF UpdateCall
  <2> QED
    BY <1>1, <2>1, <2>3 DEF WriteStatus, UpdateCall
<1>2. ASSUME NEW w \in Workers, WriteEvent(w) PROVE TypeOK'
  BY <1>2, CallType DEF WriteEvent, AppendCall
<1>3. ASSUME NEW w \in Workers, SummaryRead(w) PROVE TypeOK'
  <2>1. call[w] \in SummaryCall
    BY <1>3, CallType DEF SummaryRead
  <2>2. /\ call[w].run \in Runs /\ call[w].pos + 1 \in 1..4
        /\ call[w].row \in Contract!Row /\ call[w].events \in SUBSET Event
        /\ call[w].artifacts \in SUBSET Artifacts /\ call[w].before \in SUBSET Event
        /\ run[call[w].run] \in Contract!Row /\ events[call[w].run] \in SUBSET Event
        /\ artifacts[call[w].run] \in SUBSET Artifacts
    BY <1>3, <2>1 DEF SummaryRead, SummaryCall
  <2>3. call'[w] \in SummaryCall
    BY <1>3, <2>2, CallConstructors DEF SummaryRead
  <2>4. call' = [call EXCEPT ![w] = call'[w]]
    BY <1>3 DEF SummaryRead
  <2> QED
    BY <1>3, <2>3, <2>4 DEF SummaryRead
<1>4. ASSUME NEW w \in Workers, EndSummary(w) \/ Crash(w) PROVE TypeOK'
  BY <1>4 DEF EndSummary, Crash
<1>5. ASSUME NEW w \in Workers, NEW r \in Runs, BeginSummary(w, r) PROVE TypeOK'
  <2>1. Summary(r, 1, Contract!Absent, {}, {}, {}) \in SummaryCall
    BY CallConstructors, RowType
  <2> QED
    BY <1>5, <2>1 DEF BeginSummary
<1>6. ASSUME NEW w \in Workers, NEW r \in Runs, NEW e \in Event, ReadForAppend(w, r, e)
      PROVE  TypeOK'
  BY <1>6, CallConstructors DEF ReadForAppend
<1>7. ASSUME NEW w \in Workers, NEW r \in Runs, NEW a \in Artifacts, RegisterArtifact(w, r, a)
      PROVE  TypeOK'
  BY <1>7 DEF RegisterArtifact
<1>8. ASSUME NEW w \in Workers, NEW r \in Runs, NEW m \in SUBSET Keys,
             CreateRun(w, r, m) \/ EnsureRun(w, r, m)
      PROVE  TypeOK'
  <2>1. [status |-> "created", meta |-> m] \in Contract!Row
    BY RowType DEF Status, Contract!Status
  <2> QED
    BY <1>8, <2>1 DEF CreateRun, EnsureRun, Upserted, Contract!Create
<1>9. ASSUME NEW w \in Workers, NEW r \in Runs, NEW m \in SUBSET Keys, NEW s \in Status,
             NEW given \in BOOLEAN, ReadForUpdate(w, r, s, given, m)
      PROVE  TypeOK'
  BY <1>9, CallConstructors DEF ReadForUpdate
<1>10. CASE UNCHANGED vars
  BY <1>10 DEF vars
<1> HIDE DEF TypeOK, Start, Return
<1>11. CASE Next
  <2>1. PICK w \in Workers : NextOf(w)
    BY <1>11 DEF Next
  <2>2. CASE \E r \in Runs : CallOf(w, r)
    BY <2>2, <1>5, <1>6, <1>7, <1>8, <1>9 DEF CallOf
  <2> QED
    BY <2>1, <2>2, <1>1, <1>2, <1>3, <1>4 DEF NextOf
<1> QED
  BY <1>10, <1>11

\* Every table and every worker's locals keep their shape.
THEOREM TypeCorrect == Spec => []TypeOK
<1>1. Init => TypeOK
  BY RowType DEF Init, TypeOK
<1> QED
  BY <1>1, TypeStep, PTL DEF Spec

-----------------------------------------------------------------------------
(* The invariant.                                                          *)

LEMMA InitInv == Init => IInv
BY RowType DEF Init, IInv, TypeOK, Knows, EventsInv, AbsentInv,
   IsUpdate, IsAppend, IsSummary, Idle, Contract!Absent

\* Rows, events and artifacts only ever appear.
LEMMA Growth ==
    ASSUME TypeOK, [Next]_vars, NEW r \in Runs
    PROVE  /\ Exists(r) => Exists(r)'
           /\ events[r] \subseteq events'[r]
           /\ artifacts[r] \subseteq artifacts'[r]
<1>1. Exists(r) => Exists(r)'
  <2>1. CASE run' = run
    BY <2>1 DEF Exists
  <2>2. ASSUME NEW q \in Runs, NEW m \in SUBSET Keys, ~Exists(q),
               run' = [run EXCEPT ![q] = [status |-> "created", meta |-> m]]
        PROVE  Exists(r) => Exists(r)'
    BY <2>2 DEF Exists, Contract!Exists, TypeOK
  <2>3. ASSUME NEW w \in Workers, WriteStatus(w)
        PROVE  Exists(r) => Exists(r)'
    <3>1. call[w] \in UpdateCall
      BY <2>3, CallType DEF WriteStatus
    <3>2. call[w].status # "absent"
      BY <3>1 DEF UpdateCall, Status, Contract!Status, Contract!Terminal
    <3> QED
      BY <2>3, <3>1, <3>2 DEF WriteStatus, Exists, Contract!Exists, TypeOK, UpdateCall
  <2> QED
    BY <2>1, <2>2, <2>3, RowSteps
<1>2. CASE UNCHANGED vars
  BY <1>1, <1>2 DEF vars
<1>3. ASSUME NEW w \in Workers, NextOf(w)
      PROVE  events[r] \subseteq events'[r] /\ artifacts[r] \subseteq artifacts'[r]
  <2>1. CASE WriteEvent(w)
    BY <2>1 DEF WriteEvent, TypeOK
  <2>2. ASSUME NEW q \in Runs, NEW a \in Artifacts, RegisterArtifact(w, q, a)
        PROVE  events[r] \subseteq events'[r] /\ artifacts[r] \subseteq artifacts'[r]
    BY <2>2 DEF RegisterArtifact, TypeOK
  <2>3. CASE UNCHANGED <<events, artifacts>>
    BY <2>3
  <2> QED
    BY <1>3, <2>1, <2>2, <2>3 DEF NextOf, CallOf, WriteStatus, SummaryRead, EndSummary,
       Crash, BeginSummary, ReadForAppend, CreateRun, EnsureRun, ReadForUpdate
<1> QED
  BY <1>1, <1>2, <1>3 DEF Next

\* A worker whose locals a step leaves alone keeps its part of the invariant.
LEMMA Bystander ==
    ASSUME IInv, [Next]_vars, NEW w \in Workers, call'[w] = call[w]
    PROVE  Knows(w)'
<1> Knows(w)
  BY DEF IInv
<1>1. CASE IsUpdate(w)
  <2>1. call[w].run \in Runs /\ ~IsAppend(w) /\ ~IsSummary(w)
    BY <1>1, CallType DEF IInv, UpdateCall, IsUpdate, IsAppend, IsSummary
  <2> QED
    BY <1>1, <2>1, Growth DEF IInv, Knows, IsUpdate, IsAppend, IsSummary
<1>2. CASE IsAppend(w)
  <2>1. call[w].run \in Runs /\ ~IsUpdate(w) /\ ~IsSummary(w)
    BY <1>2, CallType DEF IInv, AppendCall, IsUpdate, IsAppend, IsSummary
  <2> QED
    BY <1>2, <2>1, Growth DEF IInv, Knows, IsUpdate, IsAppend, IsSummary
<1>3. CASE IsSummary(w)
  <2>1. call[w].run \in Runs /\ ~IsUpdate(w) /\ ~IsAppend(w)
    BY <1>3, CallType DEF IInv, SummaryCall, IsUpdate, IsAppend, IsSummary
  <2>2. events[call[w].run] \subseteq events'[call[w].run]
    BY <2>1, Growth DEF IInv
  <2> QED
    BY <1>3, <2>1, <2>2 DEF Knows, IsUpdate, IsAppend, IsSummary
<1> QED
  BY <1>1, <1>2, <1>3 DEF Knows, IsUpdate, IsAppend, IsSummary

\* Only the worker that takes a step changes its locals.
LEMMA OneWorkerMoves ==
    ASSUME NEW w \in Workers, NextOf(w), TypeOK, NEW v \in Workers, v # w
    PROVE  call'[v] = call[v]
BY DEF NextOf, CallOf, TypeOK, Start, Return, WriteStatus, WriteEvent, SummaryRead, EndSummary,
   Crash, BeginSummary, ReadForAppend, RegisterArtifact, CreateRun, EnsureRun, ReadForUpdate

\* What the acting worker knows after its step.
LEMMA ActorKeeps ==
    ASSUME IInv, NEW w \in Workers, NextOf(w)
    PROVE  Knows(w)'
<1>0. TypeOK
  BY DEF IInv
<1>1. CASE call'[w] = Idle
  BY <1>1 DEF Idle, Knows, IsUpdate, IsAppend, IsSummary
<1>2. CASE call'[w] = call[w]
  <2>1. [Next]_vars
    BY DEF Next
  <2> QED
    BY <1>2, <2>1, Bystander
<1>3. ASSUME NEW r \in Runs, BeginSummary(w, r) PROVE Knows(w)'
  <2>1. call'[w] = Summary(r, 1, Contract!Absent, {}, {}, {})
    BY <1>3, <1>0 DEF BeginSummary, Start, TypeOK
  <2> QED
    BY <2>1 DEF Summary, Knows, IsUpdate, IsAppend, IsSummary
<1>4. ASSUME NEW r \in Runs, NEW e \in Event, ReadForAppend(w, r, e) PROVE Knows(w)'
  <2>1. call'[w] = Appending(r, e) /\ run' = run /\ artifacts' = artifacts
    BY <1>4, <1>0 DEF ReadForAppend, Start, TypeOK
  <2>2. Exists(r)' /\ e \in artifacts'[r] \cup {NoArtifact}
    BY <1>4, <2>1 DEF ReadForAppend, MayAppend, Exists
  <2> QED
    BY <2>1, <2>2 DEF Appending, Knows, IsUpdate, IsAppend, IsSummary
<1>5. ASSUME NEW r \in Runs, NEW m \in SUBSET Keys, NEW s \in Status, NEW given \in BOOLEAN,
             ReadForUpdate(w, r, s, given, m)
      PROVE  Knows(w)'
  <2>1. call'[w] = Updating(r, run[r], s, given, m) /\ run' = run
    BY <1>5, <1>0 DEF ReadForUpdate, Start, TypeOK
  <2>2. Exists(r)' /\ MayUpdate(run[r])
    BY <1>5, <2>1 DEF ReadForUpdate, MayUpdate, Exists
  <2> QED
    BY <2>1, <2>2 DEF Updating, Knows, IsUpdate, IsAppend, IsSummary
<1>6. CASE SummaryRead(w)
  <2> DEFINE c == call[w]
             d == call'[w]
  <2>1. c \in SummaryCall /\ c.run \in Runs /\ c.pos \in 1..3
    BY <1>6, <1>0, CallType DEF SummaryRead, SummaryCall
  <2>2. d = Summary(c.run, c.pos + 1,
                    IF c.pos = 1 THEN run[c.run] ELSE c.row,
                    IF c.pos = 2 THEN events[c.run] ELSE c.events,
                    IF c.pos = 3 THEN artifacts[c.run] ELSE c.artifacts,
                    IF c.pos = 1 THEN events[c.run] ELSE c.before)
    BY <1>6, <1>0, <2>1 DEF SummaryRead, ReadOrder, TypeOK
  <2>3. events' = events /\ events[c.run] \subseteq artifacts[c.run] \cup {NoArtifact}
    BY <1>6, <2>1 DEF SummaryRead, IInv, EventsInv
  <2>4. /\ c.pos >= 2 => c.before \subseteq events[c.run]
        /\ c.pos >= 3 => c.before \subseteq c.events /\ c.events \subseteq events[c.run]
    BY <1>6 DEF IInv, Knows, SummaryRead
  <2>5. /\ d.op = "summary" /\ d.run = c.run /\ d.pos = c.pos + 1
        /\ d.events = IF c.pos = 2 THEN events[c.run] ELSE c.events
        /\ d.artifacts = IF c.pos = 3 THEN artifacts[c.run] ELSE c.artifacts
        /\ d.before = IF c.pos = 1 THEN events[c.run] ELSE c.before
    BY <2>2 DEF Summary
  <2>6. ~IsUpdate(w)' /\ ~IsAppend(w)'
    BY <2>5 DEF IsUpdate, IsAppend
  <2>7. d.pos >= 2 => d.before \subseteq events'[d.run]
    BY <2>1, <2>3, <2>4, <2>5
  <2>8. d.pos >= 3 => d.before \subseteq d.events /\ d.events \subseteq events'[d.run]
    BY <2>1, <2>3, <2>4, <2>5
  <2>9. d.pos = 4 => d.events \ {NoArtifact} \subseteq d.artifacts
    BY <2>1, <2>3, <2>4, <2>5
  <2> QED
    BY <2>6, <2>7, <2>8, <2>9 DEF Knows
<1>7. CASE WriteStatus(w) \/ WriteEvent(w) \/ EndSummary(w) \/ Crash(w)
  <2>1. call'[w] = Idle
    BY <1>7, <1>0 DEF WriteStatus, WriteEvent, EndSummary, Crash, Return, TypeOK
  <2> QED
    BY <2>1, <1>1
<1>8. ASSUME NEW r \in Runs,
             \/ \E a \in Artifacts : RegisterArtifact(w, r, a)
             \/ \E m \in SUBSET Keys : CreateRun(w, r, m) \/ EnsureRun(w, r, m)
      PROVE  Knows(w)'
  <2>1. call'[w] = call[w]
    BY <1>8 DEF RegisterArtifact, CreateRun, EnsureRun
  <2> QED
    BY <2>1, <1>2
<1> QED
  BY <1>3, <1>4, <1>5, <1>6, <1>7, <1>8 DEF NextOf, CallOf

LEMMA EventsStep ==
    ASSUME IInv, [Next]_vars
    PROVE  EventsInv'
<1> SUFFICES ASSUME NEW r \in Runs
             PROVE  /\ events'[r] # {} => Exists(r)'
                    /\ events'[r] \subseteq artifacts'[r] \cup {NoArtifact}
  BY DEF EventsInv
<1>1. /\ Exists(r) => Exists(r)'
      /\ artifacts[r] \subseteq artifacts'[r]
  BY Growth DEF IInv
<1>2. CASE events'[r] = events[r]
  BY <1>1, <1>2 DEF IInv, EventsInv
<1>3. ASSUME NEW w \in Workers, WriteEvent(w), events'[r] # events[r]
      PROVE  /\ events'[r] # {} => Exists(r)'
             /\ events'[r] \subseteq artifacts'[r] \cup {NoArtifact}
  <2>1. call[w] \in AppendCall
    BY <1>3, CallType DEF WriteEvent, IInv
  <2>2. call[w].run = r /\ events'[r] = events[r] \cup {call[w].event}
    BY <1>3, <2>1 DEF WriteEvent, IInv, TypeOK, AppendCall
  <2>3. Exists(r) /\ call[w].event \in artifacts[r] \cup {NoArtifact}
    BY <1>3, <2>2 DEF WriteEvent, IInv, Knows
  <2> QED
    BY <1>1, <2>2, <2>3 DEF IInv, EventsInv
<1>4. CASE UNCHANGED events
  BY <1>2, <1>4
<1> QED
  BY <1>2, <1>3, <1>4 DEF Next, NextOf, CallOf, vars, WriteStatus, SummaryRead, EndSummary, Crash,
     BeginSummary, ReadForAppend, RegisterArtifact, CreateRun, EnsureRun, ReadForUpdate

LEMMA AbsentStep ==
    ASSUME IInv, [Next]_vars
    PROVE  AbsentInv'
<1> SUFFICES ASSUME NEW r \in Runs, ~Exists(r)'
             PROVE  run'[r].meta = {}
  BY DEF AbsentInv
<1>1. ~Exists(r) /\ run[r].meta = {}
  BY Growth DEF IInv, AbsentInv
<1>2. CASE run' = run
  BY <1>1, <1>2
<1>3. ASSUME NEW q \in Runs, NEW m \in SUBSET Keys,
             run' = [run EXCEPT ![q] = [status |-> "created", meta |-> m]]
      PROVE  run'[r].meta = {}
  BY <1>1, <1>3 DEF IInv, TypeOK, Exists, Contract!Exists
<1>4. ASSUME NEW w \in Workers, WriteStatus(w)
      PROVE  run'[r].meta = {}
  <2>1. call[w].run # r
    BY <1>1, <1>4 DEF WriteStatus, IInv, Knows
  <2> QED
    BY <1>1, <1>4, <2>1 DEF WriteStatus, IInv, TypeOK
<1> QED
  BY <1>2, <1>3, <1>4, RowSteps DEF IInv

LEMMA InvStep == IInv /\ [Next]_vars => IInv'
<1> SUFFICES ASSUME IInv, [Next]_vars PROVE IInv'
  OBVIOUS
<1>1. TypeOK'
  BY TypeStep DEF IInv
<1>2. EventsInv' /\ AbsentInv'
  BY EventsStep, AbsentStep
<1>3. ASSUME NEW v \in Workers
      PROVE  Knows(v)'
  <2>1. CASE call'[v] = call[v]
    BY <2>1, Bystander
  <2>2. CASE call'[v] # call[v]
    <3>1. PICK w \in Workers : NextOf(w)
      BY <2>2 DEF Next, vars
    <3>2. v = w
      BY <2>2, <3>1, OneWorkerMoves DEF IInv
    <3> QED
      BY <3>1, <3>2, ActorKeeps
  <2> QED
    BY <2>1, <2>2
<1> QED
  BY <1>1, <1>2, <1>3 DEF IInv

\* What every worker can count on holds of every reachable state.
THEOREM Invariance == Spec => []IInv
BY InitInv, InvStep, PTL DEF Spec

-----------------------------------------------------------------------------
(* The properties of RunLifecycle.                                         *)

\* get_summary never shows a status without the events that led to it, nor
\* an event without the artifact it reports.
THEOREM CoherentSummaries == Spec => []SummaryIsCoherent
<1>1. IInv => SummaryIsCoherent
  BY DEF IInv, Knows, SummaryIsCoherent, Finished
<1> QED
  BY <1>1, Invariance, PTL

\* No event is stored for a run that does not exist.
THEOREM EventsHaveRuns == Spec => []EventsBelongToRuns
<1>1. IInv => EventsBelongToRuns
  BY DEF IInv, EventsInv, EventsBelongToRuns
<1> QED
  BY <1>1, Invariance, PTL

\* The row of an existing run changes only by the write of an update that is
\* in flight on it.
LEMMA OnlyUpdatesChangeRows ==
    ASSUME IInv, [Next]_vars, NEW r \in Runs, Exists(r), run'[r] # run[r]
    PROVE  \E w \in Workers : /\ InFlight(w, r)
                              /\ WriteStatus(w)
                              /\ run'[r] = [status |-> call[w].status, meta |-> Merged(call[w])]
<1>1. PICK w \in Workers : WriteStatus(w)
  BY RowSteps DEF IInv, TypeOK
<1>2. call[w] \in UpdateCall
  BY <1>1, CallType DEF IInv, WriteStatus
<1> QED
  BY <1>1, <1>2 DEF IInv, TypeOK, WriteStatus, InFlight, UpdateCall

\* A terminal run without an update in flight never changes again.
THEOREM Finality == Spec => FinalOnceQuiet
<1>1. ASSUME IInv, [Next]_vars
      PROVE  [\A r \in Runs :
               IsFinal(r) /\ (\A w \in Workers : ~InFlight(w, r)) => run'[r] = run[r]]_vars
  <2> SUFFICES ASSUME NEW r \in Runs, IsFinal(r), \A w \in Workers : ~InFlight(w, r),
                      run'[r] # run[r]
               PROVE  FALSE
    OBVIOUS
  <2>1. Exists(r)
    BY DEF IsFinal, Exists, Contract!IsFinal, Contract!Exists, Contract!Terminal
  <2> QED
    BY <1>1, <2>1, OnlyUpdatesChangeRows
<1> QED
  BY <1>1, Invariance, PTL DEF Spec, FinalOnceQuiet

\* A terminal status is replaced only by a worker that read a live run.
THEOREM LateWriters == Spec => OnlyLateWritersUnfinish
<1>1. ASSUME IInv, [Next]_vars
      PROVE  [\A r \in Runs :
               IsFinal(r) /\ run'[r].status # run[r].status =>
                  \E w \in Workers : InFlight(w, r) /\ call[w].seen.status \notin Terminal]_vars
  <2> SUFFICES ASSUME NEW r \in Runs, IsFinal(r), run'[r].status # run[r].status
               PROVE  \E w \in Workers : InFlight(w, r) /\ call[w].seen.status \notin Terminal
    OBVIOUS
  <2>1. Exists(r)
    BY DEF IsFinal, Exists, Contract!IsFinal, Contract!Exists, Contract!Terminal
  <2>2. PICK w \in Workers : InFlight(w, r)
    BY <1>1, <2>1, OnlyUpdatesChangeRows
  <2>3. MayUpdate(call[w].seen)
    BY <1>1, <2>2 DEF IInv, Knows, InFlight
  <2> QED
    BY <2>2, <2>3 DEF MayUpdate, Contract!IsFinal, Terminal
<1> QED
  BY <1>1, Invariance, PTL DEF Spec, OnlyLateWritersUnfinish

\* A metadata key is lost only to a writer that merged into a stale row.
THEOREM MetadataLoss == Spec => LossNeedsOverlap
<1>1. ASSUME IInv, [Next]_vars
      PROVE  [\A r \in Runs :
               ~(run[r].meta \subseteq run'[r].meta) =>
                  \E w \in Workers : InFlight(w, r) /\ call[w].seen.meta # run[r].meta]_vars
  <2> SUFFICES ASSUME NEW r \in Runs, ~(run[r].meta \subseteq run'[r].meta)
               PROVE  \E w \in Workers : InFlight(w, r) /\ call[w].seen.meta # run[r].meta
    OBVIOUS
  <2>1. CASE Exists(r)
    <3>1. PICK w \in Workers : /\ InFlight(w, r)
                              /\ run'[r] = [status |-> call[w].status, meta |-> Merged(call[w])]
      BY <1>1, <2>1, OnlyUpdatesChangeRows
    <3>2. call[w].seen.meta # run[r].meta
      BY <3>1 DEF Merged, InFlight
    <3> QED
      BY <3>1, <3>2
  <2>2. CASE ~Exists(r)
    <3>1. \A w \in Workers : ~InFlight(w, r)
      BY <1>1, <2>2 DEF IInv, Knows, InFlight
    <3>2. \A w \in Workers : WriteStatus(w) => run'[r] = run[r]
      <4> SUFFICES ASSUME NEW w \in Workers, WriteStatus(w) PROVE run'[r] = run[r]
        OBVIOUS
      <4>1. call[w].run # r
        BY <3>1 DEF WriteStatus, InFlight
      <4> QED
        BY <1>1, <4>1 DEF WriteStatus, IInv, TypeOK
    <3>3. PICK q \in Runs, m \in SUBSET Keys :
            ~Exists(q) /\ run' = [run EXCEPT ![q] = [status |-> "created", meta |-> m]]
      BY <1>1, <3>2, RowSteps DEF IInv
    <3>4. run[r].meta = {}
      BY <1>1, <2>2 DEF IInv, AbsentInv
    <3> QED
      BY <3>4
  <2> QED
    BY <2>1, <2>2
<1> QED
  BY <1>1, Invariance, PTL DEF Spec, LossNeedsOverlap

-----------------------------------------------------------------------------
(* Where the service keeps its contract.                                   *)

\* While no worker holds a row that has changed, a step is a step of the
\* contract or leaves the table alone.
LEMMA FreshSimulation ==
    ASSUME IInv, NobodyIsStale, [Next]_vars
    PROVE  [Contract!Next]_run
<1>1. CASE run' = run
  BY <1>1
<1>2. ASSUME NEW r \in Runs, NEW m \in SUBSET Keys, ~Exists(r),
             run' = [run EXCEPT ![r] = [status |-> "created", meta |-> m]]
      PROVE  Contract!Next
  BY <1>2 DEF Contract!Next, Contract!Create, Exists
<1>3. ASSUME NEW w \in Workers, WriteStatus(w)
      PROVE  Contract!Next
  <2> DEFINE c == call[w]
             m == IF c.given THEN c.meta ELSE {}
  <2>1. c \in UpdateCall /\ MayUpdate(run[c.run])
    BY <1>3, CallType DEF WriteStatus, IInv, Knows, NobodyIsStale
  <2>2. c.run \in Runs /\ c.status \in Contract!Status /\ m \in SUBSET Keys
    BY <2>1 DEF UpdateCall, Status
  <2>3. Merged(c) = run[c.run].meta \cup m
    BY <1>3 DEF WriteStatus, Merged, NobodyIsStale
  <2>4. Contract!Update(c.run, c.status, m)
    BY <1>3, <2>1, <2>2, <2>3 DEF WriteStatus, Contract!Update, MayUpdate, IInv, TypeOK
  <2> QED
    BY <2>2, <2>4 DEF Contract!Next
<1> QED
  BY <1>1, <1>2, <1>3, RowSteps DEF IInv

\* The service departs from RunContract only while a worker is about to
\* write on the strength of a row that has changed.
THEOREM Freshness == Spec => ContractWhileFresh
<1>1. IInv /\ [Next]_vars => [NobodyIsStale => Contract!Next]_run
  BY FreshSimulation
<1> QED
  BY <1>1, Invariance, PTL DEF Spec, ContractWhileFresh

\* A worker that is alone is never stale.
LEMMA SerialStep ==
    ASSUME \A u, v \in Workers : u = v, IInv, NobodyIsStale, [Next]_vars
    PROVE  NobodyIsStale'
<1> SUFFICES ASSUME NEW w \in Workers, IsUpdate(w)'
             PROVE  call'[w].seen = run'[call'[w].run]
  BY DEF NobodyIsStale
<1>1. CASE UNCHANGED vars
  BY <1>1 DEF NobodyIsStale, vars, IsUpdate
<1>2. CASE Next
  <2>1. NextOf(w)
    BY <1>2 DEF Next
  <2>2. ASSUME NEW r \in Runs, NEW m \in SUBSET Keys, NEW s \in Status,
               NEW given \in BOOLEAN, ReadForUpdate(w, r, s, given, m)
        PROVE  call'[w].seen = run'[call'[w].run]
    BY <2>2 DEF ReadForUpdate, Start, Updating, IInv, TypeOK
  <2>3. ASSUME \/ WriteStatus(w) \/ WriteEvent(w) \/ EndSummary(w) \/ Crash(w)
        PROVE  call'[w].op # "update"
    BY <2>3 DEF WriteStatus, WriteEvent, EndSummary, Crash, Return, IInv, TypeOK, Idle
  <2>4. ASSUME SummaryRead(w)
        PROVE  call'[w].op # "update"
    BY <2>4 DEF SummaryRead, Summary, IInv, TypeOK
  <2>5. ASSUME NEW r \in Runs,
               BeginSummary(w, r) \/ \E e \in Event : ReadForAppend(w, r, e)
        PROVE  call'[w].op # "update"
    BY <2>5 DEF BeginSummary, ReadForAppend, Start, Summary, Appending, IInv, TypeOK
  <2>6. ASSUME NEW r \in Runs,
               \/ \E a \in Artifacts : RegisterArtifact(w, r, a)
               \/ \E m \in SUBSET Keys : CreateRun(w, r, m) \/ EnsureRun(w, r, m)
        PROVE  call'[w].op # "update"
    BY <2>6 DEF RegisterArtifact, CreateRun, EnsureRun, Idle
  <2> QED
    BY <2>1, <2>2, <2>3, <2>4, <2>5, <2>6 DEF NextOf, CallOf, IsUpdate
<1> QED
  BY <1>1, <1>2

\* With a single worker the service implements RunContract, so that both of
\* its consequences, TerminalIsFinal among them, hold of the code as well.
THEOREM SerialRefinement ==
    ASSUME \A u, v \in Workers : u = v
    PROVE  Spec => ContractSpec
<1>1. Init => NobodyIsStale /\ Contract!Init
  BY DEF Init, NobodyIsStale, IsUpdate, Idle, Contract!Init
<1>2. IInv /\ NobodyIsStale /\ [Next]_vars => NobodyIsStale'
  BY SerialStep
<1>3. IInv /\ NobodyIsStale /\ [Next]_vars => [Contract!Next]_run
  BY FreshSimulation
<1> QED
  BY <1>1, <1>2, <1>3, Invariance, PTL DEF Spec, ContractSpec, Contract!Spec

-----------------------------------------------------------------------------
(* The frontend's stream: what has been made of the text that was read.    *)

\* How many items have been read, of those of f, and which of them say
\* anything; the last one of a stream that has ended may lack its newlines.
Whole(f) == IF f.body = "closed" THEN (f.read + 2) \div 4 ELSE f.read \div 4
Loud(items, n) == {i \in 1 .. n : items[i].kind # "note"}
Heard(f) == Loud(f.sent, Whole(f))

\* Those of them that the browser has handled: the first got.
Upto(I, k) == {j \in I : j <= k}
Leading(I, k) == {i \in I : Cardinality(Upto(I, i)) <= k}
Handled(f) == Leading(Heard(f), f.got)

IsDone(f, i) == f.sent[i].kind = "done"

\* The buffer holds what was read of the item that is not whole.
BufferInv(f) ==
    f.body = "open" =>
        f.buffer = SubSeq(Wire(f.sent), 4 * (f.read \div 4) + 1, f.read)

\* What was written anew is what was heard, in its order; when the response has
\* ended, one item that shows nothing may follow.
OutInv(f) ==
    /\ f.read <= 4 * Len(f.sent)
    /\ f.body \in {"open", "closed"} => Cardinality(Heard(f)) <= Len(f.out)
    /\ f.body = "open" => Len(f.out) <= Cardinality(Heard(f))
    /\ \A k \in DOMAIN f.out :
           IF k <= Cardinality(Heard(f)) THEN f.out[k] = f.sent[Nth(Heard(f), k)]
           ELSE f.out[k].kind \in {"note", "garbled"}

\* The source is closed by the first [DONE], or at the end of the response.
DoneInv(f) ==
    \/ /\ \A i \in Handled(f) : ~IsDone(f, i)
       /\ f.source = "open" \/ f.got = Len(f.out)
    \/ /\ f.source = "closed"
       /\ \E d \in Handled(f) :
              IsDone(f, d) /\ \A i \in Handled(f) \ {d} : i < d /\ ~IsDone(f, i)

FeedInv(f) == BufferInv(f) /\ OutInv(f) /\ DoneInv(f)

Remote(f) == f.body \in {"open", "closed", "broken"}

\* One source is open at most, that of the thread whose effect has run; and
\* what was read over the wire is as FeedInv says.
FeedsInv ==
    \A t \in Threads :
        /\ feed[t].source = "open" => t = effect
        /\ feed[t].got <= Len(feed[t].out)
        /\ Remote(feed[t]) => mode = "http" /\ FeedInv(feed[t])

EffectInv == mode = "http" /\ effect # None => Remote(feed[effect])

\* The timeline shows the events that were handled.
ShownInv ==
    LET f == feed[effect]
    IN  mode = "http" /\ effect # None =>
            /\ Len(shown) = Cardinality(Places(f.sent) \cap Handled(f))
            /\ \A k \in DOMAIN shown :
                   shown[k] = [thread |-> effect, event |-> f.sent[Nth(Places(f.sent), k)]]

StreamInv == StreamTypeOK /\ FeedsInv /\ EffectInv /\ ShownInv

-----------------------------------------------------------------------------
(* Counting places: Nth(I, k) is the place of I with k of them up to it.   *)

LEMMA PlacesAreFinite ==
    ASSUME NEW n \in Nat, NEW I \in SUBSET (1 .. n)
    PROVE  /\ IsFiniteSet(I) /\ Cardinality(I) \in Nat
           /\ \A k : /\ IsFiniteSet(Upto(I, k)) /\ Cardinality(Upto(I, k)) \in Nat
                     /\ Cardinality(Upto(I, k)) <= Cardinality(I)
<1>1. IsFiniteSet(1 .. n)
    BY FS_Interval
<1>2. IsFiniteSet(I)
    BY <1>1, FS_Subset
<1>3. ASSUME NEW k
      PROVE  /\ IsFiniteSet(Upto(I, k)) /\ Cardinality(Upto(I, k)) \in Nat
             /\ Cardinality(Upto(I, k)) <= Cardinality(I)
    <2>1. Upto(I, k) \in SUBSET I
        BY DEF Upto
    <2> QED BY <1>2, <2>1, FS_Subset, FS_CardinalityType
<1> QED BY <1>2, <1>3, FS_CardinalityType

LEMMA RankGrows ==
    ASSUME NEW n \in Nat, NEW I \in SUBSET (1 .. n), NEW a \in Nat, NEW b \in I, a < b
    PROVE  Cardinality(Upto(I, a)) < Cardinality(Upto(I, b))
<1>1. /\ IsFiniteSet(Upto(I, b))
      /\ Cardinality(Upto(I, a)) \in Nat /\ Cardinality(Upto(I, b)) \in Nat
    BY PlacesAreFinite
<1>2. \A j \in I : (j <= a => j <= b) /\ b <= b /\ ~(b <= a)
    OBVIOUS
<1>3. Upto(I, a) \in SUBSET Upto(I, b) /\ b \in Upto(I, b) /\ b \notin Upto(I, a)
    BY <1>2 DEF Upto
<1>4. /\ Cardinality(Upto(I, a)) <= Cardinality(Upto(I, b))
      /\ Cardinality(Upto(I, b)) # Cardinality(Upto(I, a))
    BY <1>1, <1>3, FS_Subset
<1> QED BY <1>1, <1>4

\* A place is the one of its rank.
LEMMA NthIs ==
    ASSUME NEW n \in Nat, NEW I \in SUBSET (1 .. n), NEW i \in I
    PROVE  Nth(I, Cardinality(Upto(I, i))) = i
<1>1. ASSUME NEW j \in I, Cardinality(Upto(I, j)) = Cardinality(Upto(I, i))
      PROVE  j = i
    <2>1. Cardinality(Upto(I, j)) \in Nat /\ Cardinality(Upto(I, i)) \in Nat
        BY PlacesAreFinite
    <2>2. \A a, b \in I : a < b => Cardinality(Upto(I, a)) < Cardinality(Upto(I, b))
        <3>1. I \subseteq Nat
            OBVIOUS
        <3> QED BY <3>1, RankGrows
    <2>3. ~(j < i) /\ ~(i < j)
        BY <1>1, <2>1, <2>2
    <2> QED BY <2>3
<1>2. Nth(I, Cardinality(Upto(I, i))) = CHOOSE j \in I : Cardinality(Upto(I, j)) = Cardinality(Upto(I, i))
    BY DEF Nth, Upto
<1> QED BY <1>1, <1>2

\* Every number up to that of the places is the rank of one.
LEMMA NthOf ==
    ASSUME NEW n \in Nat, NEW I \in SUBSET (1 .. n), NEW k \in 1 .. Cardinality(I)
    PROVE  Nth(I, k) \in I /\ Cardinality(Upto(I, Nth(I, k))) = k
<1> DEFINE m == Cardinality(I)
           Rank == [i \in I |-> Cardinality(Upto(I, i))]
<1>1. IsFiniteSet(I) /\ m \in Nat
    BY PlacesAreFinite
<1>2. ASSUME NEW i \in I
      PROVE  Cardinality(Upto(I, i)) \in 1 .. m
    <2>1. /\ Cardinality(Upto(I, i)) \in Nat /\ Cardinality(Upto(I, 0)) \in Nat
          /\ Cardinality(Upto(I, i)) <= m
        BY PlacesAreFinite
    <2>2. Cardinality(Upto(I, 0)) < Cardinality(Upto(I, i))
        BY RankGrows
    <2> QED BY <1>1, <2>1, <2>2
<1>3. Rank \in [I -> 1 .. m]
    BY <1>2
<1>4. ASSUME NEW i \in I, NEW j \in I, Rank[i] = Rank[j]
      PROVE  i = j
    BY <1>4, NthIs
<1>5. Rank \in Injection(I, 1 .. m)
    BY <1>3, <1>4 DEF Injection, IsInjective
<1>6. IsFiniteSet(1 .. m) /\ Cardinality(1 .. m) = m
    BY <1>1, FS_Interval
<1>7. Rank \in Surjection(I, 1 .. m)
    BY <1>5, <1>6, FS_Injection
<1>8. PICK i \in I : Rank[i] = k
    BY <1>7 DEF Surjection
<1> QED BY <1>8, NthIs

\* The first places of I are those of its beginning.
LEMMA NthInitial ==
    ASSUME NEW n \in Nat, NEW I \in SUBSET (1 .. n), NEW b \in Nat,
           NEW k \in 1 .. Cardinality(Upto(I, b))
    PROVE  Nth(I, k) = Nth(Upto(I, b), k)
<1>1. Upto(I, b) \in SUBSET (1 .. n)
    BY DEF Upto
<1>2. PICK i \in Upto(I, b) : i = Nth(Upto(I, b), k) /\ Cardinality(Upto(Upto(I, b), i)) = k
    BY <1>1, NthOf
<1>3. Upto(Upto(I, b), i) = Upto(I, i) /\ i \in I
    <2>1. i \in I /\ i <= b
        BY <1>2 DEF Upto
    <2>2. \A j \in I : j <= i => j <= b
        BY <2>1
    <2> QED BY <2>1, <2>2 DEF Upto
<1> QED BY <1>2, <1>3, NthIs

\* The places of I in the m numbers after b.
After(I, b, m) == {j \in 1 .. m : b + j \in I}

LEMMA CountOnward ==
    ASSUME NEW n \in Nat, NEW I \in SUBSET (1 .. n), NEW b \in Nat, NEW m \in Nat
    PROVE  Cardinality(Upto(I, b + m)) = Cardinality(Upto(I, b)) + Cardinality(After(I, b, m))
<1> DEFINE K == {i \in I : b < i /\ i <= b + m}
           shift == [j \in After(I, b, m) |-> b + j]
<1>1. I \subseteq Nat
    OBVIOUS
<1>2. After(I, b, m) \in SUBSET (1 .. m)
    BY DEF After
<1>3. IsFiniteSet(After(I, b, m)) /\ Cardinality(After(I, b, m)) \in Nat
    BY <1>2, PlacesAreFinite
<1>4. IsFiniteSet(Upto(I, b)) /\ Cardinality(Upto(I, b)) \in Nat
    BY PlacesAreFinite
<1>5. shift \in Bijection(After(I, b, m), K)
    <2>1. ASSUME NEW j \in After(I, b, m)
          PROVE  j \in Nat /\ b + j \in K
        BY DEF After
    <2>2. ASSUME NEW i \in K
          PROVE  i - b \in After(I, b, m) /\ b + (i - b) = i
        BY <1>1 DEF After
    <2>3. shift \in Injection(After(I, b, m), K)
        <3>1. \A j \in After(I, b, m) : shift[j] \in K /\ shift[j] = b + j /\ j \in Nat
            BY <2>1
        <3>2. \A i, j \in After(I, b, m) : shift[i] = shift[j] => i = j
            BY <3>1
        <3> QED BY <3>1, <3>2 DEF Injection, IsInjective
    <2>4. \A i \in K : \E j \in After(I, b, m) : shift[j] = i
        BY <2>2
    <2> QED BY <2>3, <2>4 DEF Bijection, Surjection, Injection
<1>6. IsFiniteSet(K) /\ Cardinality(K) = Cardinality(After(I, b, m))
    BY <1>3, <1>5, FS_Bijection DEF ExistsBijection
<1>7. Upto(I, b + m) = Upto(I, b) \cup K /\ Upto(I, b) \cap K = {}
    <2>1. \A i \in Nat : /\ i <= b + m <=> i <= b \/ (b < i /\ i <= b + m)
                         /\ ~(i <= b /\ b < i)
        OBVIOUS
    <2> QED BY <1>1, <2>1 DEF Upto
<1> HIDE DEF K
<1>8. /\ Cardinality(Upto(I, b) \cup K) =
             Cardinality(Upto(I, b)) + Cardinality(K) - Cardinality(Upto(I, b) \cap K)
      /\ Cardinality(Upto(I, b) \cap K) = 0
    BY <1>4, <1>6, <1>7, FS_Union, FS_EmptySet
<1>9. Cardinality(Upto(I, b + m)) = Cardinality(Upto(I, b) \cup K)
    BY <1>7, Zenon
<1> QED BY <1>3, <1>4, <1>6, <1>8, <1>9

\* The places after b follow those up to b.
LEMMA NthOnward ==
    ASSUME NEW b \in Nat, NEW m \in Nat, NEW I \in SUBSET (1 .. b + m)
    PROVE  /\ Cardinality(I) = Cardinality(Upto(I, b)) + Cardinality(After(I, b, m))
           /\ \A k \in 1 .. Cardinality(After(I, b, m)) :
                  Nth(I, Cardinality(Upto(I, b)) + k) = b + Nth(After(I, b, m), k)
<1> DEFINE J == After(I, b, m)
<1>0. PICK n \in Nat : n = b + m /\ I \in SUBSET (1 .. n)
    OBVIOUS
<1>1. J \in SUBSET (1 .. m)
    BY DEF After
<1>2. Upto(I, b + m) = I
    <2>1. \A i \in I : i <= b + m
        OBVIOUS
    <2> QED BY <2>1 DEF Upto
<1>3. ASSUME NEW k \in 1 .. Cardinality(J)
      PROVE  Nth(I, Cardinality(Upto(I, b)) + k) = b + Nth(J, k)
    <2>1. PICK j \in J : j = Nth(J, k) /\ Cardinality(Upto(J, j)) = k
        BY <1>1, NthOf
    <2>2. j \in Nat /\ j <= m /\ b + j \in I
        BY <2>1 DEF After
    <2>3. After(I, b, j) = Upto(J, j)
        <3>1. \A i : i \in 1 .. j <=> i \in 1 .. m /\ i <= j
            BY <2>2
        <3> QED BY <3>1 DEF After, Upto
    <2>4. Cardinality(Upto(I, b + j)) = Cardinality(Upto(I, b)) + Cardinality(After(I, b, j))
        BY <1>0, <2>2, CountOnward
    <2>5. Nth(I, Cardinality(Upto(I, b + j))) = b + j
        BY <1>0, <2>2, NthIs
    <2> QED BY <2>1, <2>3, <2>4, <2>5
<1>4. Cardinality(Upto(I, b + m)) = Cardinality(Upto(I, b)) + Cardinality(J)
    BY <1>0, CountOnward
<1> QED BY <1>2, <1>3, <1>4, Zenon

-----------------------------------------------------------------------------
(* The text: what a chunk adds to the buffer is whole frames and a rest.   *)

Token == [item : Item, half : 0 .. 2]

LEMMA WireIs ==
    ASSUME NEW items \in Seq(Item)
    PROVE  /\ Wire(items) \in Seq(Token) /\ Len(Wire(items)) = 4 * Len(items)
           /\ \A k \in 1 .. 4 * Len(items) :
                  /\ (k - 1) % 4 = 0 => /\ (k + 3) \div 4 \in DOMAIN items
                                        /\ Wire(items)[k] = [item |-> items[(k + 3) \div 4], half |-> 1]
                  /\ (k - 1) % 4 = 1 => Wire(items)[k].half = 2
                  /\ Wire(items)[k] = Newline <=> (k - 1) % 4 \in {2, 3}
<1> DEFINE W(k) == LET part == ((k - 1) % 4) + 1
                   IN  IF part <= 2 THEN [item |-> items[(k + 3) \div 4], half |-> part] ELSE Newline
<1>1. PICK n \in Nat : Len(items) = n /\ DOMAIN items = 1 .. n /\ \A i \in 1 .. n : items[i] \in Item
    OBVIOUS
<1>2. Newline \in Token /\ Newline.half = 0
    BY DEF Newline, Token, Plain, Item
<1>3. ASSUME NEW k \in 1 .. 4 * n
      PROVE  /\ W(k) \in Token
             /\ (k - 1) % 4 = 0 => /\ (k + 3) \div 4 \in DOMAIN items
                                   /\ W(k) = [item |-> items[(k + 3) \div 4], half |-> 1]
             /\ (k - 1) % 4 = 1 => W(k).half = 2
             /\ W(k) = Newline <=> (k - 1) % 4 \in {2, 3}
    <2>1. (k - 1) % 4 \in {0, 1, 2, 3}
        OBVIOUS
    <2>2. (k - 1) % 4 \in {0, 1} => (k + 3) \div 4 \in 1 .. n
        OBVIOUS
    <2>3. CASE (k - 1) % 4 = 0
        <3>1. W(k) = [item |-> items[(k + 3) \div 4], half |-> 1]
            BY <2>3
        <3>2. W(k) # Newline /\ W(k) \in Token
            BY <3>1, <1>1, <1>2, <2>2, <2>3 DEF Token
        <3> QED BY <1>1, <2>2, <2>3, <3>1, <3>2
    <2>4. CASE (k - 1) % 4 = 1
        <3>1. W(k) = [item |-> items[(k + 3) \div 4], half |-> 2]
            BY <2>4
        <3>2. W(k) # Newline /\ W(k) \in Token /\ W(k).half = 2
            BY <3>1, <1>1, <1>2, <2>2, <2>4 DEF Token
        <3> QED BY <2>4, <3>2
    <2>5. CASE (k - 1) % 4 \in {2, 3}
        <3>1. W(k) = Newline
            BY <2>5
        <3> QED BY <1>2, <2>5, <3>1
    <2> QED BY <2>1, <2>3, <2>4, <2>5
<1>4. Wire(items) = [k \in 1 .. 4 * n |-> W(k)]
    BY <1>1, Zenon DEF Wire
<1> HIDE DEF W
<1>5. Wire(items) \in Seq(Token) /\ Len(Wire(items)) = 4 * n
    BY <1>1, <1>3, <1>4
<1>6. \A k \in 1 .. 4 * n : Wire(items)[k] = W(k)
    BY <1>4
<1> QED BY <1>1, <1>3, <1>5, <1>6

\* Of the numbers from 2 to l, those that four divides.
Quads(l) == {i \in 2 .. l : i % 4 = 0}

LEMMA QuadsAre ==
    ASSUME NEW l \in Nat
    PROVE  /\ Quads(l) \in SUBSET (1 .. l)
           /\ Cardinality(Quads(l)) = l \div 4
           /\ \A k \in 1 .. l \div 4 : Nth(Quads(l), k) = 4 * k
<1>1. Quads(l) \in SUBSET (1 .. l)
    BY DEF Quads
<1>2. ASSUME NEW k \in 0 .. l \div 4
      PROVE  Cardinality(Upto(Quads(l), 4 * k)) = k
    <2> DEFINE four == [j \in 1 .. k |-> 4 * j]
    <2>1. \A j \in 1 .. k : 4 * j \in 2 .. l /\ (4 * j) % 4 = 0 /\ 4 * j <= 4 * k
        OBVIOUS
    <2>2. \A j \in 1 .. k : four[j] \in Upto(Quads(l), 4 * k) /\ four[j] = 4 * j
        BY <2>1 DEF Upto, Quads
    <2>3. ASSUME NEW i \in Upto(Quads(l), 4 * k)
          PROVE  i \div 4 \in 1 .. k /\ 4 * (i \div 4) = i
        <3>1. i \in 2 .. l /\ i % 4 = 0 /\ i <= 4 * k
            BY DEF Upto, Quads
        <3> QED BY <3>1
    <2>4. four \in Bijection(1 .. k, Upto(Quads(l), 4 * k))
        <3>1. four \in Injection(1 .. k, Upto(Quads(l), 4 * k))
            <4>1. \A i, j \in 1 .. k : four[i] = four[j] => i = j
                BY <2>2
            <4> QED BY <2>2, <4>1 DEF Injection, IsInjective
        <3>2. \A i \in Upto(Quads(l), 4 * k) : \E j \in 1 .. k : four[j] = i
            BY <2>3
        <3> QED BY <3>1, <3>2 DEF Bijection, Surjection, Injection
    <2>5. IsFiniteSet(1 .. k) /\ Cardinality(1 .. k) = k
        BY FS_Interval
    <2> QED BY <2>4, <2>5, FS_Bijection DEF ExistsBijection
<1>3. Upto(Quads(l), 4 * (l \div 4)) = Quads(l)
    <2>1. \A i \in 2 .. l : i % 4 = 0 => i <= 4 * (l \div 4)
        OBVIOUS
    <2> QED BY <2>1 DEF Upto, Quads
<1>4. ASSUME NEW k \in 1 .. l \div 4
      PROVE  Nth(Quads(l), k) = 4 * k
    <2>1. 4 * k \in 2 .. l /\ (4 * k) % 4 = 0 /\ k \in 0 .. l \div 4
        OBVIOUS
    <2>2. 4 * k \in Quads(l)
        BY <2>1 DEF Quads
    <2>3. Nth(Quads(l), Cardinality(Upto(Quads(l), 4 * k))) = 4 * k
        BY <1>1, <2>2, NthIs
    <2>4. Cardinality(Upto(Quads(l), 4 * k)) = k
        BY <1>2, <2>1
    <2> QED BY <2>3, <2>4
<1>5. l \div 4 \in 0 .. l \div 4
    OBVIOUS
<1> QED BY <1>1, <1>2, <1>3, <1>4, <1>5

LEMMA Quarters ==
    ASSUME NEW b \in Nat, NEW i \in Nat \ {0}
    PROVE  /\ (4 * b + i - 1) % 4 = 0 <=> i % 4 = 1
           /\ (4 * b + i - 1) % 4 = 1 <=> i % 4 = 2
           /\ (4 * b + i - 1) % 4 \in {2, 3} <=> i % 4 \in {3, 0}
           /\ (4 * b + i + 3) \div 4 = b + (i + 3) \div 4
<1>1. PICK q \in Nat, c \in 0 .. 3 : i = 4 * q + c
    <2>1. i \div 4 \in Nat /\ i % 4 \in 0 .. 3 /\ i = 4 * (i \div 4) + (i % 4)
        OBVIOUS
    <2> QED BY <2>1
<1>2. CASE c = 0
    BY <1>1, <1>2
<1>3. CASE c = 1
    BY <1>1, <1>3
<1>4. CASE c = 2
    BY <1>1, <1>4
<1>5. CASE c = 3
    BY <1>1, <1>5
<1> QED BY <1>1, <1>2, <1>3, <1>4, <1>5

\* The buffer and a chunk: the items that have become whole, and the rest.
LEMMA SplitIs ==
    ASSUME NEW items \in Seq(Item), NEW r \in Nat, NEW n \in Nat,
           r <= n, n <= 4 * Len(items)
    PROVE  LET b == r \div 4
               m == n \div 4 - b
               cut == Split(SubSeq(Wire(items), 4 * b + 1, r)
                              \o SubSeq(Wire(items), r + 1, n))
           IN  /\ cut.rest = SubSeq(Wire(items), 4 * (n \div 4) + 1, n)
               /\ DOMAIN cut.frames = 1 .. m
               /\ \A k \in 1 .. m : Reading(cut.frames[k]) = items[b + k]
<1>1. PICK W \in Seq(Token) : W = Wire(items)
    BY WireIs
<1>2. PICK l \in Nat : Len(items) = l /\ DOMAIN items = 1 .. l
    OBVIOUS
<1>3. PICK b \in Nat : b = r \div 4
    OBVIOUS
<1>4. PICK m \in Nat : m = n \div 4 - b
    BY <1>3
<1>5. Len(W) = 4 * l /\ DOMAIN W = 1 .. 4 * l
    BY <1>1, <1>2, WireIs
<1>6. 4 * b + 1 \in 1 .. Len(W) + 1 /\ r \in (4 * b + 1) - 1 .. Len(W) /\ n \in r .. Len(W)
    BY <1>2, <1>3, <1>5
<1>7. PICK text \in Seq(Token) :
          /\ text = SubSeq(W, 4 * b + 1, r) \o SubSeq(W, r + 1, n)
          /\ text = SubSeq(W, 4 * b + 1, n)
    <2>1. SubSeq(W, 4 * b + 1, r) \o SubSeq(W, r + 1, n) = SubSeq(W, 4 * b + 1, n)
        BY <1>6, ConcatAdjacentSubSeq
    <2>2. \A i \in 4 * b + 1 .. n : i \in DOMAIN W
        BY <1>5, <1>6
    <2>3. SubSeq(W, 4 * b + 1, n) \in Seq(Token)
        BY <2>2, SubSeqProperties
    <2> QED BY <2>1, <2>3
<1>8. PICK d \in Nat : d = n - 4 * b /\ m = d \div 4
    BY <1>3, <1>4
<1>9. /\ Len(text) = d /\ DOMAIN text = 1 .. d
      /\ \A i \in 1 .. d : text[i] = W[4 * b + i] /\ 4 * b + i \in 1 .. 4 * l
    <2>1. \A i \in 1 .. d : 4 * b + i \in 1 .. 4 * l
        BY <1>5, <1>6, <1>8
    <2>2. \A i \in 4 * b + 1 .. n : W[i] \in Token
        BY <1>5, <1>6
    <2>3. /\ Len(SubSeq(W, 4 * b + 1, n)) = IF 4 * b + 1 <= n THEN n - (4 * b + 1) + 1 ELSE 0
          /\ \A i \in 1 .. n - (4 * b + 1) + 1 : SubSeq(W, 4 * b + 1, n)[i] = W[(4 * b + 1) + i - 1]
        BY <2>2, SubSeqProperties
    <2>4. Len(text) = d
        <3>1. d = IF 4 * b + 1 <= n THEN n - (4 * b + 1) + 1 ELSE 0
            BY <1>8
        <3> QED BY <1>7, <2>3, <3>1
    <2>5. \A i \in 1 .. d : i \in 1 .. n - (4 * b + 1) + 1 /\ (4 * b + 1) + i - 1 = 4 * b + i
        BY <1>8
    <2>6. DOMAIN text = 1 .. d
        BY <2>4
    <2>7. \A i \in 1 .. d : text[i] = W[4 * b + i]
        BY <1>7, <2>3, <2>5
    <2> QED BY <2>1, <2>4, <2>6, <2>7
<1>10. ASSUME NEW i \in 1 .. d
       PROVE  /\ text[i] = Newline <=> i % 4 \in {3, 0}
              /\ i % 4 = 1 => /\ b + (i + 3) \div 4 \in 1 .. l
                              /\ text[i] = [item |-> items[b + (i + 3) \div 4], half |-> 1]
              /\ i % 4 = 2 => text[i].half = 2
    <2>1. PICK j \in 1 .. 4 * l : j = 4 * b + i /\ text[i] = W[j]
        BY <1>9
    <2>2. /\ (j - 1) % 4 = 0 <=> i % 4 = 1
          /\ (j - 1) % 4 = 1 <=> i % 4 = 2
          /\ (j - 1) % 4 \in {2, 3} <=> i % 4 \in {3, 0}
          /\ (j + 3) \div 4 = b + (i + 3) \div 4
        BY <2>1, Quarters
    <2> QED BY <1>1, <1>2, <2>1, <2>2, WireIs
<1>11. Ends(text) = Quads(d)
    <2>1. \A i \in 2 .. d : i \in 1 .. d /\ i - 1 \in 1 .. d
        OBVIOUS
    <2>2. \A i \in 2 .. d : i % 4 = 0 <=> i % 4 \in {3, 0} /\ (i - 1) % 4 \in {3, 0}
        OBVIOUS
    <2> QED BY <1>9, <1>10, <2>1, <2>2 DEF Ends, Quads
<1>12. /\ Cardinality(Ends(text)) = m
       /\ \A k \in 1 .. m : Nth(Ends(text), k) = 4 * k
    BY <1>8, <1>11, QuadsAre
<1> DEFINE E == Ends(text)
           Begin(k) == IF k = 1 THEN 1 ELSE Nth(E, k - 1) + 1
<1>13. \A k \in 1 .. m + 1 : Begin(k) = 4 * (k - 1) + 1
    <2>1. \A k \in 1 .. m + 1 : k # 1 => k - 1 \in 1 .. m
        OBVIOUS
    <2> QED BY <1>12, <2>1
<1>14. /\ Split(text).frames = [k \in 1 .. m |-> SubSeq(text, Begin(k), Nth(E, k) - 2)]
       /\ Split(text).rest = SubSeq(text, Begin(m + 1), Len(text))
    BY <1>12 DEF Split
<1> HIDE DEF E, Begin
<1>15. Split(text).rest = SubSeq(W, 4 * (b + m) + 1, n)
    <2>1. Split(text).rest = SubSeq(text, 4 * m + 1, d)
        <3>1. m + 1 \in 1 .. m + 1 /\ 4 * (m + 1 - 1) + 1 = 4 * m + 1
            OBVIOUS
        <3>2. Begin(m + 1) = 4 * m + 1
            BY <1>13, <3>1
        <3> QED BY <1>9, <1>14, <3>2
    <2>2. CASE d = 4 * m
        <3>1. SubSeq(text, 4 * m + 1, d) = << >>
            BY <2>2, SubSeqEmpty
        <3>2. n < 4 * (b + m) + 1
            BY <1>8, <2>2
        <3>3. SubSeq(W, 4 * (b + m) + 1, n) = << >>
            BY <3>2, SubSeqEmpty
        <3> QED BY <2>1, <3>1, <3>3
    <2>3. CASE d # 4 * m
        <3>1. 4 * m + 1 \in 1 .. n - (4 * b + 1) + 1 /\ d \in 1 .. n - (4 * b + 1) + 1
            BY <1>8, <2>3
        <3>2. 4 * b + 1 \in 1 .. Len(W) /\ n \in 1 .. Len(W)
            BY <1>6, <1>8, <2>3
        <3>3. SubSeq(SubSeq(W, 4 * b + 1, n), 4 * m + 1, d) =
                  SubSeq(W, (4 * b + 1) + (4 * m + 1) - 1, (4 * b + 1) + d - 1)
            BY <3>1, <3>2, SubSeqOfSubSeq
        <3>4. (4 * b + 1) + (4 * m + 1) - 1 = 4 * (b + m) + 1 /\ (4 * b + 1) + d - 1 = n
            BY <1>8
        <3> QED BY <1>7, <2>1, <3>3, <3>4
    <2> QED BY <2>2, <2>3
<1>16. ASSUME NEW k \in 1 .. m
       PROVE  Reading(Split(text).frames[k]) = items[b + k]
    <2>1. PICK e \in Nat : e = 4 * (k - 1) + 1
        OBVIOUS
    <2>2. e \in 1 .. d /\ e + 1 \in 1 .. d /\ e % 4 = 1 /\ (e + 1) % 4 = 2 /\ (e + 3) \div 4 = k
        BY <1>8, <2>1
    <2>3. Split(text).frames[k] = SubSeq(text, e, e + 1)
        <3>1. 4 * k - 2 = e + 1 /\ k \in 1 .. m + 1
            BY <2>1
        <3> QED BY <1>12, <1>13, <1>14, <2>1, <3>1 DEF E
    <2>4. PICK frame \in Seq(Token) :
              /\ frame = SubSeq(text, e, e + 1) /\ Len(frame) = 2
              /\ frame[1] = text[e] /\ frame[2] = text[e + 1]
        <3>1. PICK z \in Nat : z = e + 1
            BY <2>1
        <3>2. \A i \in e .. z : text[i] \in Token
            BY <1>9, <2>2, <3>1
        <3>3. /\ SubSeq(text, e, z) \in Seq(Token)
              /\ Len(SubSeq(text, e, z)) = IF e <= z THEN z - e + 1 ELSE 0
              /\ \A i \in 1 .. z - e + 1 : SubSeq(text, e, z)[i] = text[e + i - 1]
            BY <3>2, SubSeqProperties
        <3>4. /\ z - e + 1 = 2 /\ e <= z /\ e + 1 - 1 = e /\ e + 2 - 1 = z
              /\ 1 \in 1 .. z - e + 1 /\ 2 \in 1 .. z - e + 1
            BY <3>1
        <3>5. Len(SubSeq(text, e, z)) = 2
            BY <3>3, <3>4
        <3>6. SubSeq(text, e, z)[1] = text[e] /\ SubSeq(text, e, z)[2] = text[z]
            BY <3>3, <3>4
        <3> QED BY <3>1, <3>3, <3>5, <3>6
    <2>5. text[e] = [item |-> items[b + k], half |-> 1] /\ text[e + 1].half = 2
        BY <1>10, <2>2
    <2>6. frame[1].item = items[b + k] /\ \E i \in DOMAIN frame : frame[i].half = 2
        <3>1. 2 \in DOMAIN frame
            BY <2>4
        <3>2. frame[2].half = 2
            BY <2>4, <2>5, Zenon
        <3>3. frame[1].item = items[b + k]
            BY <2>4, <2>5
        <3> QED BY <3>1, <3>2, <3>3
    <2> QED BY <2>3, <2>4, <2>6 DEF Reading
<1>17. DOMAIN Split(text).frames = 1 .. m
    BY <1>14
<1>18. b + m = n \div 4
    BY <1>3, <1>4
<1> QED BY <1>1, <1>3, <1>4, <1>7, <1>15, <1>16, <1>17, <1>18

\* out is what is written of the first n of items; new, of the m after those.
Written(out, items, n) ==
    /\ out \in Seq(Item)
    /\ Len(out) = Cardinality(Loud(items, n))
    /\ \A k \in 1 .. Len(out) : out[k] = items[Nth(Loud(items, n), k)]

WrittenNext(new, items, b, m) ==
    LET J == After(Loud(items, b + m), b, m)
    IN  /\ new \in Seq(Item)
        /\ Len(new) = Cardinality(J)
        /\ \A k \in 1 .. Len(new) : new[k] = items[b + Nth(J, k)]

\* The m frames are those of the items after b.
Frames(frames, items, b, m) ==
    DOMAIN frames = 1 .. m /\ \A k \in 1 .. m : Reading(frames[k]) = items[b + k]

\* What goes on of whole items are those that are not notes.
LEMMA ForwardedIs ==
    ASSUME NEW items \in Seq(Item), NEW b \in Nat, NEW m \in Nat, b + m <= Len(items),
           NEW frames, Frames(frames, items, b, m)
    PROVE  WrittenNext(Forwarded(frames), items, b, m)
<1> DEFINE J == {k \in 1 .. m : items[b + k].kind # "note"}
           readings == [k \in 1 .. m |-> items[b + k]]
<1>1. [k \in DOMAIN frames |-> Reading(frames[k])] = readings /\ DOMAIN frames = 1 .. m
    BY DEF Frames
<1>2. {k \in DOMAIN frames : readings[k].kind # "note"} = J
    BY <1>1
<1>3. Forwarded(frames) = Pick(readings, J)
    BY <1>1, <1>2 DEF Forwarded
<1>4. J \in SUBSET (1 .. m)
    OBVIOUS
<1>5. \A k \in 1 .. m : items[b + k] \in Item /\ readings[k] = items[b + k]
    OBVIOUS
<1>6. J = After(Loud(items, b + m), b, m)
    <2>1. \A k \in 1 .. m : b + k \in 1 .. b + m
        OBVIOUS
    <2> QED BY <2>1 DEF After, Loud
<1> HIDE DEF J, readings
<1>7. PICK c \in Nat : c = Cardinality(J)
    BY <1>4, PlacesAreFinite
<1>8. \A k \in 1 .. c : Nth(J, k) \in 1 .. m
    BY <1>4, <1>7, NthOf
<1>9. Pick(readings, J) = [k \in 1 .. c |-> items[b + Nth(J, k)]]
    BY <1>5, <1>7, <1>8 DEF Pick
<1>10. \A k \in 1 .. c : items[b + Nth(J, k)] \in Item
    BY <1>5, <1>8
<1>11. /\ Forwarded(frames) \in Seq(Item) /\ Len(Forwarded(frames)) = c
       /\ \A k \in 1 .. c : Forwarded(frames)[k] = items[b + Nth(J, k)]
    BY <1>3, <1>9, <1>10
<1> QED BY <1>6, <1>7, <1>11 DEF WrittenNext

\* What a stream that ends still writes of an item that is not whole: nothing
\* before it has begun, all of it once its data is there.
LEMMA FlushedIs ==
    ASSUME NEW items \in Seq(Item), NEW r \in Nat, r <= 4 * Len(items),
           NEW f, f.buffer = SubSeq(Wire(items), 4 * (r \div 4) + 1, r)
    PROVE  /\ r % 4 = 0 => Flushed(f) = << >>
           /\ r % 4 # 0 =>
                  /\ r \div 4 + 1 \in DOMAIN items
                  /\ \E item \in Item :
                         /\ Flushed(f) = << item >>
                         /\ r % 4 = 1 => item.kind \in {"note", "garbled"}
                         /\ r % 4 # 1 => item = items[r \div 4 + 1]
<1>1. PICK W \in Seq(Token) : W = Wire(items)
    BY WireIs
<1>2. PICK l \in Nat : Len(items) = l /\ DOMAIN items = 1 .. l
    OBVIOUS
<1>3. PICK b \in Nat, c \in 0 .. 3 : b = r \div 4 /\ c = r % 4 /\ r = 4 * b + c
    <2>1. r \div 4 \in Nat /\ r % 4 \in 0 .. 3 /\ r = 4 * (r \div 4) + (r % 4)
        OBVIOUS
    <2> QED BY <2>1
<1>4. Len(W) = 4 * l /\ DOMAIN W = 1 .. 4 * l
    BY <1>1, <1>2, WireIs
<1>5. \A i \in 4 * b + 1 .. r : W[i] \in Token
    BY <1>2, <1>4
<1>6. PICK B \in Seq(Token) :
          /\ B = f.buffer /\ Len(B) = c
          /\ \A i \in 1 .. c : B[i] = W[4 * b + i]
    <2>1. /\ SubSeq(W, 4 * b + 1, r) \in Seq(Token)
          /\ Len(SubSeq(W, 4 * b + 1, r)) = IF 4 * b + 1 <= r THEN r - (4 * b + 1) + 1 ELSE 0
          /\ \A i \in 1 .. r - (4 * b + 1) + 1 : SubSeq(W, 4 * b + 1, r)[i] = W[(4 * b + 1) + i - 1]
        BY <1>5, SubSeqProperties
    <2>2. c = IF 4 * b + 1 <= r THEN r - (4 * b + 1) + 1 ELSE 0
        BY <1>3
    <2>3. \A i \in 1 .. c : i \in 1 .. r - (4 * b + 1) + 1 /\ (4 * b + 1) + i - 1 = 4 * b + i
        BY <1>3
    <2>4. \A i \in 1 .. c : SubSeq(W, 4 * b + 1, r)[i] = W[4 * b + i]
        BY <2>1, <2>3
    <2>5. f.buffer = SubSeq(W, 4 * b + 1, r)
        BY <1>1, <1>3
    <2> QED BY <2>1, <2>2, <2>4, <2>5
<1>7. CASE c = 0
    BY <1>3, <1>6, <1>7 DEF Flushed
<1>8. CASE c # 0
    <2>1. 1 \in 1 .. c /\ 4 * b + 1 \in 1 .. 4 * l /\ b + 1 \in 1 .. l
        BY <1>2, <1>3, <1>8
    <2>2. W[4 * b + 1] = [item |-> items[b + 1], half |-> 1] /\ W[4 * b + 1] # Newline
        <3>1. PICK j \in 1 .. 4 * l : j = 4 * b + 1
            BY <2>1
        <3>2. (j - 1) % 4 = 0 /\ ~((j - 1) % 4 \in {2, 3}) /\ (j + 3) \div 4 = b + 1
            BY <3>1
        <3>3. W[j] = [item |-> items[b + 1], half |-> 1] /\ W[j] # Newline
            BY <1>1, <1>2, <3>2, WireIs
        <3> QED BY <3>1, <3>3
    <2>3. B[1] = W[4 * b + 1] /\ 1 \in DOMAIN B
        BY <1>6, <2>1
    <2>4. Flushed(f) = << Reading(B) >>
        BY <1>6, <2>2, <2>3 DEF Flushed
    <2>5. PICK item \in Item : item = items[b + 1] /\ B[1].item = item
        BY <1>2, <2>1, <2>2, <2>3
    <2>6. CASE c = 1
        <3>1. Plain("garbled") \in Item /\ Plain("garbled").kind = "garbled"
            BY DEF Plain, Item
        <3>2. ~ \E i \in DOMAIN B : B[i].half = 2
            <4>1. DOMAIN B = {1}
                BY <1>6, <2>6
            <4>2. B[1].half = 1
                BY <2>2, <2>3
            <4> QED BY <4>1, <4>2
        <3>3. Reading(B) = IF item.kind = "note" THEN item ELSE Plain("garbled")
            BY <2>5, <3>2 DEF Reading
        <3>4. PICK last \in Item : last = Reading(B) /\ last.kind \in {"note", "garbled"}
            BY <2>5, <3>1, <3>3
        <3>5. Flushed(f) = << last >>
            BY <2>4, <3>4
        <3>6. r % 4 = 1 /\ r \div 4 + 1 \in DOMAIN items
            BY <1>2, <1>3, <2>1, <2>6
        <3>7. r % 4 # 0 /\ ~(r % 4 # 1)
            BY <3>6
        <3> QED BY <3>4, <3>5, <3>6, <3>7
    <2>7. CASE c # 1
        <3>1. 2 \in 1 .. c /\ 4 * b + 2 \in 1 .. 4 * l
            BY <1>2, <1>3, <1>8, <2>7
        <3>2. PICK j \in 1 .. 4 * l : j = 4 * b + 2 /\ (j - 1) % 4 = 1
            BY <3>1
        <3>3. W[4 * b + 2].half = 2
            BY <1>1, <1>2, <3>2, WireIs
        <3>4. B[2].half = 2 /\ 2 \in DOMAIN B
            BY <1>6, <3>1, <3>3
        <3>5. Reading(B) = item
            BY <2>5, <3>4 DEF Reading
        <3>6. Flushed(f) = << item >>
            BY <2>4, <3>5
        <3>7. r % 4 # 0 /\ r % 4 # 1 /\ r \div 4 + 1 \in DOMAIN items /\ item = items[r \div 4 + 1]
            BY <1>2, <1>3, <1>8, <2>1, <2>5, <2>7
        <3> QED BY <3>6, <3>7
    <2> QED BY <2>6, <2>7
<1> QED BY <1>7, <1>8

-----------------------------------------------------------------------------
(* A stream keeps FeedInv, whatever happens to it; and what the browser has *)
(* handled only changes when it handles more.                               *)

LEMMA LoudIs ==
    ASSUME NEW items, NEW b \in Nat
    PROVE  /\ Loud(items, b) \in SUBSET (1 .. b)
           /\ IsFiniteSet(Loud(items, b)) /\ Cardinality(Loud(items, b)) \in Nat
<1>1. Loud(items, b) \in SUBSET (1 .. b)
    BY DEF Loud
<1> QED BY <1>1, PlacesAreFinite

LEMMA HeardIs ==
    ASSUME NEW f \in Feed, f.read <= 4 * Len(f.sent)
    PROVE  /\ Whole(f) \in Nat /\ Whole(f) <= Len(f.sent)
           /\ Heard(f) \in SUBSET (1 .. Whole(f))
           /\ IsFiniteSet(Heard(f)) /\ Cardinality(Heard(f)) \in Nat
<1>1. f.read \in Nat /\ Len(f.sent) \in Nat
    BY DEF Feed
<1>2. Whole(f) \in Nat /\ Whole(f) <= Len(f.sent)
    BY <1>1 DEF Whole
<1> QED BY <1>2, LoudIs DEF Heard

LEMMA LeadingOnes ==
    ASSUME NEW n \in Nat, NEW I \in SUBSET (1 .. n), NEW b \in Nat,
           NEW k \in Nat, k <= Cardinality(Upto(I, b))
    PROVE  Leading(I, k) = Leading(Upto(I, b), k)
<1>1. I \subseteq Nat
    OBVIOUS
<1>2. ASSUME NEW i \in I, i <= b
      PROVE  Upto(Upto(I, b), i) = Upto(I, i)
    <2>1. i \in Nat
        BY <1>1
    <2>2. \A j \in Nat : j <= i => j <= b
        BY <1>2, <2>1
    <2> QED BY <1>1, <2>2 DEF Upto
<1>3. ASSUME NEW i \in I, ~(i <= b)
      PROVE  ~(Cardinality(Upto(I, i)) <= k)
    <2>1. i \in Nat
        BY <1>1
    <2>2. Cardinality(Upto(I, b)) < Cardinality(Upto(I, i))
        BY <1>3, <2>1, RankGrows
    <2>3. Cardinality(Upto(I, b)) \in Nat /\ Cardinality(Upto(I, i)) \in Nat
        BY PlacesAreFinite
    <2> QED BY <2>2, <2>3
<1>4. ASSUME NEW i
      PROVE  i \in Leading(I, k) <=> i \in Leading(Upto(I, b), k)
    <2>1. i \in Upto(I, b) <=> i \in I /\ i <= b
        BY DEF Upto
    <2>2. CASE i \in I /\ i <= b
        BY <1>2, <2>1, <2>2 DEF Leading
    <2>3. CASE i \in I /\ ~(i <= b)
        BY <1>3, <2>1, <2>3 DEF Leading
    <2>4. CASE i \notin I
        BY <2>1, <2>4 DEF Leading
    <2> QED BY <2>2, <2>3, <2>4
<1> QED BY <1>4

LEMMA LoudOnward ==
    ASSUME NEW items, NEW b \in Nat, NEW m \in Nat
    PROVE  /\ Upto(Loud(items, b + m), b) = Loud(items, b)
           /\ After(Loud(items, b + m), b, m) = {k \in 1 .. m : items[b + k].kind # "note"}
<1>1. \A i : i \in 1 .. b <=> i \in 1 .. b + m /\ i <= b
    OBVIOUS
<1>2. \A k \in 1 .. m : b + k \in 1 .. b + m
    OBVIOUS
<1> QED BY <1>1, <1>2 DEF Upto, After, Loud

LEMMA ReadOn ==
    ASSUME NEW items, NEW b \in Nat, NEW m \in Nat,
           NEW out, Written(out, items, b),
           NEW new, WrittenNext(new, items, b, m)
    PROVE  Written(out \o new, items, b + m)
<1>1. PICK I \in SUBSET (1 .. b + m) : I = Loud(items, b + m)
    BY LoudIs
<1>2. PICK J \in SUBSET (1 .. m) : J = After(I, b, m)
    BY DEF After
<1>3. PICK c \in Nat, d \in Nat :
          /\ c = Len(out) /\ c = Cardinality(Upto(I, b))
          /\ d = Len(new) /\ d = Cardinality(J)
    <2>1. Upto(I, b) = Loud(items, b)
        BY <1>1, LoudOnward
    <2> QED BY <1>1, <1>2, <2>1 DEF Written, WrittenNext
<1>4. Cardinality(I) = c + d
    BY <1>2, <1>3, NthOnward
<1>5. PICK all \in Seq(Item) :
          /\ all = out \o new /\ Len(all) = c + d
          /\ \A k \in 1 .. c : all[k] = out[k]
          /\ \A k \in 1 .. d : all[c + k] = new[k]
    <2>1. out \in Seq(Item) /\ new \in Seq(Item)
        BY DEF Written, WrittenNext
    <2>2. /\ out \o new \in Seq(Item) /\ Len(out \o new) = Len(out) + Len(new)
          /\ \A k \in 1 .. Len(out) + Len(new) :
                 (out \o new)[k] = IF k <= Len(out) THEN out[k] ELSE new[k - Len(out)]
        BY <2>1, ConcatProperties
    <2>3. \A k \in 1 .. c : k \in 1 .. c + d /\ k <= c
        OBVIOUS
    <2>4. \A k \in 1 .. d : c + k \in 1 .. c + d /\ ~(c + k <= c) /\ (c + k) - c = k
        OBVIOUS
    <2>5. \A k \in 1 .. c : (out \o new)[k] = out[k]
        BY <1>3, <2>2, <2>3
    <2>6. \A k \in 1 .. d : (out \o new)[c + k] = new[k]
        BY <1>3, <2>2, <2>4
    <2> QED BY <1>3, <2>2, <2>5, <2>6
<1>6. ASSUME NEW k \in 1 .. c
      PROVE  all[k] = items[Nth(I, k)]
    <2>1. Nth(I, k) = Nth(Upto(I, b), k) /\ Upto(I, b) = Loud(items, b)
        <3>1. Upto(I, b) = Loud(items, b)
            BY <1>1, LoudOnward
        <3>2. b + m \in Nat /\ k \in 1 .. Cardinality(Upto(I, b))
            BY <1>3
        <3>3. Nth(I, k) = Nth(Upto(I, b), k)
            BY <3>2, NthInitial
        <3> QED BY <3>1, <3>3
    <2>2. out[k] = items[Nth(Loud(items, b), k)]
        BY <1>3 DEF Written
    <2> QED BY <1>5, <2>1, <2>2
<1>7. ASSUME NEW k \in 1 .. d
      PROVE  all[c + k] = items[Nth(I, c + k)]
    <2>1. Nth(I, Cardinality(Upto(I, b)) + k) = b + Nth(J, k)
        BY <1>2, <1>3, NthOnward
    <2>2. new[k] = items[b + Nth(J, k)]
        BY <1>1, <1>2, <1>3 DEF WrittenNext
    <2> QED BY <1>3, <1>5, <2>1, <2>2
<1>8. \A k \in 1 .. c + d : k \in 1 .. c \/ \E j \in 1 .. d : k = c + j
    <2>1. ASSUME NEW k \in 1 .. c + d, k \notin 1 .. c
          PROVE  k - c \in 1 .. d /\ k = c + (k - c)
        BY <2>1
    <2> QED BY <2>1
<1>9. \A k \in 1 .. c + d : all[k] = items[Nth(I, k)]
    BY <1>6, <1>7, <1>8
<1> QED BY <1>1, <1>4, <1>5, <1>9 DEF Written

\* What the stream f becomes when n of its text has been read.
Transformed(f, n) ==
    LET cut == Split(f.buffer \o SubSeq(Wire(f.sent), f.read + 1, n))
    IN  [f EXCEPT !.read = n, !.buffer = cut.rest, !.out = f.out \o Forwarded(cut.frames)]

LEMMA FieldsOf ==
    ASSUME NEW f \in Feed
    PROVE  /\ f.source \in {"none", "open", "closed"}
           /\ f.body \in {"none", "open", "closed", "broken", "timers"}
           /\ f.sent \in Seq(Item) /\ f.read \in Nat /\ f.buffer \in Seq(Token)
           /\ f.out \in Seq(Item) /\ f.got \in Nat /\ Len(f.out) \in Nat /\ Len(f.sent) \in Nat
           /\ f = [source |-> f.source, body |-> f.body, sent |-> f.sent, read |-> f.read,
                   buffer |-> f.buffer, out |-> f.out, got |-> f.got]
BY DEF Feed, Token

LEMMA ChunkIs ==
    ASSUME NEW items \in Seq(Item), NEW r \in Nat, NEW n \in Nat, r <= n, n <= 4 * Len(items)
    PROVE  LET cut == Split(SubSeq(Wire(items), 4 * (r \div 4) + 1, r)
                                \o SubSeq(Wire(items), r + 1, n))
           IN  /\ cut.rest = SubSeq(Wire(items), 4 * (n \div 4) + 1, n)
               /\ cut.rest \in Seq(Token)
               /\ WrittenNext(Forwarded(cut.frames), items, r \div 4, n \div 4 - r \div 4)
<1> DEFINE cut == Split(SubSeq(Wire(items), 4 * (r \div 4) + 1, r)
                            \o SubSeq(Wire(items), r + 1, n))
<1>1. PICK b \in Nat, m \in Nat : b = r \div 4 /\ m = n \div 4 - r \div 4
    OBVIOUS
<1>2. /\ cut.rest = SubSeq(Wire(items), 4 * (n \div 4) + 1, n)
      /\ DOMAIN cut.frames = 1 .. m
      /\ \A k \in 1 .. m : Reading(cut.frames[k]) = items[b + k]
    <2>1. /\ cut.rest = SubSeq(Wire(items), 4 * (n \div 4) + 1, n)
          /\ DOMAIN cut.frames = 1 .. (n \div 4 - r \div 4)
          /\ \A k \in 1 .. (n \div 4 - r \div 4) : Reading(cut.frames[k]) = items[r \div 4 + k]
        BY SplitIs
    <2> HIDE DEF cut
    <2> QED BY <1>1, <2>1
<1> HIDE DEF cut
<1>3. cut.rest \in Seq(Token)
    <2>1. Wire(items) \in Seq(Token) /\ Len(Wire(items)) = 4 * Len(items)
        BY WireIs
    <2>2. \A i \in 4 * (n \div 4) + 1 .. n : Wire(items)[i] \in Token
        BY <2>1
    <2> QED BY <1>2, <2>2, SubSeqProperties
<1>4. Frames(cut.frames, items, b, m)
    BY <1>2 DEF Frames
<1>5. b + m <= Len(items)
    BY <1>1
<1>6. WrittenNext(Forwarded(cut.frames), items, b, m)
    BY <1>4, <1>5, ForwardedIs
<1> QED BY <1>1, <1>2, <1>3, <1>6 DEF cut

\* What has been handled stays so when the stream is read on.
LEMMA HandledStays ==
    ASSUME NEW items, NEW b \in Nat, NEW m \in Nat,
           NEW got \in Nat, got <= Cardinality(Loud(items, b))
    PROVE  Leading(Loud(items, b + m), got) = Leading(Loud(items, b), got)
<1>1. PICK n \in Nat : n = b + m
    OBVIOUS
<1>2. Loud(items, n) \in SUBSET (1 .. n)
    BY LoudIs
<1>3. Upto(Loud(items, n), b) = Loud(items, b)
    BY <1>1, LoudOnward
<1>4. Leading(Loud(items, n), got) = Leading(Upto(Loud(items, n), b), got)
    BY <1>2, <1>3, LeadingOnes
<1> QED BY <1>1, <1>3, <1>4

LEMMA TransformKeeps ==
    ASSUME NEW f \in Feed, FeedInv(f), f.source = "open", f.body = "open",
           f.got <= Len(f.out),
           NEW n \in f.read + 1 .. 4 * Len(f.sent)
    PROVE  /\ Transformed(f, n) \in Feed /\ FeedInv(Transformed(f, n))
           /\ Transformed(f, n).got <= Len(Transformed(f, n).out)
           /\ Handled(Transformed(f, n)) = Handled(f)
           /\ Transformed(f, n).sent = f.sent
<1>1. PICK items \in Seq(Item), r \in Nat, out \in Seq(Item), got \in Nat :
          items = f.sent /\ r = f.read /\ out = f.out /\ got = f.got
    BY FieldsOf
<1>2. n \in Nat /\ r <= n /\ n <= 4 * Len(items) /\ got <= Len(out)
    BY <1>1
<1>3. PICK b \in Nat, m \in Nat : b = r \div 4 /\ m = n \div 4 - r \div 4 /\ b + m = n \div 4
    BY <1>2
<1>4. f.buffer = SubSeq(Wire(items), 4 * (r \div 4) + 1, r)
    BY <1>1 DEF FeedInv, BufferInv
<1>5. PICK rest \in Seq(Token), new \in Seq(Item) :
          /\ rest = Split(f.buffer \o SubSeq(Wire(items), r + 1, n)).rest
          /\ new = Forwarded(Split(f.buffer \o SubSeq(Wire(items), r + 1, n)).frames)
          /\ rest = SubSeq(Wire(items), 4 * (n \div 4) + 1, n)
          /\ WrittenNext(new, items, b, m)
    <2>1. LET cut == Split(SubSeq(Wire(items), 4 * (r \div 4) + 1, r)
                               \o SubSeq(Wire(items), r + 1, n))
          IN  /\ cut.rest = SubSeq(Wire(items), 4 * (n \div 4) + 1, n)
              /\ cut.rest \in Seq(Token)
              /\ WrittenNext(Forwarded(cut.frames), items, r \div 4, n \div 4 - r \div 4)
        BY <1>2, ChunkIs
    <2>2. PICK cut : cut = Split(f.buffer \o SubSeq(Wire(items), r + 1, n))
        OBVIOUS
    <2>3. /\ cut.rest = SubSeq(Wire(items), 4 * (n \div 4) + 1, n)
          /\ cut.rest \in Seq(Token)
          /\ WrittenNext(Forwarded(cut.frames), items, b, m)
        BY <1>3, <1>4, <2>1, <2>2
    <2>4. Forwarded(cut.frames) \in Seq(Item)
        BY <2>3 DEF WrittenNext
    <2> QED BY <2>2, <2>3, <2>4
<1>6. PICK g : g = Transformed(f, n)
    OBVIOUS
<1>7. /\ g = [f EXCEPT !.read = n, !.buffer = rest, !.out = out \o new]
      /\ g.source = "open" /\ g.body = "open" /\ g.sent = items /\ g.read = n
      /\ g.buffer = rest /\ g.out = out \o new /\ g.got = got
    <2>1. g = [f EXCEPT !.read = n, !.buffer = rest, !.out = out \o new]
        BY <1>1, <1>5, <1>6 DEF Transformed
    <2> QED BY <1>1, <2>1 DEF Feed
<1>8. /\ Heard(f) = Loud(items, b) /\ Whole(f) = b
      /\ Heard(g) = Loud(items, b + m) /\ Whole(g) = b + m
    BY <1>1, <1>3, <1>7 DEF Heard, Whole
<1>9. Written(out, items, b)
    <2>1. Len(out) = Cardinality(Loud(items, b))
        <3>1. Cardinality(Loud(items, b)) \in Nat /\ Len(out) \in Nat
            BY LoudIs
        <3> QED BY <1>1, <1>8, <3>1 DEF FeedInv, OutInv
    <2>2. \A k \in 1 .. Len(out) : out[k] = items[Nth(Loud(items, b), k)]
        <3>1. DOMAIN out = 1 .. Len(out)
            OBVIOUS
        <3> QED BY <1>1, <1>8, <2>1, <3>1 DEF FeedInv, OutInv
    <2> QED BY <2>1, <2>2 DEF Written
<1>10. PICK all \in Seq(Item) : all = out \o new /\ Written(all, items, b + m)
    <2>1. Written(out \o new, items, b + m)
        BY <1>5, <1>9, ReadOn
    <2> QED BY <2>1 DEF Written
<1>11. g \in Feed
    BY <1>2, <1>7, <1>10 DEF Feed, Token
<1>12. BufferInv(g)
    BY <1>5, <1>7 DEF BufferInv
<1>13. OutInv(g)
    <2>1. /\ Len(all) = Cardinality(Loud(items, b + m)) /\ DOMAIN all = 1 .. Len(all)
          /\ \A k \in 1 .. Len(all) : all[k] = items[Nth(Loud(items, b + m), k)]
        BY <1>10 DEF Written
    <2>2. g.out = all /\ g.sent = items /\ g.read = n
        BY <1>7, <1>10
    <2> QED BY <1>2, <1>8, <2>1, <2>2 DEF OutInv
<1>14. Handled(g) = Handled(f)
    <2>1. got <= Cardinality(Loud(items, b))
        BY <1>2, <1>9 DEF Written
    <2> QED BY <1>1, <1>7, <1>8, <2>1, HandledStays DEF Handled
<1>15. DoneInv(g)
    <2>1. g.source = "open" /\ g.sent = f.sent
        BY <1>1, <1>7
    <2> QED BY <1>14, <2>1 DEF FeedInv, DoneInv, IsDone
<1>16. g.got <= Len(g.out)
    <2>1. Len(all) = Len(out) + Len(new) /\ Len(new) \in Nat /\ Len(out) \in Nat
        BY <1>5, <1>10 DEF WrittenNext
    <2> QED BY <1>2, <1>7, <1>10, <2>1
<1> QED BY <1>1, <1>6, <1>7, <1>11, <1>12, <1>13, <1>14, <1>15, <1>16 DEF FeedInv

\* All of it is written, and nothing more that says anything.
WrittenWhole(all, items, w) ==
    /\ all \in Seq(Item)
    /\ Cardinality(Loud(items, w)) <= Len(all)
    /\ \A k \in DOMAIN all :
           IF k <= Cardinality(Loud(items, w)) THEN all[k] = items[Nth(Loud(items, w), k)]
           ELSE all[k].kind \in {"note", "garbled"}

LEMMA WholeIs ==
    ASSUME NEW items, NEW w \in Nat, NEW out, Written(out, items, w)
    PROVE  /\ WrittenWhole(out, items, w)
           /\ \A item \in Item : item.kind \in {"note", "garbled"} =>
                  WrittenWhole(out \o << item >>, items, w)
<1>1. PICK c \in Nat : c = Cardinality(Loud(items, w)) /\ c = Len(out) /\ DOMAIN out = 1 .. c
    BY LoudIs DEF Written
<1>2. out \in Seq(Item) /\ \A k \in 1 .. c : out[k] = items[Nth(Loud(items, w), k)]
    BY <1>1 DEF Written
<1>3. WrittenWhole(out, items, w)
    BY <1>1, <1>2 DEF WrittenWhole
<1>4. ASSUME NEW item \in Item, item.kind \in {"note", "garbled"}
      PROVE  WrittenWhole(out \o << item >>, items, w)
    <2>1. PICK all \in Seq(Item) : all = out \o << item >>
        <3>1. << item >> \in Seq(Item)
            OBVIOUS
        <3> QED BY <1>2, <3>1, ConcatProperties
    <2>2. /\ Len(all) = c + 1 /\ DOMAIN all = 1 .. c + 1
          /\ \A k \in 1 .. c : all[k] = out[k]
          /\ all[c + 1] = item
        BY <1>1, <1>2, <2>1
    <2>3. \A k \in 1 .. c + 1 : (k <= c => k \in 1 .. c) /\ (~(k <= c) => k = c + 1)
        OBVIOUS
    <2> QED BY <1>1, <1>2, <1>4, <2>1, <2>2, <2>3 DEF WrittenWhole
<1> QED BY <1>3, <1>4

\* One more item that is whole.
LEMMA OneMore ==
    ASSUME NEW items \in Seq(Item), NEW b \in Nat, b + 1 \in DOMAIN items,
           NEW out, Written(out, items, b)
    PROVE  IF items[b + 1].kind = "note" THEN Written(out, items, b + 1)
           ELSE Written(out \o << items[b + 1] >>, items, b + 1)
<1>1. CASE items[b + 1].kind = "note"
    <2>1. Loud(items, b + 1) = Loud(items, b)
        <3>1. \A i : i \in 1 .. b + 1 <=> i \in 1 .. b \/ i = b + 1
            OBVIOUS
        <3> QED BY <1>1, <3>1 DEF Loud
    <2> QED BY <1>1, <2>1 DEF Written
<1>2. CASE items[b + 1].kind # "note"
    <2>1. PICK item \in Item : item = items[b + 1]
        OBVIOUS
    <2>2. After(Loud(items, b + 1), b, 1) = {1}
        <3>1. b + 1 \in 1 .. b + 1 /\ 1 .. 1 = {1}
            OBVIOUS
        <3> QED BY <1>2, <3>1 DEF After, Loud
    <2>3. Cardinality({1}) = 1
        BY FS_Singleton
    <2>4. Nth({1}, 1) = 1
        <3>1. {1} \in SUBSET (1 .. 1) /\ 1 \in 1 .. Cardinality({1}) /\ 1 \in Nat
            BY <2>3
        <3>2. Nth({1}, 1) \in {1}
            BY <3>1, NthOf
        <3> QED BY <3>2
    <2>5. /\ << item >> \in Seq(Item) /\ Len(<< item >>) = 1
          /\ \A k \in 1 .. 1 : k = 1 /\ << item >>[k] = item
        OBVIOUS
    <2>6. WrittenNext(<< item >>, items, b, 1)
        BY <2>1, <2>2, <2>3, <2>4, <2>5 DEF WrittenNext
    <2>7. Written(out \o << item >>, items, b + 1)
        BY <2>6, ReadOn
    <2> QED BY <1>2, <2>1, <2>7
<1> QED BY <1>1, <1>2

\* What the stream f becomes when its response ends, or breaks after n of what
\* was written.
Ended(f) == [f EXCEPT !.body = "closed", !.buffer = << >>, !.out = f.out \o Flushed(f)]
Broken(f, n) == [f EXCEPT !.body = "broken", !.buffer = << >>, !.out = SubSeq(f.out, 1, n)]

\* What FeedInv says of an open stream.
LEMMA OpenFeed ==
    ASSUME NEW f \in Feed, FeedInv(f), f.body = "open"
    PROVE  /\ Heard(f) = Loud(f.sent, f.read \div 4)
           /\ Written(f.out, f.sent, f.read \div 4)
           /\ f.read <= 4 * Len(f.sent)
           /\ f.buffer = SubSeq(Wire(f.sent), 4 * (f.read \div 4) + 1, f.read)
<1>1. PICK items \in Seq(Item), r \in Nat, out \in Seq(Item) :
          items = f.sent /\ r = f.read /\ out = f.out
    BY FieldsOf
<1>2. PICK b \in Nat : b = r \div 4
    OBVIOUS
<1>3. Heard(f) = Loud(items, b)
    BY <1>1, <1>2 DEF Heard, Whole
<1>4. Len(out) = Cardinality(Loud(items, b))
    <2>1. Cardinality(Loud(items, b)) \in Nat /\ Len(out) \in Nat
        BY LoudIs
    <2> QED BY <1>1, <1>3, <2>1 DEF FeedInv, OutInv
<1>5. \A k \in 1 .. Len(out) : out[k] = items[Nth(Loud(items, b), k)]
    <2>1. DOMAIN out = 1 .. Len(out)
        OBVIOUS
    <2> QED BY <1>1, <1>3, <1>4, <2>1 DEF FeedInv, OutInv
<1>6. Written(out, items, b)
    BY <1>4, <1>5 DEF Written
<1> QED BY <1>1, <1>2, <1>3, <1>6 DEF FeedInv, OutInv, BufferInv

LEMMA FinishKeeps ==
    ASSUME NEW f \in Feed, FeedInv(f), f.source = "open", f.body = "open",
           f.got <= Len(f.out)
    PROVE  /\ Ended(f) \in Feed /\ FeedInv(Ended(f))
           /\ Ended(f).got <= Len(Ended(f).out)
           /\ Handled(Ended(f)) = Handled(f)
           /\ Ended(f).sent = f.sent
<1>1. PICK items \in Seq(Item), r \in Nat, out \in Seq(Item), got \in Nat :
          items = f.sent /\ r = f.read /\ out = f.out /\ got = f.got
    BY FieldsOf
<1>2. r <= 4 * Len(items) /\ got <= Len(out)
    BY <1>1, OpenFeed
<1>3. PICK b \in Nat, w \in Nat : b = r \div 4 /\ w = (r + 2) \div 4
    OBVIOUS
<1>4. /\ Heard(f) = Loud(items, b) /\ Written(out, items, b)
      /\ f.buffer = SubSeq(Wire(items), 4 * (r \div 4) + 1, r)
    BY <1>1, <1>3, OpenFeed
<1>5. /\ r % 4 = 0 => Flushed(f) = << >>
      /\ r % 4 # 0 =>
             /\ b + 1 \in DOMAIN items
             /\ \E item \in Item :
                    /\ Flushed(f) = << item >>
                    /\ r % 4 = 1 => item.kind \in {"note", "garbled"}
                    /\ r % 4 # 1 => item = items[b + 1]
    <2>1. /\ r % 4 = 0 => Flushed(f) = << >>
          /\ r % 4 # 0 =>
                 /\ r \div 4 + 1 \in DOMAIN items
                 /\ \E item \in Item :
                        /\ Flushed(f) = << item >>
                        /\ r % 4 = 1 => item.kind \in {"note", "garbled"}
                        /\ r % 4 # 1 => item = items[r \div 4 + 1]
        BY <1>2, <1>4, FlushedIs
    <2> QED BY <1>3, <2>1
<1>6. WrittenWhole(out \o Flushed(f), items, w) /\ w \in {b, b + 1}
    <2>1. CASE r % 4 = 0
        <3>1. w = b
            BY <1>3, <2>1
        <3>2. out \o Flushed(f) = out
            BY <1>5, <2>1, ConcatEmptySeq
        <3> QED BY <1>4, <3>1, <3>2, WholeIs
    <2>2. CASE r % 4 = 1
        <3>1. w = b
            BY <1>3, <2>2
        <3>2. PICK item \in Item : Flushed(f) = << item >> /\ item.kind \in {"note", "garbled"}
            BY <1>5, <2>2
        <3> QED BY <1>4, <3>1, <3>2, WholeIs
    <2>3. CASE r % 4 \in {2, 3}
        <3>1. w = b + 1
            BY <1>3, <2>3
        <3>2. PICK item \in Item : Flushed(f) = << item >> /\ item = items[b + 1] /\ b + 1 \in DOMAIN items
            BY <1>5, <2>3
        <3>3. CASE item.kind = "note"
            <4>1. Written(out, items, b + 1)
                BY <1>4, <3>2, <3>3, OneMore
            <4> QED BY <3>1, <3>2, <3>3, <4>1, WholeIs
        <3>4. CASE item.kind # "note"
            <4>1. Written(out \o << item >>, items, b + 1)
                BY <1>4, <3>2, <3>4, OneMore
            <4> QED BY <3>1, <3>2, <4>1, WholeIs
        <3> QED BY <3>3, <3>4
    <2>4. r % 4 \in {0, 1, 2, 3}
        OBVIOUS
    <2> QED BY <2>1, <2>2, <2>3, <2>4
<1>7. PICK all \in Seq(Item) : all = out \o Flushed(f) /\ WrittenWhole(all, items, w)
    BY <1>6 DEF WrittenWhole
<1>8. PICK g : g = Ended(f)
    OBVIOUS
<1>9. /\ g \in Feed
      /\ g.source = "open" /\ g.body = "closed" /\ g.sent = items /\ g.read = r
      /\ g.buffer = << >> /\ g.out = all /\ g.got = got
    <2>1. g = [f EXCEPT !.body = "closed", !.buffer = << >>, !.out = all]
        BY <1>1, <1>7, <1>8 DEF Ended
    <2>2. /\ g.source = "open" /\ g.body = "closed" /\ g.sent = items /\ g.read = r
          /\ g.buffer = << >> /\ g.out = all /\ g.got = got
        BY <1>1, <2>1 DEF Feed
    <2>3. << >> \in Seq(Token)
        OBVIOUS
    <2> QED BY <2>1, <2>2, <2>3 DEF Feed, Token
<1>10. Heard(g) = Loud(items, w)
    BY <1>3, <1>9 DEF Heard, Whole
<1>11. BufferInv(g) /\ OutInv(g)
    BY <1>2, <1>7, <1>9, <1>10 DEF BufferInv, OutInv, WrittenWhole
<1>12. Handled(g) = Handled(f)
    <2>1. got <= Cardinality(Loud(items, b))
        BY <1>2, <1>4 DEF Written
    <2>2. w = b + (w - b) /\ w - b \in Nat
        BY <1>6
    <2>3. Leading(Loud(items, b + (w - b)), got) = Leading(Loud(items, b), got)
        BY <2>1, <2>2, HandledStays
    <2> QED BY <1>1, <1>4, <1>9, <1>10, <2>2, <2>3 DEF Handled
<1>13. DoneInv(g)
    BY <1>1, <1>9, <1>12 DEF FeedInv, DoneInv, IsDone
<1>14. Len(out) <= Len(all)
    <2>1. PICK new \in Seq(Item) : new = Flushed(f)
        <3>1. << >> \in Seq(Item) /\ \A item \in Item : << item >> \in Seq(Item)
            OBVIOUS
        <3> QED BY <1>5, <3>1
    <2>2. Len(all) = Len(out) + Len(new)
        BY <1>7, <2>1, ConcatProperties
    <2> QED BY <2>1, <2>2
<1> QED BY <1>1, <1>2, <1>8, <1>9, <1>11, <1>12, <1>13, <1>14 DEF FeedInv

LEMMA BreakKeeps ==
    ASSUME NEW f \in Feed, FeedInv(f), f.source = "open", f.body = "open",
           NEW n \in f.got .. Len(f.out)
    PROVE  /\ Broken(f, n) \in Feed /\ FeedInv(Broken(f, n))
           /\ Broken(f, n).got <= Len(Broken(f, n).out)
           /\ Handled(Broken(f, n)) = Handled(f)
           /\ Broken(f, n).sent = f.sent
<1>1. PICK items \in Seq(Item), r \in Nat, out \in Seq(Item), got \in Nat :
          items = f.sent /\ r = f.read /\ out = f.out /\ got = f.got
    BY FieldsOf
<1>2. n \in Nat /\ got <= n /\ n <= Len(out)
    BY <1>1
<1>3. PICK all \in Seq(Item) :
          /\ all = SubSeq(out, 1, n) /\ Len(all) = n
          /\ \A k \in 1 .. n : all[k] = out[k] /\ k \in DOMAIN out
    <2>1. \A k \in 1 .. n : k \in DOMAIN out /\ out[k] \in Item
        BY <1>2
    <2>2. /\ SubSeq(out, 1, n) \in Seq(Item)
          /\ Len(SubSeq(out, 1, n)) = IF 1 <= n THEN n - 1 + 1 ELSE 0
          /\ \A k \in 1 .. n - 1 + 1 : SubSeq(out, 1, n)[k] = out[1 + k - 1]
        BY <1>2, <2>1, SubSeqProperties
    <2>3. (IF 1 <= n THEN n - 1 + 1 ELSE 0) = n /\ \A k \in 1 .. n : k \in 1 .. n - 1 + 1 /\ 1 + k - 1 = k
        BY <1>2
    <2> QED BY <2>1, <2>2, <2>3
<1>4. PICK g : g = Broken(f, n)
    OBVIOUS
<1>5. /\ g \in Feed
      /\ g.source = "open" /\ g.body = "broken" /\ g.sent = items /\ g.read = r
      /\ g.out = all /\ g.got = got
    <2>1. g = [f EXCEPT !.body = "broken", !.buffer = << >>, !.out = all]
        BY <1>1, <1>3, <1>4 DEF Broken
    <2>2. /\ g.source = "open" /\ g.body = "broken" /\ g.sent = items /\ g.read = r
          /\ g.out = all /\ g.got = got
        BY <1>1, <2>1 DEF Feed
    <2>3. << >> \in Seq(Token)
        OBVIOUS
    <2> QED BY <2>1, <2>2, <2>3 DEF Feed, Token
<1>6. Heard(g) = Heard(f)
    BY <1>1, <1>5 DEF Heard, Whole
<1>7. BufferInv(g) /\ OutInv(g)
    <2>1. DOMAIN all = 1 .. n
        BY <1>3
    <2> QED BY <1>1, <1>3, <1>5, <1>6, <2>1 DEF FeedInv, BufferInv, OutInv
<1>8. Handled(g) = Handled(f)
    BY <1>1, <1>5, <1>6 DEF Handled
<1>9. DoneInv(g)
    BY <1>1, <1>5, <1>8 DEF FeedInv, DoneInv, IsDone
<1> QED BY <1>1, <1>2, <1>3, <1>4, <1>5, <1>7, <1>8, <1>9 DEF FeedInv

\* One more of the places of I.
LEMMA LeadingNext ==
    ASSUME NEW n \in Nat, NEW I \in SUBSET (1 .. n), NEW k \in Nat, k + 1 <= Cardinality(I)
    PROVE  LET p == Nth(I, k + 1)
           IN  /\ p \in I /\ p \notin Leading(I, k)
               /\ Leading(I, k + 1) = Leading(I, k) \cup {p}
               /\ \A i \in Leading(I, k) : i < p
               /\ \A i \in I : i < p => i \in Leading(I, k)
<1>1. PICK c \in Nat : c = Cardinality(I) /\ k + 1 \in 1 .. c
    <2>1. Cardinality(I) \in Nat
        BY PlacesAreFinite
    <2> QED BY <2>1
<1>2. PICK p \in I : p = Nth(I, k + 1) /\ Cardinality(Upto(I, p)) = k + 1
    BY <1>1, NthOf
<1>3. I \subseteq Nat
    OBVIOUS
<1>4. \A i \in I : Cardinality(Upto(I, i)) \in Nat
    BY PlacesAreFinite
<1>5. \A i, j \in I : i < j => Cardinality(Upto(I, i)) < Cardinality(Upto(I, j))
    BY <1>3, RankGrows
<1>6. \A i \in I : Cardinality(Upto(I, i)) = k + 1 => i = p
    <2>1. \A i \in I : Nth(I, Cardinality(Upto(I, i))) = i
        BY NthIs
    <2> QED BY <1>2, <2>1
<1>7. \A i \in I : Cardinality(Upto(I, i)) <= k + 1 <=> Cardinality(Upto(I, i)) <= k \/ i = p
    BY <1>2, <1>4, <1>6
<1>8. Leading(I, k + 1) = Leading(I, k) \cup {p}
    BY <1>7 DEF Leading
<1>9. p \notin Leading(I, k)
    BY <1>2 DEF Leading
<1>10. ASSUME NEW i \in Leading(I, k)
       PROVE  i < p
    <2>1. i \in I /\ Cardinality(Upto(I, i)) <= k
        BY DEF Leading
    <2>2. ~(p < i) /\ i # p
        BY <1>2, <1>4, <1>5, <2>1
    <2> QED BY <1>3, <2>1, <2>2
<1>11. \A i \in I : i < p => i \in Leading(I, k)
    <2>1. \A i \in I : i < p => Cardinality(Upto(I, i)) <= k
        BY <1>2, <1>4, <1>5
    <2> QED BY <2>1 DEF Leading
<1> QED BY <1>2, <1>8, <1>9, <1>10, <1>11

LEMMA LeadingAll ==
    ASSUME NEW n \in Nat, NEW I \in SUBSET (1 .. n), NEW k \in Nat, Cardinality(I) <= k
    PROVE  Leading(I, k) = I
<1>1. \A i \in I : /\ Cardinality(Upto(I, i)) \in Nat /\ Cardinality(I) \in Nat
                   /\ Cardinality(Upto(I, i)) <= Cardinality(I)
    BY PlacesAreFinite
<1>2. \A i \in I : Cardinality(Upto(I, i)) <= k
    BY <1>1
<1> QED BY <1>2 DEF Leading

\* What the stream f becomes when the browser handles the next item: one that
\* shows nothing, or the next of those that were heard.
Delivered(f) ==
    LET g == [f EXCEPT !.got = f.got + 1]
    IN  IF g.out[g.got].kind = "done" THEN [g EXCEPT !.source = "closed"] ELSE g

LEMMA DeliveredIs ==
    ASSUME NEW f \in Feed, f.source = "open", f.got < Len(f.out)
    PROVE  /\ f.out[f.got + 1] \in Item
           /\ Delivered(f) \in Feed
           /\ Delivered(f).source = IF f.out[f.got + 1].kind = "done" THEN "closed" ELSE "open"
           /\ Delivered(f).body = f.body /\ Delivered(f).sent = f.sent
           /\ Delivered(f).read = f.read /\ Delivered(f).buffer = f.buffer
           /\ Delivered(f).out = f.out /\ Delivered(f).got = f.got + 1
<1>1. PICK items \in Seq(Item), out \in Seq(Item), got \in Nat :
          items = f.sent /\ out = f.out /\ got = f.got
    BY FieldsOf
<1>2. got + 1 \in DOMAIN out /\ got + 1 <= Len(out)
    BY <1>1
<1>3. PICK item \in Item : item = out[got + 1] /\ item = f.out[f.got + 1]
    BY <1>1, <1>2
<1>4. PICK g : g = Delivered(f)
    OBVIOUS
<1>5. /\ g \in Feed
      /\ g.source = IF item.kind = "done" THEN "closed" ELSE "open"
      /\ g.body = f.body /\ g.sent = items /\ g.read = f.read
      /\ g.buffer = f.buffer /\ g.out = out /\ g.got = got + 1
    <2>1. PICK h : h = [f EXCEPT !.got = got + 1]
        OBVIOUS
    <2>2. /\ h \in Feed
          /\ h.source = "open" /\ h.body = f.body /\ h.sent = items /\ h.read = f.read
          /\ h.buffer = f.buffer /\ h.out = out /\ h.got = got + 1
        <3>1. /\ h.source = "open" /\ h.body = f.body /\ h.sent = items /\ h.read = f.read
              /\ h.buffer = f.buffer /\ h.out = out /\ h.got = got + 1
            BY <1>1, <2>1 DEF Feed
        <3>2. got + 1 \in Nat
            OBVIOUS
        <3>3. h \in Feed
            BY <2>1, <3>2 DEF Feed
        <3> QED BY <3>1, <3>3
    <2>3. g = IF item.kind = "done" THEN [h EXCEPT !.source = "closed"] ELSE h
        BY <1>1, <1>3, <1>4, <2>1, <2>2 DEF Delivered
    <2>4. CASE item.kind = "done"
        <3>1. g = [h EXCEPT !.source = "closed"]
            BY <2>3, <2>4
        <3>2. /\ g.source = "closed" /\ g.body = h.body /\ g.sent = h.sent /\ g.read = h.read
              /\ g.buffer = h.buffer /\ g.out = h.out /\ g.got = h.got /\ g \in Feed
            BY <2>2, <3>1 DEF Feed
        <3> QED BY <2>2, <2>4, <3>2
    <2>5. CASE item.kind # "done"
        BY <2>2, <2>3, <2>5
    <2> QED BY <2>4, <2>5
<1> QED BY <1>1, <1>3, <1>4, <1>5

NextHeard(f, g, p) ==
    /\ p \in Heard(f) /\ p \notin Handled(f)
    /\ Handled(g) = Handled(f) \cup {p}
    /\ \A i \in Handled(f) : i < p
    /\ \A i \in Heard(f) : i < p => i \in Handled(f)

LEMMA DeliverKeeps ==
    ASSUME NEW f \in Feed, FeedInv(f), f.source = "open", f.got < Len(f.out)
    PROVE  /\ Delivered(f) \in Feed /\ FeedInv(Delivered(f))
           /\ Delivered(f).got <= Len(Delivered(f).out)
           /\ Delivered(f).sent = f.sent /\ Delivered(f).body = f.body
           /\ \/ /\ f.out[f.got + 1].kind # "event"
                 /\ Handled(Delivered(f)) = Handled(f)
              \/ \E p \in Heard(f) :
                     NextHeard(f, Delivered(f), p) /\ f.out[f.got + 1] = f.sent[p]
<1>1. PICK items \in Seq(Item), out \in Seq(Item), got \in Nat :
          items = f.sent /\ out = f.out /\ got = f.got
    BY FieldsOf
<1>2. got + 1 \in DOMAIN out /\ got + 1 <= Len(out)
    BY <1>1
<1>3. PICK item \in Item : item = out[got + 1] /\ item = f.out[f.got + 1]
    BY <1>1, <1>2
<1>4. PICK g : g = Delivered(f)
    OBVIOUS
<1>5. /\ g \in Feed
      /\ g.source = IF item.kind = "done" THEN "closed" ELSE "open"
      /\ g.body = f.body /\ g.sent = items /\ g.read = f.read
      /\ g.buffer = f.buffer /\ g.out = out /\ g.got = got + 1
    BY <1>1, <1>3, <1>4, DeliveredIs
<1>6. Heard(g) = Heard(f)
    BY <1>1, <1>5 DEF Heard, Whole
<1>7. BufferInv(g) /\ OutInv(g)
    BY <1>1, <1>5, <1>6 DEF FeedInv, BufferInv, OutInv
<1>8. \A i \in Handled(f) : ~IsDone(f, i)
    BY DEF FeedInv, DoneInv
<1>9. \A i : IsDone(g, i) <=> IsDone(f, i)
    BY <1>1, <1>5 DEF IsDone
<1>0. PICK w \in Nat : w = Whole(f) /\ Heard(f) \in SUBSET (1 .. w) /\ Cardinality(Heard(f)) \in Nat
    BY HeardIs DEF FeedInv, OutInv
<1>10. PICK I \in SUBSET (1 .. w), c \in Nat : I = Heard(f) /\ c = Cardinality(I)
    BY <1>0
<1>11. Handled(f) = Leading(I, got) /\ Handled(g) = Leading(I, got + 1)
    BY <1>1, <1>5, <1>6, <1>10 DEF Handled
<1>12. CASE got + 1 <= c
    <2>1. PICK p \in I : p = Nth(I, got + 1) /\ NextHeard(f, g, p)
        <3>1. LET p == Nth(I, got + 1)
              IN  /\ p \in I /\ p \notin Leading(I, got)
                  /\ Leading(I, got + 1) = Leading(I, got) \cup {p}
                  /\ \A i \in Leading(I, got) : i < p
                  /\ \A i \in I : i < p => i \in Leading(I, got)
            BY <1>10, <1>12, LeadingNext
        <3> QED BY <1>10, <1>11, <3>1 DEF NextHeard
    <2>2. item = items[p]
        BY <1>1, <1>2, <1>3, <1>10, <1>12, <2>1 DEF FeedInv, OutInv
    <2>3. DoneInv(g)
        <3>1. p \in Handled(g) /\ \A i \in Handled(g) \ {p} : i < p /\ i \in Handled(f)
            BY <2>1 DEF NextHeard
        <3>2. item.kind = "done" <=> IsDone(f, p)
            BY <1>1, <2>2 DEF IsDone
        <3>3. CASE item.kind = "done"
            BY <1>5, <1>8, <1>9, <3>1, <3>2, <3>3 DEF DoneInv
        <3>4. CASE item.kind # "done"
            <4>1. \A i \in Handled(g) : ~IsDone(g, i)
                BY <1>8, <1>9, <3>1, <3>2, <3>4
            <4> QED BY <1>5, <3>4, <4>1 DEF DoneInv
        <3> QED BY <3>3, <3>4
    <2> QED BY <1>1, <1>2, <1>3, <1>4, <1>5, <1>7, <1>10, <2>1, <2>2, <2>3 DEF FeedInv
<1>13. CASE ~(got + 1 <= c)
    <2>1. item.kind \in {"note", "garbled"}
        BY <1>1, <1>2, <1>3, <1>10, <1>13 DEF FeedInv, OutInv
    <2>2. Handled(g) = Handled(f)
        <3>1. c <= got /\ c <= got + 1 /\ got + 1 \in Nat
            BY <1>13
        <3> QED BY <1>10, <1>11, <3>1, LeadingAll
    <2>3. DoneInv(g)
        BY <1>5, <1>8, <1>9, <2>1, <2>2 DEF DoneInv
    <2> QED BY <1>1, <1>2, <1>3, <1>4, <1>5, <1>7, <2>1, <2>2, <2>3 DEF FeedInv
<1> QED BY <1>12, <1>13

\* The source is closed once the response is over.
Closed(f) == [f EXCEPT !.source = "closed"]

LEMMA ErrorKeeps ==
    ASSUME NEW f \in Feed, f.source = "open", f.got = Len(f.out)
    PROVE  /\ Closed(f) \in Feed /\ Closed(f).got <= Len(Closed(f).out)
           /\ FeedInv(f) => FeedInv(Closed(f))
           /\ Handled(Closed(f)) = Handled(f)
           /\ Closed(f).source = "closed"
           /\ Closed(f).sent = f.sent /\ Closed(f).body = f.body
<1>1. PICK g \in Feed : g = Closed(f)
    BY DEF Closed, Feed
<1>2. /\ g.source = "closed" /\ g.body = f.body /\ g.sent = f.sent /\ g.read = f.read
      /\ g.buffer = f.buffer /\ g.out = f.out /\ g.got = f.got
    BY <1>1 DEF Closed, Feed
<1>3. Heard(g) = Heard(f)
    BY <1>2 DEF Heard, Whole
<1>4. Handled(g) = Handled(f)
    BY <1>2, <1>3 DEF Handled
<1>5. FeedInv(f) => FeedInv(g)
    <2>1. BufferInv(f) => BufferInv(g)
        BY <1>2 DEF BufferInv
    <2>2. OutInv(f) => OutInv(g)
        BY <1>2, <1>3 DEF OutInv
    <2>3. DoneInv(f) => DoneInv(g)
        BY <1>2, <1>4 DEF DoneInv, IsDone
    <2> QED BY <2>1, <2>2, <2>3 DEF FeedInv
<1>6. g.got <= Len(g.out)
    <2>1. g.got \in Nat /\ g.got = Len(g.out)
        BY <1>2, FieldsOf
    <2> QED BY <2>1
<1> QED BY <1>1, <1>2, <1>4, <1>5, <1>6

\* A stream that has just been opened.
LEMMA SubscribedIs ==
    ASSUME NEW items \in Seq(Item)
    PROVE  /\ Subscribed(items) \in Feed
           /\ Subscribed(items).got <= Len(Subscribed(items).out)
           /\ Remote(Subscribed(items)) <=> mode # "local"
           /\ mode # "local" => FeedInv(Subscribed(items)) /\ Handled(Subscribed(items)) = {}
<1>1. PICK g : g = Subscribed(items)
    OBVIOUS
<1>2. << >> \in Seq(Item) /\ << >> \in Seq(Token) /\ Len(<< >>) = 0 /\ DOMAIN << >> = {}
    OBVIOUS
<1>3. Plan \in Seq(Item) /\ Len(Plan) = 5
    <2>1. Message("running", "none") \in Item /\ Message("over", "some") \in Item
        BY DEF Message, Item
    <2> QED BY <2>1 DEF Plan
<1>4. CASE mode = "local"
    <2>1. g = [source |-> "open", body |-> "timers", sent |-> << >>, read |-> 0,
               buffer |-> << >>, out |-> Plan, got |-> 0]
        BY <1>1, <1>4 DEF Subscribed, NoFeed
    <2>2. g \in Feed
        BY <1>2, <1>3, <2>1 DEF Feed, Token
    <2>3. g.got <= Len(g.out)
        BY <1>3, <2>1
    <2>4. ~Remote(g)
        BY <2>1 DEF Remote
    <2> QED BY <1>1, <1>4, <2>2, <2>3, <2>4
<1>5. CASE mode # "local"
    <2>1. g = [source |-> "open", body |-> "open", sent |-> items, read |-> 0,
               buffer |-> << >>, out |-> << >>, got |-> 0]
        BY <1>1, <1>5 DEF Subscribed, NoFeed
    <2>2. g \in Feed
        BY <1>2, <2>1 DEF Feed, Token
    <2>3. Heard(g) = {} /\ Cardinality(Heard(g)) = 0
        <3>1. Whole(g) = 0
            BY <2>1 DEF Whole
        <3>2. Loud(g.sent, 0) = {}
            BY DEF Loud
        <3> QED BY <3>1, <3>2, FS_EmptySet DEF Heard
    <2>4. Handled(g) = {}
        BY <2>3 DEF Handled, Leading
    <2>5. BufferInv(g)
        <3>1. SubSeq(Wire(items), 1, 0) = << >>
            BY SubSeqEmpty
        <3> QED BY <2>1, <3>1 DEF BufferInv
    <2>6. OutInv(g)
        BY <1>2, <2>1, <2>3 DEF OutInv
    <2>7. DoneInv(g)
        BY <2>1, <2>4 DEF DoneInv
    <2> QED BY <1>1, <1>2, <1>5, <2>1, <2>2, <2>4, <2>5, <2>6, <2>7 DEF FeedInv, Remote
<1> QED BY <1>4, <1>5

-----------------------------------------------------------------------------
(* StreamInv is inductive.                                                 *)

\* The events of the stream of t that the browser has handled.
HandledEvents(f) == Places(f.sent) \cap Handled(f)

\* A step of one stream after which as many events have been handled.
LEMMA QuietStep ==
    ASSUME StreamInv, NEW t \in Threads, feed[t].source = "open",
           NEW g \in Feed, feed' = [feed EXCEPT ![t] = g],
           g.got <= Len(g.out), Remote(g) <=> Remote(feed[t]),
           Remote(g) => FeedInv(g),
           g.sent = feed[t].sent,
           Remote(g) => HandledEvents(g) = HandledEvents(feed[t]),
           UNCHANGED <<mode, effect, shown>>
    PROVE  feed' \in [Threads -> Feed] /\ FeedsInv' /\ EffectInv' /\ ShownInv'
<1>1. feed \in [Threads -> Feed] /\ effect \in Threads \cup {None}
    BY DEF StreamInv, StreamTypeOK
<1>2. /\ feed' \in [Threads -> Feed] /\ feed'[t] = g
      /\ \A u \in Threads : u # t => feed'[u] = feed[u]
    BY <1>1
<1>3. t = effect
    BY DEF StreamInv, FeedsInv
<1>4. FeedsInv'
    <2>1. ASSUME NEW u \in Threads
          PROVE  /\ feed'[u].source = "open" => u = effect
                 /\ feed'[u].got <= Len(feed'[u].out)
                 /\ Remote(feed'[u]) => mode = "http" /\ FeedInv(feed'[u])
        <3>1. CASE u = t
            BY <1>2, <1>3, <3>1 DEF StreamInv, FeedsInv
        <3>2. CASE u # t
            BY <1>2, <3>2 DEF StreamInv, FeedsInv
        <3> QED BY <3>1, <3>2
    <2> QED BY <2>1 DEF FeedsInv
<1>5. EffectInv'
    BY <1>2, <1>3 DEF StreamInv, EffectInv
<1>6. ShownInv'
    <2>1. ASSUME mode = "http", effect # None
          PROVE  /\ Len(shown) = Cardinality(Places(g.sent) \cap Handled(g))
                 /\ \A k \in DOMAIN shown :
                        shown[k] = [thread |-> effect, event |-> g.sent[Nth(Places(g.sent), k)]]
        BY <1>3, <2>1 DEF StreamInv, EffectInv, ShownInv, HandledEvents
    <2> QED BY <1>2, <1>3, <2>1 DEF ShownInv
<1> QED BY <1>2, <1>4, <1>5, <1>6

\* What an open stream has, by StreamInv.
LEMMA OpenStream ==
    ASSUME StreamInv, NEW t \in Threads, feed[t].source = "open"
    PROVE  /\ feed[t] \in Feed /\ feed[t].got <= Len(feed[t].out) /\ t = effect
           /\ Remote(feed[t]) => mode = "http" /\ FeedInv(feed[t])
BY DEF StreamInv, StreamTypeOK, FeedsInv

LEMMA TransformStep ==
    ASSUME StreamInv, NEW t \in Threads, Transform(t)
    PROVE  StreamInv'
<1>1. feed[t].source = "open" /\ feed[t].body = "open"
    BY DEF Transform
<1>2. PICK f \in Feed : f = feed[t] /\ f.got <= Len(f.out) /\ FeedInv(f)
    BY <1>1, OpenStream DEF Remote
<1>3. PICK n \in f.read + 1 .. 4 * Len(f.sent) : feed' = [feed EXCEPT ![t] = Transformed(f, n)]
    BY <1>2 DEF Transform, Put, Transformed
<1>4. PICK g \in Feed :
          /\ g = Transformed(f, n) /\ FeedInv(g) /\ g.got <= Len(g.out)
          /\ Handled(g) = Handled(f) /\ g.sent = f.sent
    BY <1>1, <1>2, TransformKeeps
<1>5. g.body = "open"
    BY <1>1, <1>2, <1>4 DEF Transformed, Feed
<1>6. feed' \in [Threads -> Feed] /\ FeedsInv' /\ EffectInv' /\ ShownInv'
    BY <1>1, <1>2, <1>3, <1>4, <1>5, QuietStep DEF Transform, page, Remote, HandledEvents
<1> QED BY <1>6 DEF StreamInv, StreamTypeOK, Transform, page

LEMMA FinishStep ==
    ASSUME StreamInv, NEW t \in Threads, Finish(t)
    PROVE  StreamInv'
<1>1. feed[t].source = "open" /\ feed[t].body = "open"
    BY DEF Finish
<1>2. PICK f \in Feed : f = feed[t] /\ f.got <= Len(f.out) /\ FeedInv(f)
    BY <1>1, OpenStream DEF Remote
<1>3. feed' = [feed EXCEPT ![t] = Ended(f)]
    BY <1>2 DEF Finish, Put, Ended
<1>4. PICK g \in Feed :
          /\ g = Ended(f) /\ FeedInv(g) /\ g.got <= Len(g.out)
          /\ Handled(g) = Handled(f) /\ g.sent = f.sent
    BY <1>1, <1>2, FinishKeeps
<1>5. g.body = "closed"
    BY <1>4 DEF Ended, Feed
<1>6. feed' \in [Threads -> Feed] /\ FeedsInv' /\ EffectInv' /\ ShownInv'
    BY <1>1, <1>2, <1>3, <1>4, <1>5, QuietStep DEF Finish, page, Remote, HandledEvents
<1> QED BY <1>6 DEF StreamInv, StreamTypeOK, Finish, page

LEMMA BreakStep ==
    ASSUME StreamInv, NEW t \in Threads, Break(t)
    PROVE  StreamInv'
<1>1. feed[t].source = "open" /\ feed[t].body = "open"
    BY DEF Break
<1>2. PICK f \in Feed : f = feed[t] /\ f.got <= Len(f.out) /\ FeedInv(f)
    BY <1>1, OpenStream DEF Remote
<1>3. PICK n \in f.got .. Len(f.out) : feed' = [feed EXCEPT ![t] = Broken(f, n)]
    BY <1>2 DEF Break, Put, Broken
<1>4. PICK g \in Feed :
          /\ g = Broken(f, n) /\ FeedInv(g) /\ g.got <= Len(g.out)
          /\ Handled(g) = Handled(f) /\ g.sent = f.sent
    BY <1>1, <1>2, BreakKeeps
<1>5. g.body = "broken"
    BY <1>4 DEF Broken, Feed
<1>6. feed' \in [Threads -> Feed] /\ FeedsInv' /\ EffectInv' /\ ShownInv'
    BY <1>1, <1>2, <1>3, <1>4, <1>5, QuietStep DEF Break, page, Remote, HandledEvents
<1> QED BY <1>6 DEF StreamInv, StreamTypeOK, Break, page

LEMMA ErrorStep ==
    ASSUME StreamInv, NEW t \in Threads, Error(t)
    PROVE  StreamInv'
<1>1. feed[t].source = "open" /\ feed[t].got = Len(feed[t].out)
    BY DEF Error
<1>2. PICK f \in Feed : f = feed[t] /\ (Remote(f) => FeedInv(f))
    BY <1>1, OpenStream
<1>3. feed' = [feed EXCEPT ![t] = Closed(f)]
    BY <1>2 DEF Error, Put, Closed
<1>4. PICK g \in Feed :
          /\ g = Closed(f) /\ (FeedInv(f) => FeedInv(g)) /\ g.got <= Len(g.out)
          /\ Handled(g) = Handled(f) /\ g.sent = f.sent /\ g.body = f.body
    BY <1>1, <1>2, ErrorKeeps
<1>5. feed' \in [Threads -> Feed] /\ FeedsInv' /\ EffectInv' /\ ShownInv'
    BY <1>1, <1>2, <1>3, <1>4, QuietStep DEF Error, page, Remote, HandledEvents
<1> QED BY <1>5 DEF StreamInv, StreamTypeOK, Error, page, AfterError

LEMMA PageStep ==
    ASSUME StreamInv, Submit \/ Refuse \/ \E t \in Threads : Answer(t)
    PROVE  StreamInv'
<1>1. UNCHANGED <<mode, effect, shown, streaming, feed>>
    BY DEF Submit, Refuse, Answer
<1>2. FeedsInv' /\ EffectInv' /\ ShownInv'
    BY <1>1 DEF StreamInv, FeedsInv, EffectInv, ShownInv
<1>3. StreamTypeOK'
    <2>1. CASE Submit
        BY <2>1, StreamAssumption DEF StreamInv, StreamTypeOK, Submit
    <2>2. CASE Refuse
        BY <2>2 DEF StreamInv, StreamTypeOK, Refuse
    <2>3. ASSUME NEW t \in Threads, Answer(t)
          PROVE  StreamTypeOK'
        BY <2>3 DEF StreamInv, StreamTypeOK, Answer
    <2> QED BY <2>1, <2>2, <2>3
<1> QED BY <1>2, <1>3 DEF StreamInv

LEMMA EffectStep ==
    ASSUME StreamInv, Effects
    PROVE  StreamInv'
<1>1. PICK items \in Seq(Item) : Effect(items)
    <2>1. << >> \in Seq(Item)
        OBVIOUS
    <2> QED BY <2>1, StreamAssumption DEF Effects
<1>2. /\ thread # effect /\ effect' = thread /\ shown' = << >> /\ streaming' = TRUE
      /\ UNCHANGED <<mode, asked, form, thread, analysis>>
    BY <1>1 DEF Effect, NewTimeline
<1>3. PICK new \in Feed :
          /\ new = Subscribed(items) /\ new.got <= Len(new.out)
          /\ Remote(new) <=> mode # "local"
          /\ mode # "local" => FeedInv(new) /\ Handled(new) = {}
    BY SubscribedIs
<1>4. \A t \in Threads : feed'[t] = IF t = thread THEN new
                                    ELSE IF t = effect THEN Unsubscribed(t) ELSE feed[t]
    BY <1>1, <1>3 DEF Effect
<1>5. ASSUME NEW t
      PROVE  /\ Unsubscribed(t) \in Feed /\ Unsubscribed(t).source = "closed"
             /\ Unsubscribed(t).got <= Len(Unsubscribed(t).out)
             /\ ~Remote(Unsubscribed(t))
    <2>1. Unsubscribed(t) = [source |-> "closed", body |-> "none", sent |-> << >>, read |-> 0,
                             buffer |-> << >>, out |-> << >>, got |-> 0]
        BY DEF Unsubscribed, NoFeed
    <2> QED BY <2>1 DEF Feed, Remote
<1>6. feed' \in [Threads -> Feed]
    BY <1>1, <1>3, <1>5 DEF Effect, StreamInv, StreamTypeOK
<1>7. StreamTypeOK'
    BY <1>2, <1>6 DEF StreamInv, StreamTypeOK
<1>8. mode \in {"http", "local"}
    BY DEF StreamInv, StreamTypeOK
<1>9. FeedsInv'
    <2>1. ASSUME NEW t \in Threads
          PROVE  /\ feed'[t].source = "open" => t = thread
                 /\ feed'[t].got <= Len(feed'[t].out)
                 /\ Remote(feed'[t]) => mode = "http" /\ FeedInv(feed'[t])
        <3>1. CASE t = thread
            BY <1>3, <1>4, <1>8, <3>1
        <3>2. CASE t # thread /\ t = effect
            BY <1>4, <1>5, <3>2
        <3>3. CASE t # thread /\ t # effect
            BY <1>4, <3>3 DEF StreamInv, FeedsInv
        <3> QED BY <3>1, <3>2, <3>3
    <2> QED BY <1>2, <2>1 DEF FeedsInv
<1>10. thread \in Threads \cup {None}
    BY DEF StreamInv, StreamTypeOK
<1>11. EffectInv'
    BY <1>2, <1>3, <1>4, <1>10 DEF EffectInv
<1>12. ShownInv'
    <2>1. ASSUME mode = "http", thread # None
          PROVE  /\ Len(<< >>) = Cardinality(Places(new.sent) \cap Handled(new))
                 /\ feed'[thread] = new
        BY <1>3, <1>4, <1>10, <2>1, FS_EmptySet
    <2>2. DOMAIN << >> = {}
        OBVIOUS
    <2> QED BY <1>2, <2>1, <2>2 DEF ShownInv
<1> QED BY <1>7, <1>9, <1>11, <1>12 DEF StreamInv

LEMMA PlacesAre ==
    ASSUME NEW items \in Seq(Item)
    PROVE  /\ Len(items) \in Nat /\ Places(items) \in SUBSET (1 .. Len(items))
           /\ IsFiniteSet(Places(items)) /\ Cardinality(Places(items)) \in Nat
           /\ \A p \in Places(items) : p \in Nat /\ items[p].kind = "event"
<1>1. Len(items) \in Nat /\ Places(items) \in SUBSET (1 .. Len(items))
    BY DEF Places
<1>2. IsFiniteSet(Places(items)) /\ Cardinality(Places(items)) \in Nat
    BY <1>1, PlacesAreFinite
<1>3. \A p \in Places(items) : p \in Nat /\ items[p].kind = "event"
    BY DEF Places
<1> QED BY <1>1, <1>2, <1>3

\* When the next item that was heard is an event, it is the next one of them.
LEMMA NextEvent ==
    ASSUME NEW f \in Feed, f.read <= 4 * Len(f.sent), NEW g, NEW p \in Heard(f),
           NextHeard(f, g, p), g.sent = f.sent, f.sent[p].kind = "event"
    PROVE  LET done == Cardinality(HandledEvents(f))
           IN  /\ done \in Nat /\ Cardinality(HandledEvents(g)) = done + 1
               /\ Nth(Places(f.sent), done + 1) = p
<1>1. PICK items \in Seq(Item) : items = f.sent
    BY FieldsOf
<1>2. PICK E \in SUBSET (1 .. Len(items)) : E = Places(items)
    BY PlacesAre
<1>3. PICK w \in Nat : w = Whole(f) /\ w <= Len(items) /\ Heard(f) \in SUBSET (1 .. w)
    BY <1>1, HeardIs
<1>4. \A i \in Heard(f) : i \in DOMAIN items /\ i \in Nat
    BY <1>3
<1>5. p \in E
    BY <1>1, <1>2, <1>4 DEF Places
<1>6. E \cap Handled(g) = (E \cap Handled(f)) \cup {p} /\ p \notin E \cap Handled(f)
    BY <1>5 DEF NextHeard
<1>7. Upto(E, p) = E \cap Handled(g)
    <2>1. ASSUME NEW e \in E, e <= p
          PROVE  e = p \/ e \in Handled(f)
        <3>1. e \in Nat /\ e <= w /\ items[e].kind = "event" /\ p \in Nat
            BY <1>2, <1>3, <1>4, <2>1, PlacesAre
        <3>2. e \in Heard(f)
            <4>1. e \in 1 .. w
                BY <3>1, <1>2
            <4> QED BY <1>1, <1>3, <3>1, <4>1 DEF Heard, Loud
        <3>3. e = p \/ e < p
            BY <2>1, <3>1
        <3> QED BY <3>2, <3>3 DEF NextHeard
    <2>2. ASSUME NEW i \in Handled(f)
          PROVE  i <= p
        <3>1. i \in Heard(f) /\ i < p
            BY DEF NextHeard, Handled, Leading
        <3> QED BY <1>4, <3>1
    <2>3. p <= p
        BY <1>4
    <2> QED BY <1>5, <1>6, <2>1, <2>2, <2>3 DEF Upto
<1>8. IsFiniteSet(E) /\ Len(items) \in Nat
    BY <1>2, PlacesAre
<1>9. PICK S \in SUBSET E : S = E \cap Handled(f) /\ IsFiniteSet(S) /\ Cardinality(S) \in Nat
    <2>1. E \cap Handled(f) \in SUBSET E
        OBVIOUS
    <2>2. IsFiniteSet(E \cap Handled(f))
        BY <1>8, <2>1, FS_Subset
    <2> QED BY <2>1, <2>2, FS_CardinalityType
<1>10. Cardinality(S \cup {p}) = Cardinality(S) + 1
    BY <1>6, <1>9, FS_AddElement
<1>11. Nth(E, Cardinality(Upto(E, p))) = p
    BY <1>5, <1>8, NthIs
<1> QED BY <1>1, <1>2, <1>6, <1>7, <1>9, <1>10, <1>11 DEF HandledEvents

LEMMA DeliverStep ==
    ASSUME StreamInv, NEW t \in Threads, Deliver(t)
    PROVE  StreamInv'
<1>1. feed[t].source = "open" /\ feed[t].got < Len(feed[t].out)
    BY DEF Deliver
<1>2. PICK f \in Feed : f = feed[t] /\ t = effect /\ (Remote(f) => mode = "http" /\ FeedInv(f))
    BY <1>1, OpenStream
<1>3. PICK item \in Item, g \in Feed :
          /\ item = f.out[f.got + 1] /\ g = Delivered(f)
          /\ g.got <= Len(g.out) /\ g.sent = f.sent /\ g.body = f.body
          /\ g.source = IF item.kind = "done" THEN "closed" ELSE "open"
    <2>1. f.got + 1 <= Len(f.out)
        BY <1>1, <1>2, FieldsOf
    <2> QED BY <1>1, <1>2, <2>1, DeliveredIs
<1>4. feed' = [feed EXCEPT ![t] = g] /\ UNCHANGED <<mode, asked, form, thread, effect>>
    <2>1. PICK h : h = [f EXCEPT !.got = f.got + 1]
        OBVIOUS
    <2>2. h.got = f.got + 1 /\ h.out = f.out
        BY <2>1 DEF Feed
    <2>3. g = IF item.kind = "done" THEN [h EXCEPT !.source = "closed"] ELSE h
        BY <1>3, <2>1, <2>2 DEF Delivered
    <2>4. UNCHANGED <<mode, asked, form, thread, effect>>
        BY DEF Deliver, page
    <2>5. CASE item.kind = "event"
        <3>1. g = h
            BY <2>3, <2>5
        <3> QED BY <1>2, <1>3, <2>1, <2>2, <2>4, <2>5, <3>1 DEF Deliver, Put
    <2>6. CASE item.kind # "event"
        BY <1>2, <1>3, <2>1, <2>2, <2>3, <2>4, <2>6 DEF Deliver, Put
    <2> QED BY <2>5, <2>6
<1>5. Remote(g) <=> Remote(f)
    BY <1>3 DEF Remote
<1>6. Remote(f) =>
          /\ FeedInv(g)
          /\ \/ item.kind # "event" /\ Handled(g) = Handled(f)
             \/ \E p \in Heard(f) : NextHeard(f, g, p) /\ item = f.sent[p]
    BY <1>1, <1>2, <1>3, DeliverKeeps
<1>7. CASE item.kind # "event"
    <2>1. UNCHANGED <<shown, analysis, streaming>>
        BY <1>2, <1>3, <1>7 DEF Deliver, Feed
    <2>2. Remote(g) => HandledEvents(g) = HandledEvents(f)
        <3>1. ASSUME NEW p \in Heard(f), NextHeard(f, g, p), item = f.sent[p]
              PROVE  HandledEvents(g) = HandledEvents(f)
            BY <1>3, <1>7, <3>1 DEF NextHeard, HandledEvents, Places
        <3>2. Handled(g) = Handled(f) => HandledEvents(g) = HandledEvents(f)
            BY <1>3 DEF HandledEvents
        <3> QED BY <1>5, <1>6, <3>1, <3>2
    <2>3. feed' \in [Threads -> Feed] /\ FeedsInv' /\ EffectInv' /\ ShownInv'
        BY <1>1, <1>2, <1>3, <1>4, <1>5, <1>6, <2>1, <2>2, QuietStep
    <2> QED BY <1>4, <2>1, <2>3 DEF StreamInv, StreamTypeOK
<1>8. CASE item.kind = "event"
    <2>1. /\ shown' = Append(shown, [thread |-> t, event |-> item])
          /\ analysis' = Patched(t, item)
          /\ streaming' = (streaming /\ item.status # "over")
        BY <1>2, <1>3, <1>8 DEF Deliver, Feed
    <2>2. feed' \in [Threads -> Feed]
        BY <1>4 DEF StreamInv, StreamTypeOK
    <2>3. StreamTypeOK'
        <3>1. shown' \in Seq([thread : Threads, event : Item])
            BY <2>1 DEF StreamInv, StreamTypeOK
        <3>2. analysis' \in [from : Threads \cup {None}, status : {"none", "running", "over"},
                             artifacts : Threads \cup {None}]
            BY <2>1 DEF StreamInv, StreamTypeOK, Patched, Item
        <3>3. streaming' \in BOOLEAN
            BY <2>1
        <3> QED BY <1>4, <2>2, <3>1, <3>2, <3>3 DEF StreamInv, StreamTypeOK
    <2>4. /\ feed'[t] = g
          /\ \A u \in Threads : u # t => feed'[u] = feed[u]
        BY <1>4 DEF StreamInv, StreamTypeOK
    <2>5. FeedsInv'
        <3>1. ASSUME NEW u \in Threads
              PROVE  /\ feed'[u].source = "open" => u = effect
                     /\ feed'[u].got <= Len(feed'[u].out)
                     /\ Remote(feed'[u]) => mode = "http" /\ FeedInv(feed'[u])
            <4>1. CASE u = t
                BY <1>2, <1>3, <1>5, <1>6, <2>4, <4>1
            <4>2. CASE u # t
                BY <2>4, <4>2 DEF StreamInv, FeedsInv
            <4> QED BY <4>1, <4>2
        <3> QED BY <1>4, <3>1 DEF FeedsInv
    <2>6. EffectInv'
        BY <1>2, <1>4, <1>5, <2>4 DEF StreamInv, EffectInv
    <2>7. ShownInv'
        <3>1. ASSUME mode = "http", effect # None
              PROVE  /\ Len(shown') = Cardinality(Places(g.sent) \cap Handled(g))
                     /\ \A k \in DOMAIN shown' :
                            shown'[k] = [thread |-> t, event |-> g.sent[Nth(Places(g.sent), k)]]
            <4>1. Remote(f)
                BY <1>2, <3>1 DEF StreamInv, EffectInv
            <4>2. PICK p \in Heard(f) : NextHeard(f, g, p) /\ item = f.sent[p]
                BY <1>6, <1>8, <4>1
            <4>3. PICK n \in Nat :
                      /\ n = Cardinality(HandledEvents(f)) /\ Cardinality(HandledEvents(g)) = n + 1
                      /\ Nth(Places(f.sent), n + 1) = p
                <5>1. f.read <= 4 * Len(f.sent) /\ f.sent[p].kind = "event"
                    BY <1>2, <1>8, <4>1, <4>2 DEF FeedInv, OutInv
                <5>2. LET done == Cardinality(HandledEvents(f))
                      IN  /\ done \in Nat /\ Cardinality(HandledEvents(g)) = done + 1
                          /\ Nth(Places(f.sent), done + 1) = p
                    BY <1>3, <4>2, <5>1, NextEvent
                <5> QED BY <5>2
            <4>4. /\ shown \in Seq([thread : Threads, event : Item]) /\ Len(shown) = n
                  /\ \A k \in DOMAIN shown :
                         shown[k] = [thread |-> t, event |-> f.sent[Nth(Places(f.sent), k)]]
                BY <1>2, <3>1, <4>3 DEF StreamInv, StreamTypeOK, ShownInv, HandledEvents
            <4>5. /\ Len(shown') = n + 1 /\ DOMAIN shown' = 1 .. n + 1
                  /\ \A k \in 1 .. n : shown'[k] = shown[k] /\ k \in DOMAIN shown
                  /\ shown'[n + 1] = [thread |-> t, event |-> item]
                BY <2>1, <4>4
            <4>6. \A k \in 1 .. n + 1 : k \in 1 .. n \/ k = n + 1
                OBVIOUS
            <4> QED BY <1>3, <4>2, <4>3, <4>4, <4>5, <4>6 DEF HandledEvents
        <3> QED BY <1>2, <1>4, <2>4, <3>1 DEF ShownInv
    <2> QED BY <2>3, <2>5, <2>6, <2>7 DEF StreamInv
<1> QED BY <1>7, <1>8

LEMMA StreamInit_Inv ==
    ASSUME StreamInit
    PROVE  StreamInv
<1>1. /\ NoFeed \in Feed /\ NoFeed.got <= Len(NoFeed.out) /\ NoFeed.source = "none"
      /\ ~Remote(NoFeed)
    BY DEF NoFeed, Feed, Remote
<1>2. StreamTypeOK
    <2>1. asked \in 0 .. MaxQuestions
        BY StreamAssumption DEF StreamInit
    <2>2. shown \in Seq([thread : Threads, event : Item])
        BY DEF StreamInit
    <2>3. feed \in [Threads -> Feed]
        BY <1>1 DEF StreamInit
    <2>4. analysis \in [from : Threads \cup {None}, status : {"none", "running", "over"},
                        artifacts : Threads \cup {None}]
        BY DEF StreamInit, NoAnalysis
    <2> QED BY <2>1, <2>2, <2>3, <2>4 DEF StreamInit, StreamTypeOK
<1>3. FeedsInv
    BY <1>1 DEF StreamInit, FeedsInv
<1> QED BY <1>2, <1>3 DEF StreamInit, StreamInv, EffectInv, ShownInv

LEMMA StreamStep ==
    ASSUME StreamInv, [StreamNext]_streamVars
    PROVE  StreamInv'
<1>1. CASE Submit \/ Refuse
    BY <1>1, PageStep
<1>2. CASE Effects
    BY <1>2, EffectStep
<1>3. ASSUME NEW t \in Threads, Answer(t)
      PROVE  StreamInv'
    BY <1>3, PageStep
<1>4. ASSUME NEW t \in Threads, Transform(t) \/ Finish(t) \/ Break(t)
      PROVE  StreamInv'
    BY <1>4, TransformStep, FinishStep, BreakStep
<1>5. ASSUME NEW t \in Threads, Deliver(t) \/ Error(t)
      PROVE  StreamInv'
    BY <1>5, DeliverStep, ErrorStep
<1>6. CASE UNCHANGED streamVars
    BY <1>6 DEF streamVars, page, StreamInv, StreamTypeOK, FeedsInv, EffectInv, ShownInv
<1> QED BY <1>1, <1>2, <1>3, <1>4, <1>5, <1>6 DEF StreamNext

\* What has been read of a stream is forwarded, handled and shown in its order,
\* and only the stream of the effect is open, in every reachable state.
THEOREM StreamInvariance == StreamSpec => []StreamInv
<1>1. StreamInit => StreamInv
    BY StreamInit_Inv
<1>2. StreamInv /\ [StreamNext]_streamVars => StreamInv'
    BY StreamStep
<1> QED BY <1>1, <1>2, PTL DEF StreamSpec

\* The page and its streams keep their shape, whatever a backend may write.
THEOREM StreamTypeCorrect == StreamSpec => []StreamTypeOK
<1>1. StreamInv => StreamTypeOK
    BY DEF StreamInv
<1> QED BY <1>1, StreamInvariance, PTL

-----------------------------------------------------------------------------
(* What the user sees.                                                     *)

\* Nothing that was heard is left out before something that was handled.
LEMMA NoneLeftOut ==
    ASSUME NEW n \in Nat, NEW I \in SUBSET (1 .. n), NEW k \in Nat,
           NEW i \in Leading(I, k), NEW j \in I, j < i
    PROVE  j \in Leading(I, k)
<1>1. i \in I /\ Cardinality(Upto(I, i)) <= k
    BY DEF Leading
<1>2. j \in Nat
    OBVIOUS
<1>3. Cardinality(Upto(I, j)) < Cardinality(Upto(I, i))
    BY <1>1, <1>2, RankGrows
<1>4. Cardinality(Upto(I, j)) \in Nat /\ Cardinality(Upto(I, i)) \in Nat
    BY PlacesAreFinite
<1>5. Cardinality(Upto(I, j)) <= k
    BY <1>1, <1>3, <1>4
<1> QED BY <1>5 DEF Leading

LEMMA EventsAre ==
    ASSUME NEW items \in Seq(Item)
    PROVE  /\ Len(Events(items)) = Cardinality(Places(items))
           /\ DOMAIN Events(items) = 1 .. Cardinality(Places(items))
           /\ \A k \in 1 .. Cardinality(Places(items)) :
                  Events(items)[k] = items[Nth(Places(items), k)]
<1>1. PICK c \in Nat : c = Cardinality(Places(items))
    BY PlacesAre
<1>2. Events(items) = [k \in 1 .. c |-> items[Nth(Places(items), k)]]
    BY <1>1 DEF Events, Pick
<1> QED BY <1>1, <1>2

\* The place up to which Arrived takes them.
LastOf(items, n) ==
    LET dones == {i \in 1 .. n : items[i].kind = "done"}
    IN  IF dones = {} THEN n ELSE CHOOSE i \in dones : \A j \in dones : i <= j

\* When the browser has handled what it was sent, the events it has handled are
\* those that had arrived.
LEMMA ArrivedIs ==
    ASSUME NEW f \in Feed, FeedInv(f), f.body \in {"open", "closed"},
           f.source = "closed" \/ f.got = Len(f.out)
    PROVE  Arrived(f) \in Seq(Item) /\ Places(Arrived(f)) = HandledEvents(f)
<1>1. PICK items \in Seq(Item), got \in Nat : items = f.sent /\ got = f.got
    BY FieldsOf
<1>2. PICK n \in Nat : n = Whole(f) /\ n <= Len(items)
    BY <1>1, HeardIs DEF FeedInv, OutInv
<1>3. PICK I \in SUBSET (1 .. n) :
          /\ I = Heard(f) /\ Handled(f) = Leading(I, got) /\ Cardinality(I) \in Nat
          /\ \A i : i \in I <=> i \in 1 .. n /\ items[i].kind # "note"
    <2>1. Heard(f) = {i \in 1 .. n : items[i].kind # "note"}
        BY <1>1, <1>2 DEF Heard, Loud
    <2>2. Cardinality(Heard(f)) \in Nat
        BY HeardIs DEF FeedInv, OutInv
    <2> QED BY <1>1, <2>1, <2>2 DEF Handled
<1>4. Handled(f) \subseteq I
    BY <1>3 DEF Leading
<1> DEFINE dones == {i \in 1 .. n : items[i].kind = "done"}
<1>5. PICK last : /\ last = IF dones = {} THEN n ELSE CHOOSE i \in dones : \A j \in dones : i <= j
                  /\ Arrived(f) = SubSeq(items, 1, last)
    <2>1. Arrived(f) = SubSeq(f.sent, 1, LastOf(f.sent, Whole(f)))
        BY DEF Arrived, LastOf, Whole
    <2>2. Arrived(f) = SubSeq(items, 1, LastOf(items, n))
        BY <1>1, <1>2, <2>1
    <2>3. LastOf(items, n) = IF dones = {} THEN n ELSE CHOOSE i \in dones : \A j \in dones : i <= j
        BY DEF LastOf
    <2>4. WITNESS LastOf(items, n)
    <2> QED BY <2>2, <2>3
<1>6. \A i \in dones : i \in I /\ IsDone(f, i)
    BY <1>1, <1>3 DEF IsDone
<1>7. f.got = Len(f.out) => Handled(f) = I
    <2>1. Cardinality(I) <= Len(f.out)
        BY <1>3 DEF FeedInv, OutInv
    <2> QED BY <1>1, <1>3, <2>1, LeadingAll
<1>8. /\ last \in 0 .. n
      /\ \A i \in 1 .. n : items[i].kind = "event" => (i <= last <=> i \in Handled(f))
    <2>1. CASE /\ \A i \in Handled(f) : ~IsDone(f, i)
               /\ f.got = Len(f.out)
        <3>1. dones = {}
            BY <1>6, <1>7, <2>1
        <3>2. last = n
            BY <1>5, <3>1
        <3> QED BY <1>3, <1>7, <2>1, <3>2
    <2>2. CASE \E d \in Handled(f) :
                   IsDone(f, d) /\ \A i \in Handled(f) \ {d} : i < d /\ ~IsDone(f, i)
        <3>1. PICK d \in Handled(f) :
                  IsDone(f, d) /\ \A i \in Handled(f) \ {d} : i < d /\ ~IsDone(f, i)
            BY <2>2
        <3>2. d \in I /\ d \in dones /\ d \in 1 .. n /\ items[d].kind = "done"
            BY <1>1, <1>3, <1>4, <3>1 DEF IsDone
        <3>3. ASSUME NEW j \in I, j < d
              PROVE  j \in Handled(f)
            <4>1. d \in Leading(I, got)
                BY <1>3, <3>1
            <4>2. j \in Leading(I, got)
                BY <3>3, <4>1, NoneLeftOut
            <4> QED BY <1>3, <4>2
        <3>4. \A j \in dones : d <= j
            <4>1. ASSUME NEW j \in dones, j < d
                  PROVE  FALSE
                BY <1>6, <3>1, <3>3, <4>1
            <4> QED BY <3>2, <4>1
        <3>5. last = d
            <4>1. \A i \in dones : (\A j \in dones : i <= j) => i = d
                BY <3>2, <3>4
            <4> QED BY <1>5, <3>2, <3>4, <4>1
        <3>6. ASSUME NEW i \in 1 .. n, items[i].kind = "event"
              PROVE  i <= d <=> i \in Handled(f)
            <4>1. i \in I /\ i # d
                BY <1>3, <3>2, <3>6
            <4>2. i \in Handled(f) => i < d
                BY <3>1, <4>1
            <4>3. i <= d <=> i < d
                BY <3>2, <4>1
            <4> QED BY <3>3, <4>1, <4>2, <4>3
        <3> QED BY <3>2, <3>5, <3>6
    <2> QED BY <2>1, <2>2 DEF FeedInv, DoneInv
<1>9. PICK arrived \in Seq(Item) :
          /\ arrived = Arrived(f) /\ DOMAIN arrived = 1 .. last
          /\ \A i \in 1 .. last : arrived[i] = items[i]
    <2>1. \A i \in 1 .. last : items[i] \in Item
        BY <1>2, <1>8
    <2>2. /\ SubSeq(items, 1, last) \in Seq(Item)
          /\ Len(SubSeq(items, 1, last)) = IF 1 <= last THEN last - 1 + 1 ELSE 0
          /\ \A i \in 1 .. last - 1 + 1 : SubSeq(items, 1, last)[i] = items[1 + i - 1]
        BY <1>8, <2>1, SubSeqProperties
    <2>3. /\ (IF 1 <= last THEN last - 1 + 1 ELSE 0) = last
          /\ \A i \in 1 .. last : i \in 1 .. last - 1 + 1 /\ 1 + i - 1 = i
        BY <1>8
    <2>4. Len(SubSeq(items, 1, last)) = last
        BY <2>2, <2>3
    <2>5. \A i \in 1 .. last : SubSeq(items, 1, last)[i] = items[i]
        BY <2>2, <2>3
    <2>6. DOMAIN SubSeq(items, 1, last) = 1 .. last
        BY <2>2, <2>4
    <2>7. Arrived(f) = SubSeq(items, 1, last)
        BY <1>5
    <2> QED BY <2>2, <2>5, <2>6, <2>7
<1>10. Places(arrived) = Places(items) \cap Handled(f)
    <2>1. \A i : i \in Places(arrived) <=> i \in 1 .. last /\ items[i].kind = "event"
        BY <1>9 DEF Places
    <2>2. \A i : i \in Places(items) <=> i \in 1 .. Len(items) /\ items[i].kind = "event"
        BY DEF Places
    <2>3. \A i : i \in 1 .. last <=> i \in 1 .. n /\ i <= last
        BY <1>8
    <2>4. \A i : i \in 1 .. n => i \in 1 .. Len(items)
        BY <1>2
    <2>5. \A i \in Handled(f) : i \in 1 .. n
        BY <1>4
    <2> QED BY <1>8, <2>1, <2>2, <2>3, <2>4, <2>5
<1> QED BY <1>1, <1>9, <1>10 DEF HandledEvents

LEMMA TimelineFromInv ==
    ASSUME StreamInv
    PROVE  TimelineIsTrue
<1> SUFFICES ASSUME effect # None
             PROVE  LET f == feed[effect]
                        written == [i \in DOMAIN Events(f.sent) |->
                                       [thread |-> effect, event |-> Events(f.sent)[i]]]
                    IN  /\ mode = "http" => IsPrefix(shown, written)
                        /\ f.body \in {"open", "closed"}
                           /\ (f.source = "closed" \/ f.got = Len(f.out)) =>
                               Len(shown) = Len(Events(Arrived(f)))
    BY DEF TimelineIsTrue
<1>1. PICK f \in Feed : f = feed[effect] /\ (Remote(f) => mode = "http" /\ FeedInv(f))
    BY DEF StreamInv, StreamTypeOK, FeedsInv
<1>2. PICK items \in Seq(Item) : items = f.sent
    BY FieldsOf
<1>3. shown \in Seq([thread : Threads, event : Item]) /\ Len(shown) \in Nat /\ DOMAIN shown = 1 .. Len(shown)
    BY DEF StreamInv, StreamTypeOK
<1>4. mode = "http" =>
          /\ Len(shown) = Cardinality(Places(items) \cap Handled(f))
          /\ \A k \in DOMAIN shown :
                 shown[k] = [thread |-> effect, event |-> items[Nth(Places(items), k)]]
    BY <1>1, <1>2 DEF StreamInv, ShownInv
<1>5. PICK c \in Nat :
          /\ c = Cardinality(Places(items)) /\ DOMAIN Events(items) = 1 .. c
          /\ \A k \in 1 .. c : Events(items)[k] = items[Nth(Places(items), k)]
    BY PlacesAre, EventsAre
<1>6. ASSUME mode = "http"
      PROVE  IsPrefix(shown, [i \in DOMAIN Events(items) |->
                                 [thread |-> effect, event |-> Events(items)[i]]])
    <2>1. PICK written : written = [i \in 1 .. c |-> [thread |-> effect, event |-> Events(items)[i]]]
        OBVIOUS
    <2>2. PICK l \in Nat : l = Len(shown) /\ l <= c
        <3>1. Places(items) \cap Handled(f) \in SUBSET Places(items)
            OBVIOUS
        <3>2. Cardinality(Places(items) \cap Handled(f)) <= Cardinality(Places(items))
            BY <3>1, PlacesAre, FS_Subset
        <3> QED BY <1>3, <1>4, <1>5, <1>6, <3>2
    <2>3. Len(written) = c /\ \A k \in 1 .. l : written[k] = shown[k]
        <3>1. \A k \in 1 .. l : k \in 1 .. c /\ k \in DOMAIN shown
            BY <1>3, <2>2
        <3>2. Len(written) = c
            BY <2>1
        <3>3. ASSUME NEW k \in 1 .. l
              PROVE  written[k] = shown[k]
            <4>1. written[k] = [thread |-> effect, event |-> Events(items)[k]]
                BY <2>1, <3>1
            <4>2. Events(items)[k] = items[Nth(Places(items), k)]
                BY <1>5, <3>1
            <4>3. shown[k] = [thread |-> effect, event |-> items[Nth(Places(items), k)]]
                BY <1>4, <1>6, <3>1
            <4> QED BY <4>1, <4>2, <4>3
        <3> QED BY <3>2, <3>3
    <2>4. SubSeq(shown, 1, l) = SubSeq(written, 1, l)
        BY <2>3
    <2> QED BY <1>5, <2>1, <2>2, <2>3, <2>4 DEF IsPrefix
<1>7. ASSUME f.body \in {"open", "closed"}, f.source = "closed" \/ f.got = Len(f.out)
      PROVE  Len(shown) = Len(Events(Arrived(f)))
    <2>1. mode = "http" /\ FeedInv(f)
        BY <1>1, <1>7 DEF Remote
    <2>2. Arrived(f) \in Seq(Item) /\ Places(Arrived(f)) = HandledEvents(f)
        BY <1>7, <2>1, ArrivedIs
    <2>3. Len(Events(Arrived(f))) = Cardinality(Places(Arrived(f)))
        BY <2>2, EventsAre
    <2> QED BY <1>2, <1>4, <2>1, <2>2, <2>3 DEF HandledEvents
<1> QED BY <1>1, <1>2, <1>6, <1>7

\* However chunks are cut and streams end, the timeline of useAnalysisStream is
\* what the backend wrote for the thread of the effect, none twice and none left
\* out, and complete as soon as the browser has handled what it was sent.
THEOREM Timeline == StreamSpec => []TimelineIsTrue
BY StreamInvariance, TimelineFromInv, PTL

\* What the page says of an analysis changes with an answer, to the thread of
\* the page, or with an event of the one open stream, that of the effect.
LEMMA TellingStep ==
    ASSUME StreamInv, [StreamNext]_streamVars
    PROVE  analysis' # analysis /\ analysis'.from # thread' => effect # thread
<1>1. CASE Submit \/ Refuse
    BY <1>1 DEF Submit, Refuse
<1>2. CASE Effects
    BY <1>2 DEF Effects, Effect
<1>3. ASSUME NEW t \in Threads, Answer(t)
      PROVE  analysis'.from = thread'
    BY <1>3 DEF Answer
<1>4. ASSUME NEW t \in Threads, Transform(t) \/ Finish(t) \/ Break(t) \/ Error(t)
      PROVE  analysis' = analysis
    BY <1>4 DEF Transform, Finish, Break, Error
<1>5. ASSUME NEW t \in Threads, Deliver(t), analysis' # analysis
      PROVE  analysis'.from = effect /\ thread' = thread
    <2>1. t = effect
        BY <1>5, OpenStream DEF Deliver
    <2>2. thread' = thread
        BY <1>5 DEF Deliver, page
    <2>3. PICK item : analysis' = Patched(t, item)
        BY <1>5 DEF Deliver
    <2>4. analysis' = analysis \/ analysis'.from = t
        BY <2>3 DEF Patched
    <2> QED BY <1>5, <2>1, <2>2, <2>4
<1>6. CASE UNCHANGED streamVars
    BY <1>6 DEF streamVars
<1> QED BY <1>1, <1>2, <1>3, <1>4, <1>5, <1>6 DEF StreamNext

\* An event of another thread patches the analysis of the page only between the
\* answer that names the new thread and the effect that leaves the old stream.
THEOREM Telling == StreamSpec => ForeignOnlyWhileSwitching
<1>1. StreamInv /\ [StreamNext]_streamVars =>
          [analysis' # analysis /\ analysis'.from # thread' => effect # thread]_streamVars
    BY TellingStep
<1> QED BY <1>1, StreamInvariance, PTL DEF StreamSpec, ForeignOnlyWhileSwitching
================================================================================
