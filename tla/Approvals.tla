------------------------------ MODULE Approvals ------------------------------
(***************************************************************************)
(* ApprovalStore with the two services that make requests to it:           *)
(* MemoryStore (propose / approve / reject / archive) and ExportService    *)
(* (create_export).                                                        *)
(*                                                                         *)
(* A service method is a program: the sequence of the SQL statements and   *)
(* file operations it performs, each a transaction of its own.  Workers    *)
(* run their programs statement by statement, interleaved, and a process   *)
(* that dies leaves the rest of its program undone.                        *)
(*                                                                         *)
(* What a request says (its payload, redacted or edited), who made or      *)
(* decided it, and the content and risk flags of a memory are left out.    *)
(* The policy's decision and its audit row are PolicyEngine.tla; here an   *)
(* export needs an approval id and memory.propose is always allowed.       *)
(***************************************************************************)
EXTENDS Naturals, Sequences, SequencesExt

CONSTANTS
    Workers,      \* threads and processes
    Ids,          \* approval ids that new_id("appr") returns
    Strays,       \* approval ids that were never handed out
    Mems,         \* memory ids
    Exports       \* export ids

ASSUME StrayAssumption == Strays \cap Ids = {}

VARIABLES
    approval,   \* table approval_requests: the status of each request
    events,     \* table approval_events: the event types stored for each id
    memory,     \* table memory_records: status and approval_id of each record
    export,     \* what is stored of each export: file, artifact and row
    call,       \* call[w] : the statements worker w has still to perform
    disturbed   \* ids decided by hand, or by a worker that died at it (history)

vars == <<approval, events, memory, export, call, disturbed>>

\* models/approvals.py and models/memory.py.
Decision       == {"approve", "edit", "reject", "expire"}
ApprovalStatus == {"pending", "approved", "edited", "rejected", "expired"}
MemoryStatus   == {"pending", "active", "rejected", "archived"}

\* The status that resolve_approval_request stores for a decision.
StatusOf == [approve |-> "approved", edit |-> "edited",
             reject |-> "rejected", expire |-> "expired"]

\* A row that is not there.  An approval id is also what "approved by" is
\* left at in an export that nobody has made.
None     == "none"
ASSUME NoneAssumption == None \notin Ids \cup Strays

NoMemory == [status |-> None, approval |-> None]
NoExport == [file |-> FALSE, artifact |-> FALSE, row |-> FALSE, approval |-> None]

-----------------------------------------------------------------------------
(* Statements.                                                             *)

InsertRequest(id)     == [do |-> "insert request", id |-> id]
UpdateRequest(id, d)  == [do |-> "update request", id |-> id, decision |-> d]
InsertEvent(id, type) == [do |-> "insert event", id |-> id, type |-> type]
InsertMemory(m, id)   == [do |-> "insert memory", mem |-> m, id |-> id]
UpdateMemory(m, s)    == [do |-> "update memory", mem |-> m, status |-> s]
CopyFile(x)           == [do |-> "copy file", export |-> x]
RegisterExport(x)     == [do |-> "register export", export |-> x]
InsertExport(x, id)   == [do |-> "insert export", export |-> x, id |-> id]

Statement ==
         [do : {"insert request"}, id : Ids]
    \cup [do : {"update request"}, id : Ids \cup Strays, decision : Decision]
    \cup [do : {"insert event"}, id : Ids \cup Strays, type : Decision \cup {"created"}]
    \cup [do : {"insert memory"}, mem : Mems, id : Ids]
    \cup [do : {"update memory"}, mem : Mems, status : MemoryStatus]
    \cup [do : {"copy file", "register export"}, export : Exports]
    \cup [do : {"insert export"}, export : Exports, id : Ids]

Pending(w) == ToSet(call[w])

\* The requests that the statements of w are about.
Concerned(w) ==
    {s.id : s \in {t \in Pending(w) : "id" \in DOMAIN t}}
    \cup {memory[s.mem].approval : s \in {t \in Pending(w) : t.do = "update memory"}}

TypeOK ==
    /\ approval \in [Ids -> ApprovalStatus \cup {None}]
    /\ events \in [Ids \cup Strays -> SUBSET (Decision \cup {"created"})]
    /\ memory \in [Mems -> [status : MemoryStatus \cup {None}, approval : Ids \cup {None}]]
    /\ export \in [Exports -> [file : BOOLEAN, artifact : BOOLEAN, row : BOOLEAN,
                               approval : Ids \cup {None}]]
    /\ call \in [Workers -> Seq(Statement)]
    /\ disturbed \subseteq Ids \cup Strays \cup {None}

Init ==
    /\ approval = [id \in Ids |-> None]
    /\ events = [id \in Ids \cup Strays |-> {}]
    /\ memory = [m \in Mems |-> NoMemory]
    /\ export = [x \in Exports |-> NoExport]
    /\ call = [w \in Workers |-> <<>>]
    /\ disturbed = {}

\* An UPDATE whose WHERE clause finds no row changes nothing.
Execute(s) ==
    \/ /\ s.do = "insert request"
       /\ approval' = [approval EXCEPT ![s.id] = "pending"]
       /\ UNCHANGED <<events, memory, export>>
    \/ /\ s.do = "update request"
       /\ approval' = [id \in Ids |-> IF id = s.id /\ approval[id] # None
                                      THEN StatusOf[s.decision] ELSE approval[id]]
       /\ UNCHANGED <<events, memory, export>>
    \/ /\ s.do = "insert event"
       /\ events' = [events EXCEPT ![s.id] = @ \cup {s.type}]
       /\ UNCHANGED <<approval, memory, export>>
    \/ /\ s.do = "insert memory"
       /\ memory' = [memory EXCEPT ![s.mem] = [status |-> "pending", approval |-> s.id]]
       /\ UNCHANGED <<approval, events, export>>
    \/ /\ s.do = "update memory"
       /\ memory' = [memory EXCEPT ![s.mem].status = IF @ = None THEN None ELSE s.status]
       /\ UNCHANGED <<approval, events, export>>
    \/ /\ s.do = "copy file"
       /\ export' = [export EXCEPT ![s.export].file = TRUE]
       /\ UNCHANGED <<approval, events, memory>>
    \/ /\ s.do = "register export"
       /\ export' = [export EXCEPT ![s.export].artifact = TRUE]
       /\ UNCHANGED <<approval, events, memory>>
    \/ /\ s.do = "insert export"
       /\ export' = [export EXCEPT ![s.export].row = TRUE, ![s.export].approval = s.id]
       /\ UNCHANGED <<approval, events, memory>>

-----------------------------------------------------------------------------
(* Programs.                                                               *)

\* create_approval_request.
Request(id) == <<InsertRequest(id), InsertEvent(id, "created")>>

\* Mutant: the decision is stored without its event.
SilentResolution(id, d) == <<UpdateRequest(id, d)>>

\* resolve_approval_request.  The id is not looked up first, and neither is
\* the status: a request may be decided any number of times.
Resolution(id, d) == <<UpdateRequest(id, d), InsertEvent(id, d)>>

\* Mutant: the record is stored before its approval is requested.
ProposalFirst(m, id) == <<InsertMemory(m, id)>> \o Request(id)

\* propose_memory.
Proposal(m, id) == Request(id) \o <<InsertMemory(m, id)>>

\* Mutants: the record is marked before the approval is decided; it is not
\* marked at all.
MarkedFirst(m, d, s) ==
    <<UpdateMemory(m, s)>> \o Resolution(memory[m].approval, d)
NeverMarked(m, d, s) == Resolution(memory[m].approval, d)

\* approve_memory and reject_memory: the record names the request to decide.
MemoryDecision(m, d, s) ==
    Resolution(memory[m].approval, d) \o <<UpdateMemory(m, s)>>

\* Mutant: the row is inserted before the artifact it is about.
RowFirst(x, id) == <<CopyFile(x), InsertExport(x, id), RegisterExport(x)>>

\* create_export, once the policy lets it pass.
Export(x, id) == <<CopyFile(x), RegisterExport(x), InsertExport(x, id)>>

-----------------------------------------------------------------------------
(* Actions.                                                                *)

Idle(w) == call[w] = <<>>

\* A worker begins a program.
Prepare(w, program) ==
    /\ call' = [call EXCEPT ![w] = program]
    /\ UNCHANGED <<approval, events, memory, export>>

Begin(w, program) == Prepare(w, program) /\ UNCHANGED disturbed

\* uuid4 ids are new: not stored, and not about to be.
FreshId(id) ==
    /\ approval[id] = None
    /\ \A w \in Workers : InsertRequest(id) \notin Pending(w)

Propose(w, m, id) ==
    /\ Idle(w)
    /\ FreshId(id)
    /\ memory[m] = NoMemory
    /\ \A v \in Workers, i \in Ids : InsertMemory(m, i) \notin Pending(v)
    /\ Begin(w, Proposal(m, id))

\* Both methods get_memory first: an unknown record ends the call.
ApproveMemory(w, m) ==
    /\ Idle(w)
    /\ memory[m] # NoMemory
    /\ Begin(w, MemoryDecision(m, "approve", "active"))

RejectMemory(w, m) ==
    /\ Idle(w)
    /\ memory[m] # NoMemory
    /\ Begin(w, MemoryDecision(m, "reject", "rejected"))

\* archive_memory does not look at the record, nor at its request.
ArchiveMemory(w, m) ==
    /\ Idle(w)
    /\ Begin(w, <<UpdateMemory(m, "archived")>>)

\* approval_resolve of the API and the MCP server: any id a client names.
Resolve(w, id, d) ==
    /\ Idle(w)
    /\ Prepare(w, Resolution(id, d))
    /\ disturbed' = disturbed \cup {id}

\* create_export without an approval id: a request is stored for the caller
\* to come back with.
AskForExport(w, id) ==
    /\ Idle(w)
    /\ FreshId(id)
    /\ Begin(w, Request(id))

\* create_export with one.  Any id that is not empty passes the policy; the
\* id is not looked up.  The ids a caller can name are those it was told of.
CreateExport(w, x, id) ==
    /\ Idle(w)
    /\ export[x] = NoExport
    /\ \A v \in Workers : CopyFile(x) \notin Pending(v)
    /\ approval[id] # None
    /\ Begin(w, Export(x, id))

\* A worker performs the next statement of its program.
Step(w) ==
    /\ ~Idle(w)
    /\ Execute(Head(call[w]))
    /\ call' = [call EXCEPT ![w] = Tail(@)]
    /\ UNCHANGED disturbed

Crash(w) ==
    /\ ~Idle(w)
    /\ Prepare(w, <<>>)
    /\ disturbed' = disturbed \cup Concerned(w)

NextOf(w) ==
    \/ Step(w)
    \/ Crash(w)
    \/ \E m \in Mems :
         \/ ApproveMemory(w, m)
         \/ RejectMemory(w, m)
         \/ ArchiveMemory(w, m)
         \/ \E id \in Ids : Propose(w, m, id)
    \/ \E id \in Ids :
         \/ AskForExport(w, id)
         \/ \E x \in Exports : CreateExport(w, x, id)
    \/ \E id \in Ids \cup Strays, d \in Decision : Resolve(w, id, d)

Next == \E w \in Workers : NextOf(w)

Spec == Init /\ [][Next]_vars

\* A thread that has statements left is eventually scheduled, and SQLite's
\* writers wait for each other, so it eventually performs them.
FairSpec == Spec /\ \A w \in Workers : WF_vars(Step(w))

-----------------------------------------------------------------------------
(* Properties.                                                             *)

\* Knowledge becomes active only after a recorded decision to approve it:
\* approve_memory stores the decision and its event before it touches the
\* record (memory_store.py:98-101), so even a crash in between, or a
\* reviewer who rejects meanwhile, cannot activate an unapproved record.
ActiveMemoryWasApproved ==
    \A m \in Mems :
        memory[m].status = "active" => "approve" \in events[memory[m].approval]

\* What a row speaks of is there, whatever process died on the way: a record
\* names a request that is stored, with the event that says so, and can be
\* decided (memory_store.py:48-78, approval_store.py:29-51); an exports row
\* has its file and its artifact (export_service.py:63-90).
RowsAreBacked ==
    /\ \A m \in Mems :
           memory[m] # NoMemory => /\ approval[memory[m].approval] # None
                                   /\ "created" \in events[memory[m].approval]
    /\ \A x \in Exports : export[x].row => export[x].file /\ export[x].artifact

\* A request that was decided without the event of its decision: nobody is
\* about to insert it either.
Untold(id) ==
    \E d \in Decision :
        /\ approval[id] = StatusOf[d]
        /\ d \notin events[id]
        /\ \A w \in Workers : InsertEvent(id, d) \notin Pending(w)

\* However many workers decide a request at once, by hand or through the
\* memory store, the event of its decision is lost only with the process
\* that decided it (approval_store.py:80-95).
TrailLostInCrash ==
    [][\A id \in Ids : ~Untold(id) /\ Untold(id)' => \E w \in Workers : Crash(w)]_vars

Quiet == \A w \in Workers : Idle(w)

\* A record that only one kind of decision was ever taken on stands as its
\* request does once the workers are done, whatever else they did to it at
\* once.  It takes a decision by hand, past the memory store, or a process
\* that died at it, to part the two (memory_store.py:98-122).
QuietMemoryAgrees ==
    Quiet => \A m \in Mems :
        LET taken == events[memory[m].approval] \ {"created"}
        IN  memory[m] # NoMemory /\ memory[m].approval \notin disturbed =>
              /\ taken = {}          => memory[m].status \in {"pending", "archived"}
              /\ taken = {"approve"} => memory[m].status \in {"active", "archived"}
              /\ taken = {"reject"}  => memory[m].status \in {"rejected", "archived"}

\* An approval takes effect: once it is being recorded for the request of a
\* record, that record does not stay pending, but for a decision by hand or
\* a process that dies at it (memory_store.py:100-101).
ApprovalTakesEffect ==
    \A m \in Mems :
        (\E w \in Workers : InsertEvent(memory[m].approval, "approve") \in Pending(w))
            ~> memory[m].status # "pending" \/ memory[m].approval \in disturbed
=============================================================================
