--------------------------- MODULE ArtifactRegistry ---------------------------
(***************************************************************************)
(* ArtifactRegistry and ArtifactStore: a registration makes a directory,   *)
(* writes a file into it and then inserts the metadata in one transaction. *)
(* The file system and the database have no transaction in common, and the *)
(* worker may fail or die between any two of these steps.                  *)
(*                                                                         *)
(* new_id returns a uuid4.  Nothing here depends on its being new: the     *)
(* directory is made with exist_ok=False, and that decides who owns an id. *)
(*                                                                         *)
(* A content stands for the bytes and for their hash alike.  Types, tools, *)
(* previews' texts and permissions are left out; artifact.register is      *)
(* always allowed, and a request without content, run or tool stops before *)
(* the first step.                                                         *)
(***************************************************************************)
EXTENDS Naturals

CONSTANTS
    Workers,    \* threads and processes
    Ids,        \* artifact ids
    Contents,   \* contents
    Nothing,    \* no row, or no directory
    Made,       \* a directory without a file
    Torn,       \* a file whose writing was cut short
    Claims      \* claim ids of claim_evidence

ASSUME ContentAssumption ==
    /\ Nothing \notin Contents /\ Made \notin Contents /\ Torn \notin Contents
    /\ Nothing # Made /\ Nothing # Torn /\ Made # Torn

VARIABLES
    file,       \* file[id] : what is in the directory of id
    row,        \* table artifacts: the content_hash and parent_ids of id
    preview,    \* table artifact_previews: the ids that have one
    lineage,    \* table artifact_lineage: pairs of parent and child
    evidence,   \* table claim_evidence: pairs of claim and artifact
    call        \* call[w] : the method worker w is inside, and its locals

vars == <<file, row, preview, lineage, evidence, call>>
tables == <<row, preview, lineage, evidence>>

NoRow == [hash |-> Nothing, parents |-> {}]
Row   == [hash : Contents, parents : SUBSET Ids] \cup {NoRow}

Registered(id) == row[id].hash # Nothing

-----------------------------------------------------------------------------
(* The locals of a worker.                                                 *)

Idle == [op |-> "idle"]

Registering(at, id, c, ps) ==
    [op |-> "register", at |-> at, id |-> id, content |-> c, parents |-> ps]

Getting(at, id, r, p) == [op |-> "get", at |-> at, id |-> id, row |-> r, preview |-> p]

Validating(ids, todo, ok) == [op |-> "validate", ids |-> ids, todo |-> todo, ok |-> ok]

RegisterCall == [op : {"register"}, at : {"write", "insert"}, id : Ids,
                 content : Contents, parents : SUBSET Ids]
GetCall      == [op : {"get"}, at : {"row", "preview", "done"}, id : Ids,
                 row : Row, preview : BOOLEAN]
ValidateCall == [op : {"validate"}, ids : SUBSET Ids, todo : SUBSET Ids, ok : BOOLEAN]

TypeOK ==
    /\ file \in [Ids -> Contents \cup {Nothing, Made, Torn}]
    /\ row \in [Ids -> Row]
    /\ preview \in SUBSET Ids
    /\ lineage \in SUBSET (Ids \X Ids)
    /\ evidence \in SUBSET (Claims \X Ids)
    /\ call \in [Workers -> {Idle} \cup RegisterCall \cup GetCall \cup ValidateCall]

Init ==
    /\ file = [id \in Ids |-> Nothing]
    /\ row = [id \in Ids |-> NoRow]
    /\ preview = {}
    /\ lineage = {}
    /\ evidence = {}
    /\ call = [w \in Workers |-> Idle]

Goto(w, c) == call' = [call EXCEPT ![w] = c]

-----------------------------------------------------------------------------
(* register_artifact.                                                      *)

\* Mutant: mkdir with exist_ok=True, and no look at the file either.
Reusable(id) == TRUE

\* mkdir(exist_ok=False) succeeds for one worker only; for any other the
\* registration ends with FileExistsError.
Claimable(id) == file[id] = Nothing

\* The parent ids are the caller's: nothing looks them up.
MakeDirectory(w, id, c, ps) ==
    /\ call[w] = Idle
    /\ Claimable(id)
    /\ file' = [file EXCEPT ![id] = Made]
    /\ Goto(w, Registering("write", id, c, ps))
    /\ UNCHANGED tables

\* Mutant: an exception of the preview ends the registration.
PreviewIsFatal(c, broken) ==
    IF broken THEN Idle ELSE Registering("insert", c.id, c.content, c.parents)

\* Where a registration goes on after its file is written and its preview has
\* been computed, or has raised an exception: that is caught and noted.
AfterWrite(c, broken) == Registering("insert", c.id, c.content, c.parents)

WriteFile(w) ==
    LET c == call[w]
    IN  /\ c.op = "register" /\ c.at = "write"
        /\ file' = [file EXCEPT ![c.id] = c.content]
        /\ \E broken \in BOOLEAN : Goto(w, AfterWrite(c, broken))
        /\ UNCHANGED tables

\* Mutant: the edges are stored without the child.
LoneParents(c) == {<<p>> : p \in c.parents}

\* The lineage of a registration: one edge from every parent.
EdgesOf(c) == {<<p, c.id>> : p \in c.parents}

\* Mutant: the preview is left to a later call.
NoPreview(c) == {}

\* The ids that get a preview in the transaction of a registration.
PreviewOf(c) == {c.id}

\* The transaction: all rows or, when it fails, none.  A row in use would
\* violate the primary key.  The method ends with get_artifact.
InsertRows(w) ==
    LET c == call[w]
    IN  /\ c.op = "register" /\ c.at = "insert"
        /\ ~Registered(c.id)
        /\ row' = [row EXCEPT ![c.id] = [hash |-> c.content, parents |-> c.parents]]
        /\ preview' = preview \cup PreviewOf(c)
        /\ lineage' = lineage \cup EdgesOf(c)
        /\ Goto(w, Getting("row", c.id, NoRow, FALSE))
        /\ UNCHANGED <<file, evidence>>

\* The process dies, the disk is full, the database stays locked: the
\* method ends where it is, and a file being written is left torn.
Fail(w) ==
    /\ call[w] # Idle
    /\ file' = IF call[w].op = "register" /\ call[w].at = "write"
               THEN [file EXCEPT ![call[w].id] = Torn] ELSE file
    /\ Goto(w, Idle)
    /\ UNCHANGED tables

-----------------------------------------------------------------------------
(* Reading, and evidence.                                                  *)

BeginGet(w, id) ==
    /\ call[w] = Idle
    /\ Goto(w, Getting("row", id, NoRow, FALSE))
    /\ UNCHANGED <<file, tables>>

\* get_artifact reads the row; an unknown id ends it with NOT_FOUND.
GetRow(w) ==
    LET c == call[w]
    IN  /\ c.op = "get" /\ c.at = "row"
        /\ Goto(w, IF Registered(c.id) THEN Getting("preview", c.id, row[c.id], FALSE) ELSE Idle)
        /\ UNCHANGED <<file, tables>>

\* get_preview takes a missing row for an empty preview.
GetPreview(w) ==
    LET c == call[w]
    IN  /\ c.op = "get" /\ c.at = "preview"
        /\ Goto(w, Getting("done", c.id, c.row, c.id \in preview))
        /\ UNCHANGED <<file, tables>>

\* attach_evidence: one transaction, no look at the artifacts.
AttachEvidence(w, claim, ids) ==
    /\ call[w] = Idle
    /\ evidence' = evidence \cup ({claim} \X ids)
    /\ UNCHANGED <<file, row, preview, lineage, call>>

\* validate_evidence looks the artifacts of a claim up one by one.
BeginValidate(w, ids) ==
    /\ call[w] = Idle
    /\ Goto(w, Validating(ids, ids, TRUE))
    /\ UNCHANGED <<file, tables>>

\* all(...) over the rows found so far.
AllSoFar(ok, id) == ok /\ Registered(id)

ValidateOne(w) ==
    LET c == call[w]
    IN  /\ c.op = "validate"
        /\ \E id \in c.todo :
             Goto(w, Validating(c.ids, c.todo \ {id}, AllSoFar(c.ok, id)))
        /\ UNCHANGED <<file, tables>>

Return(w) ==
    /\ \/ call[w].op = "get" /\ call[w].at = "done"
       \/ call[w].op = "validate" /\ call[w].todo = {}
    /\ Goto(w, Idle)
    /\ UNCHANGED <<file, tables>>

NextOf(w) ==
    \/ WriteFile(w) \/ InsertRows(w) \/ Fail(w)
    \/ GetRow(w) \/ GetPreview(w) \/ ValidateOne(w) \/ Return(w)
    \/ \E id \in Ids :
         \/ BeginGet(w, id)
         \/ \E c \in Contents, ps \in SUBSET Ids : MakeDirectory(w, id, c, ps)
    \/ \E ids \in SUBSET Ids :
         \/ BeginValidate(w, ids)
         \/ \E claim \in Claims : AttachEvidence(w, claim, ids)

Next == \E w \in Workers : NextOf(w)

Spec == Init /\ [][Next]_vars

-----------------------------------------------------------------------------
(* Properties.                                                             *)

\* A registered artifact has its content, whole and with the hash that the
\* row states, whatever failed and whoever else tried the same id
\* (artifact_registry.py:44-97, artifact_store.py:18-26).
RowHasContent == \A id \in Ids : Registered(id) => file[id] = row[id].hash

\* The lineage table and the parent_ids of the rows tell the same story
\* (artifact_registry.py:79 and 90-97).
LineageMatchesRows ==
    \A p, id \in Ids : <<p, id>> \in lineage <=> p \in row[id].parents

\* get_artifact returns a record with its preview, although it reads two
\* tables one after the other (artifact_registry.py:100-123).
RecordsAreWhole ==
    \A w \in Workers : call[w].op = "get" /\ call[w].at = "done" => call[w].preview

\* validate_evidence vouches for artifacts that are registered and stored
\* (artifact_registry.py:185-189).
EvidenceIsStored ==
    \A w \in Workers :
        call[w].op = "validate" /\ call[w].todo = {} /\ call[w].ok =>
            \A id \in call[w].ids : Registered(id) /\ file[id] \in Contents

\* A directory without a row that no registration is going to give one.
Orphan(id) ==
    /\ file[id] # Nothing
    /\ ~Registered(id)
    /\ \A w \in Workers : ~(call[w].op = "register" /\ call[w].id = id)

\* What is written is registered unless its worker fails on the way: a
\* preview that raises, another worker's registration or anything else that
\* the code does never leaves a file without its row
\* (artifact_registry.py:46-97).
OrphansComeFromFailures ==
    [][\A id \in Ids : ~Orphan(id) /\ Orphan(id)' => \E w \in Workers : Fail(w)]_vars

\* The log that holders of artifact ids see: the content of a registered id.
Log == INSTANCE ArtifactLog
           WITH log <- [id \in Ids |-> IF Registered(id) THEN file[id] ELSE Nothing]

LogSpec == Log!Spec
=============================================================================
