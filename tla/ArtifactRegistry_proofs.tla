------------------------ MODULE ArtifactRegistry_proofs ------------------------
(***************************************************************************)
(* Proofs about ArtifactRegistry for any set of workers, ids, contents and *)
(* claims, and that it implements ArtifactLog.                             *)
(***************************************************************************)
EXTENDS ArtifactRegistry, TLAPS

\* Worker w is inside a registration of id.
Holds(w, id) == call[w].op = "register" /\ call[w].id = id

\* A registration owns its directory until it has inserted its rows: the
\* file is as the registration left it, and no row speaks of it yet.
Owns(w) ==
    call[w].op = "register" =>
        /\ ~Registered(call[w].id)
        /\ file[call[w].id] = IF call[w].at = "write" THEN Made ELSE call[w].content

\* What a reader has seen stays true.
Saw(w) ==
    /\ call[w].op = "get" /\ call[w].at # "row" => Registered(call[w].id)
    /\ call[w].op = "get" /\ call[w].at = "done" => call[w].preview
    /\ call[w].op = "validate" /\ call[w].ok =>
         \A id \in call[w].ids \ call[w].todo : Registered(id)

OneOwner ==
    \A v, w \in Workers, id \in Ids : Holds(v, id) /\ Holds(w, id) => v = w

PreviewInv == \A id \in Ids : Registered(id) => id \in preview

IInv ==
    /\ TypeOK
    /\ \A w \in Workers : Owns(w)
    /\ \A w \in Workers : Saw(w)
    /\ OneOwner
    /\ RowHasContent
    /\ PreviewInv
    /\ LineageMatchesRows

-----------------------------------------------------------------------------
(* Types.                                                                  *)

LEMMA CallType ==
    ASSUME TypeOK, NEW w \in Workers
    PROVE  /\ call[w].op = "register" => call[w] \in RegisterCall
           /\ call[w].op = "get" => call[w] \in GetCall
           /\ call[w].op = "validate" => call[w] \in ValidateCall
BY DEF TypeOK, Idle, RegisterCall, GetCall, ValidateCall

LEMMA Constructors ==
    /\ \A id \in Ids, c \in Contents, ps \in SUBSET Ids, at \in {"write", "insert"} :
          Registering(at, id, c, ps) \in RegisterCall
    /\ \A id \in Ids, r \in Row, p \in BOOLEAN, at \in {"row", "preview", "done"} :
          Getting(at, id, r, p) \in GetCall
    /\ \A ids, todo \in SUBSET Ids, ok \in BOOLEAN :
          Validating(ids, todo, ok) \in ValidateCall
    /\ NoRow \in Row
BY DEF Registering, Getting, Validating, RegisterCall, GetCall, ValidateCall, NoRow, Row

LEMMA TypeStep == TypeOK /\ [Next]_vars => TypeOK'
<1> SUFFICES ASSUME TypeOK, [Next]_vars PROVE TypeOK'
  OBVIOUS
<1> USE DEF TypeOK, Goto, tables
<1>1. ASSUME NEW w \in Workers, WriteFile(w) PROVE TypeOK'
  <2>1. call[w] \in RegisterCall
    BY <1>1, CallType DEF WriteFile
  <2>2. Registering("insert", call[w].id, call[w].content, call[w].parents) \in RegisterCall
    BY <2>1, Constructors DEF RegisterCall
  <2> QED
    BY <1>1, <2>1, <2>2 DEF WriteFile, AfterWrite, RegisterCall
<1>2. ASSUME NEW w \in Workers, InsertRows(w) PROVE TypeOK'
  <2>1. call[w] \in RegisterCall
    BY <1>2, CallType DEF InsertRows
  <2>2. call[w].id \in Ids /\ call[w].content \in Contents /\ call[w].parents \in SUBSET Ids
    BY <2>1 DEF RegisterCall
  <2>3. Getting("row", call[w].id, NoRow, FALSE) \in GetCall
    BY <2>2, Constructors
  <2>4. [hash |-> call[w].content, parents |-> call[w].parents] \in Row
    BY <2>2 DEF Row
  <2>5. EdgesOf(call[w]) \in SUBSET (Ids \X Ids) /\ PreviewOf(call[w]) \in SUBSET Ids
    BY <2>2 DEF EdgesOf, PreviewOf
  <2> QED
    BY <1>2, <2>2, <2>3, <2>4, <2>5 DEF InsertRows
<1>3. ASSUME NEW w \in Workers, Fail(w) PROVE TypeOK'
  BY <1>3 DEF Fail
<1>4. ASSUME NEW w \in Workers, GetRow(w) PROVE TypeOK'
  <2>1. call[w] \in GetCall /\ row[call[w].id] \in Row
    BY <1>4, CallType DEF GetRow, GetCall
  <2>2. Getting("preview", call[w].id, row[call[w].id], FALSE) \in GetCall
    BY <2>1, Constructors DEF GetCall
  <2> QED
    BY <1>4, <2>2 DEF GetRow
<1>5. ASSUME NEW w \in Workers, GetPreview(w) PROVE TypeOK'
  <2>1. call[w] \in GetCall
    BY <1>5, CallType DEF GetPreview
  <2>2. Getting("done", call[w].id, call[w].row, call[w].id \in preview) \in GetCall
    BY <2>1 DEF GetCall, Getting
  <2> QED
    BY <1>5, <2>2 DEF GetPreview
<1>6. ASSUME NEW w \in Workers, ValidateOne(w) PROVE TypeOK'
  <2>1. call[w] \in ValidateCall
    BY <1>6, CallType DEF ValidateOne
  <2>2. PICK id \in call[w].todo :
          call' = [call EXCEPT ![w] =
              Validating(call[w].ids, call[w].todo \ {id}, AllSoFar(call[w].ok, id))]
    BY <1>6 DEF ValidateOne
  <2>3. Validating(call[w].ids, call[w].todo \ {id}, AllSoFar(call[w].ok, id)) \in ValidateCall
    BY <2>1, Constructors DEF ValidateCall, AllSoFar, Registered
  <2> QED
    BY <1>6, <2>2, <2>3 DEF ValidateOne
<1>7. ASSUME NEW w \in Workers, Return(w) PROVE TypeOK'
  BY <1>7 DEF Return
<1>8. ASSUME NEW w \in Workers, NEW id \in Ids, BeginGet(w, id) PROVE TypeOK'
  BY <1>8, Constructors DEF BeginGet
<1>9. ASSUME NEW w \in Workers, NEW id \in Ids, NEW c \in Contents, NEW ps \in SUBSET Ids,
             MakeDirectory(w, id, c, ps)
      PROVE  TypeOK'
  BY <1>9, Constructors DEF MakeDirectory
<1>10. ASSUME NEW w \in Workers, NEW ids \in SUBSET Ids, BeginValidate(w, ids) PROVE TypeOK'
  BY <1>10, Constructors DEF BeginValidate
<1>11. ASSUME NEW w \in Workers, NEW ids \in SUBSET Ids, NEW claim \in Claims,
              AttachEvidence(w, claim, ids)
       PROVE  TypeOK'
  BY <1>11 DEF AttachEvidence
<1>12. CASE UNCHANGED vars
  BY <1>12 DEF vars
<1> HIDE DEF TypeOK, Goto, tables
<1>13. CASE Next
  BY <1>13, <1>1, <1>2, <1>3, <1>4, <1>5, <1>6, <1>7, <1>8, <1>9, <1>10, <1>11 DEF Next, NextOf
<1> QED
  BY <1>12, <1>13

\* The store, the tables and the workers' locals keep their shape.
THEOREM TypeCorrect == Spec => []TypeOK
<1>1. Init => TypeOK
  BY Constructors DEF Init, TypeOK
<1> QED
  BY <1>1, TypeStep, PTL DEF Spec

-----------------------------------------------------------------------------
(* The invariant.                                                          *)

LEMMA InitInv == Init => IInv
BY Constructors DEF Init, IInv, TypeOK, Owns, Saw, OneOwner, Holds, RowHasContent, PreviewInv,
   LineageMatchesRows, Registered, NoRow, Idle

\* The three kinds of steps that touch the store or the registry, and the
\* steps that touch neither.
LEMMA Effects ==
    ASSUME [Next]_vars
    PROVE  \/ UNCHANGED <<file, row, preview, lineage>>
           \/ \E w \in Workers, id \in Ids, c \in Contents, ps \in SUBSET Ids :
                MakeDirectory(w, id, c, ps)
           \/ \E w \in Workers : WriteFile(w)
           \/ \E w \in Workers : InsertRows(w)
           \/ \E w \in Workers : Fail(w)
BY DEF Next, NextOf, vars, tables, GetRow, GetPreview, ValidateOne, Return, BeginGet,
   BeginValidate, AttachEvidence

\* A step moves one worker at most.
LEMMA OneWorkerMoves ==
    ASSUME TypeOK, NEW w \in Workers, NextOf(w), NEW v \in Workers, v # w
    PROVE  call'[v] = call[v]
BY DEF TypeOK, NextOf, Goto, WriteFile, InsertRows, Fail, GetRow, GetPreview, ValidateOne, Return,
   BeginGet, MakeDirectory, BeginValidate, AttachEvidence

\* What a registration in progress says of its worker.
LEMMA HolderFacts ==
    ASSUME IInv, NEW w \in Workers, call[w].op = "register"
    PROVE  /\ call[w].id \in Ids /\ call[w].content \in Contents
           /\ call[w].parents \in SUBSET Ids
           /\ ~Registered(call[w].id)
           /\ file[call[w].id] = IF call[w].at = "write" THEN Made ELSE call[w].content
           /\ file[call[w].id] # Nothing
           /\ \A v \in Workers : call[v].op = "register" /\ v # w => call[v].id # call[w].id
<1>1. call[w] \in RegisterCall
  BY CallType DEF IInv
<1>2. Owns(w)
  BY DEF IInv
<1>3. call[w].id \in Ids /\ call[w].content \in Contents /\ call[w].parents \in SUBSET Ids
  BY <1>1 DEF RegisterCall
<1>4. \A v \in Workers : call[v].op = "register" /\ v # w => call[v].id # call[w].id
  BY <1>3 DEF IInv, OneOwner, Holds
<1> QED
  BY <1>2, <1>3, <1>4, ContentAssumption DEF Owns

\* Rows are inserted and never changed.
LEMMA RowsStay ==
    ASSUME IInv, [Next]_vars, NEW id \in Ids, Registered(id)
    PROVE  row'[id] = row[id] /\ Registered(id)' /\ file'[id] = file[id]
<1>1. CASE UNCHANGED <<file, row, preview, lineage>>
  BY <1>1 DEF Registered
<1>2. ASSUME NEW w \in Workers, NEW i \in Ids, NEW c \in Contents, NEW ps \in SUBSET Ids,
             MakeDirectory(w, i, c, ps)
      PROVE  row'[id] = row[id] /\ Registered(id)' /\ file'[id] = file[id]
  <2>1. file[id] # Nothing
    BY DEF IInv, RowHasContent, Registered
  <2>2. i # id
    BY <1>2, <2>1 DEF MakeDirectory, Claimable
  <2> QED
    BY <1>2, <2>2 DEF MakeDirectory, tables, Registered, IInv, TypeOK
<1>3. ASSUME NEW w \in Workers, WriteFile(w) \/ InsertRows(w) \/ Fail(w)
      PROVE  row'[id] = row[id] /\ Registered(id)' /\ file'[id] = file[id]
  <2>1. call[w].op = "register" => call[w].id # id
    BY HolderFacts
  <2> QED
    BY <1>3, <2>1 DEF WriteFile, InsertRows, Fail, tables, Registered, IInv, TypeOK
<1> QED
  BY <1>1, <1>2, <1>3, Effects

LEMMA RowStep ==
    ASSUME IInv, [Next]_vars
    PROVE  RowHasContent' /\ PreviewInv' /\ LineageMatchesRows'
<1>1. ASSUME NEW id \in Ids, row'[id] = row[id], id \in preview => id \in preview'
      PROVE  Registered(id)' => file'[id] = row'[id].hash /\ id \in preview'
  BY <1>1, RowsStay DEF IInv, RowHasContent, PreviewInv, Registered
<1>2. ASSUME NEW w \in Workers, InsertRows(w)
      PROVE  RowHasContent' /\ PreviewInv' /\ LineageMatchesRows'
  <2> DEFINE c == call[w]
  <2>1. /\ c.id \in Ids /\ c.content \in Contents /\ c.parents \in SUBSET Ids
        /\ file[c.id] = c.content /\ ~Registered(c.id)
    BY <1>2, HolderFacts DEF InsertRows
  <2>2. /\ row' = [row EXCEPT ![c.id] = [hash |-> c.content, parents |-> c.parents]]
        /\ file' = file /\ preview' = preview \cup {c.id}
        /\ lineage' = lineage \cup {<<p, c.id>> : p \in c.parents}
    BY <1>2 DEF InsertRows, PreviewOf, EdgesOf
  <2>3. row'[c.id] = [hash |-> c.content, parents |-> c.parents]
    BY <2>1, <2>2 DEF IInv, TypeOK
  <2>4. \A id \in Ids : id # c.id => row'[id] = row[id]
    BY <2>1, <2>2 DEF IInv, TypeOK
  <2>5. row[c.id] = NoRow
    BY <2>1, ContentAssumption DEF IInv, TypeOK, Registered, Row
  <2>6. RowHasContent' /\ PreviewInv'
    BY <2>1, <2>2, <2>3, <2>4, <1>1 DEF RowHasContent, PreviewInv, Registered
  <2>7. ASSUME NEW p \in Ids, NEW id \in Ids
        PROVE  <<p, id>> \in lineage' <=> p \in row'[id].parents
    <3>1. <<p, id>> \in lineage <=> p \in row[id].parents
      BY DEF IInv, LineageMatchesRows
    <3>2. <<p, id>> \in lineage' <=> <<p, id>> \in lineage \/ (id = c.id /\ p \in c.parents)
      BY <2>2
    <3>3. CASE id = c.id
      BY <3>1, <3>2, <3>3, <2>3, <2>5 DEF NoRow
    <3>4. CASE id # c.id
      BY <3>1, <3>2, <3>4, <2>4
    <3> QED
      BY <3>3, <3>4
  <2> QED
    BY <2>6, <2>7 DEF LineageMatchesRows
<1>3. CASE UNCHANGED <<row, preview, lineage>>
  BY <1>1, <1>3 DEF IInv, RowHasContent, PreviewInv, LineageMatchesRows
<1> QED
  BY <1>2, <1>3, Effects DEF MakeDirectory, WriteFile, Fail, tables

LEMMA OwnerStep ==
    ASSUME IInv, [Next]_vars
    PROVE  OneOwner' /\ \A v \in Workers : Owns(v)'
<1>1. CASE UNCHANGED vars
  BY <1>1 DEF vars, IInv, OneOwner, Holds, Owns, Registered
<1>2. ASSUME NEW w \in Workers, NextOf(w)
      PROVE  OneOwner' /\ \A v \in Workers : Owns(v)'
  <2>0. \A v \in Workers : v # w => call'[v] = call[v]
    BY <1>2, OneWorkerMoves DEF IInv
  <2>1. ASSUME NEW id \in Ids, NEW c \in Contents, NEW ps \in SUBSET Ids,
               MakeDirectory(w, id, c, ps)
        PROVE  OneOwner' /\ \A v \in Workers : Owns(v)'
    <3>1. /\ file[id] = Nothing /\ file' = [file EXCEPT ![id] = Made] /\ row' = row
          /\ call'[w] = Registering("write", id, c, ps)
      BY <2>1 DEF MakeDirectory, Claimable, Goto, tables, IInv, TypeOK
    <3>2. ~Registered(id)
      BY <3>1 DEF IInv, RowHasContent, Registered
    <3>3. \A v \in Workers : call[v].op = "register" => call[v].id # id
      BY <3>1, HolderFacts
    <3>4. OneOwner'
      BY <2>0, <3>1, <3>3 DEF IInv, OneOwner, Holds, Registering
    <3>5. Owns(w)'
      BY <3>1, <3>2 DEF Owns, Registering, Registered, IInv, TypeOK
    <3>6. ASSUME NEW v \in Workers, v # w PROVE Owns(v)'
      BY <2>0, <3>1, <3>3, <3>6, HolderFacts DEF Owns, Registered, IInv, TypeOK
    <3> QED
      BY <3>4, <3>5, <3>6
  <2>2. CASE WriteFile(w)
    <3>1. /\ call[w].op = "register" /\ call[w].id \in Ids
          /\ file' = [file EXCEPT ![call[w].id] = call[w].content] /\ row' = row
          /\ call'[w] = Registering("insert", call[w].id, call[w].content, call[w].parents)
      BY <2>2, HolderFacts DEF WriteFile, AfterWrite, Goto, tables, IInv, TypeOK
    <3>2. OneOwner'
      BY <2>0, <3>1 DEF IInv, OneOwner, Holds, Registering
    <3>3. Owns(w)'
      BY <3>1, HolderFacts DEF Owns, Registering, Registered, IInv, TypeOK
    <3>4. ASSUME NEW v \in Workers, v # w PROVE Owns(v)'
      BY <2>0, <3>1, <3>4, HolderFacts DEF Owns, Registered, IInv, TypeOK
    <3> QED
      BY <3>2, <3>3, <3>4
  <2>3. CASE InsertRows(w)
    <3>1. /\ call[w].op = "register" /\ call[w].id \in Ids /\ file' = file
          /\ row' = [row EXCEPT ![call[w].id] = [hash |-> call[w].content,
                                                 parents |-> call[w].parents]]
          /\ call'[w].op = "get"
      BY <2>3, HolderFacts DEF InsertRows, Goto, Getting, IInv, TypeOK
    <3>2. OneOwner'
      BY <2>0, <3>1 DEF IInv, OneOwner, Holds
    <3>3. ASSUME NEW v \in Workers PROVE Owns(v)'
      BY <2>0, <3>1, HolderFacts DEF Owns, Registered, IInv, TypeOK
    <3> QED
      BY <3>2, <3>3
  <2>4. CASE Fail(w)
    <3>1. /\ row' = row /\ call'[w].op = "idle"
          /\ \A id \in Ids : file'[id] # file[id] =>
                call[w].op = "register" /\ call[w].id = id
      BY <2>4, HolderFacts DEF Fail, Goto, tables, Idle, IInv, TypeOK
    <3>2. OneOwner'
      BY <2>0, <3>1 DEF IInv, OneOwner, Holds
    <3>3. ASSUME NEW v \in Workers PROVE Owns(v)'
      BY <2>0, <3>1, HolderFacts DEF Owns, Registered, IInv, TypeOK
    <3> QED
      BY <3>2, <3>3
  <2>5. ASSUME UNCHANGED <<file, row>>,
               call'[w].op = "register" => call'[w] = call[w]
        PROVE  OneOwner' /\ \A v \in Workers : Owns(v)'
    BY <2>0, <2>5 DEF IInv, OneOwner, Holds, Owns, Registered
  <2>6. CASE GetRow(w) \/ GetPreview(w) \/ ValidateOne(w) \/ Return(w)
    <3>1. UNCHANGED <<file, row>> /\ call'[w].op # "register"
      BY <2>6 DEF GetRow, GetPreview, ValidateOne, Return, Goto, Getting, Validating, Idle,
         tables, IInv, TypeOK
    <3> QED
      BY <3>1, <2>5
  <2>7. ASSUME NEW ids \in SUBSET Ids, NEW id \in Ids,
               \/ BeginGet(w, id) \/ BeginValidate(w, ids)
               \/ \E claim \in Claims : AttachEvidence(w, claim, ids)
        PROVE  OneOwner' /\ \A v \in Workers : Owns(v)'
    <3>1. UNCHANGED <<file, row>> /\ (call'[w].op # "register" \/ call'[w] = call[w])
      BY <2>7 DEF BeginGet, BeginValidate, AttachEvidence, Goto, Getting, Validating,
         tables, IInv, TypeOK
    <3> QED
      BY <3>1, <2>5
  <2>8. ASSUME NEW ids \in SUBSET Ids,
               \/ BeginValidate(w, ids)
               \/ \E claim \in Claims : AttachEvidence(w, claim, ids)
        PROVE  OneOwner' /\ \A v \in Workers : Owns(v)'
    <3>1. UNCHANGED <<file, row>> /\ (call'[w].op # "register" \/ call'[w] = call[w])
      BY <2>8 DEF BeginValidate, AttachEvidence, Goto, Validating, tables, IInv, TypeOK
    <3> QED
      BY <3>1, <2>5
  <2> QED
    BY <1>2, <2>1, <2>2, <2>3, <2>4, <2>6, <2>7, <2>8 DEF NextOf
<1> QED
  BY <1>1, <1>2 DEF Next

LEMMA SawStep ==
    ASSUME IInv, [Next]_vars, NEW v \in Workers
    PROVE  Saw(v)'
<1>1. \A id \in Ids : Registered(id) => Registered(id)'
  BY RowsStay
<1>2. CASE call'[v] = call[v]
  <2>1. /\ call[v].op = "get" => call[v].id \in Ids
        /\ call[v].op = "validate" => call[v].ids \in SUBSET Ids
    BY CallType DEF IInv, GetCall, ValidateCall
  <2> QED
    BY <1>1, <1>2, <2>1 DEF IInv, Saw
<1>3. ASSUME call'[v] # call[v]
      PROVE  NextOf(v)
  BY <1>3, OneWorkerMoves DEF IInv, Next, vars
<1>4. CASE call'[v].op \notin {"get", "validate"}
  BY <1>4 DEF Saw
<1>5. ASSUME NEW id, call'[v] = Getting("row", id, NoRow, FALSE)
      PROVE  Saw(v)'
  BY <1>5 DEF Saw, Getting
<1>6. CASE InsertRows(v)
  BY <1>5, <1>6 DEF InsertRows, Goto, IInv, TypeOK
<1>7. CASE GetRow(v)
  <2>1. call[v] \in GetCall /\ call[v].id \in Ids
    BY <1>7, CallType DEF GetRow, IInv, GetCall
  <2>2. CASE Registered(call[v].id)
    <3>1. call'[v] = Getting("preview", call[v].id, row[call[v].id], FALSE)
      BY <1>7, <2>2 DEF GetRow, Goto, IInv, TypeOK
    <3> QED
      BY <1>1, <2>1, <2>2, <3>1 DEF Saw, Getting
  <2>3. CASE ~Registered(call[v].id)
    BY <1>4, <1>7, <2>3 DEF GetRow, Goto, Idle, IInv, TypeOK
  <2> QED
    BY <2>2, <2>3
<1>8. CASE GetPreview(v)
  <2>1. call[v] \in GetCall /\ call[v].id \in Ids
    BY <1>8, CallType DEF GetPreview, IInv, GetCall
  <2>2. Registered(call[v].id) /\ call[v].id \in preview
    BY <1>8, <2>1 DEF GetPreview, IInv, Saw, PreviewInv
  <2>3. call'[v] = Getting("done", call[v].id, call[v].row, TRUE)
    BY <1>8, <2>2 DEF GetPreview, Goto, Getting, IInv, TypeOK
  <2> QED
    BY <1>1, <2>1, <2>2, <2>3 DEF Saw, Getting
<1>9. CASE ValidateOne(v)
  <2>1. call[v] \in ValidateCall /\ call[v].ids \in SUBSET Ids /\ call[v].todo \in SUBSET Ids
    BY <1>9, CallType DEF ValidateOne, IInv, ValidateCall
  <2>2. PICK id \in call[v].todo :
          call'[v] = Validating(call[v].ids, call[v].todo \ {id}, AllSoFar(call[v].ok, id))
    BY <1>9 DEF ValidateOne, Goto, IInv, TypeOK
  <2>3. ASSUME AllSoFar(call[v].ok, id), NEW i \in call[v].ids \ (call[v].todo \ {id})
        PROVE  Registered(i)
    BY <1>9, <2>1, <2>3 DEF ValidateOne, AllSoFar, IInv, Saw
  <2>4. /\ call'[v].op = "validate" /\ call'[v].ids = call[v].ids
        /\ call'[v].todo = call[v].todo \ {id} /\ call'[v].ok = AllSoFar(call[v].ok, id)
    BY <2>2 DEF Validating
  <2> QED
    BY <1>1, <2>1, <2>3, <2>4 DEF Saw
<1>10. ASSUME NEW ids \in SUBSET Ids, BeginValidate(v, ids)
       PROVE  Saw(v)'
  BY <1>10 DEF BeginValidate, Goto, Validating, Saw, IInv, TypeOK
<1>11. ASSUME NEW id \in Ids, BeginGet(v, id)
       PROVE  Saw(v)'
  BY <1>5, <1>11 DEF BeginGet, Goto, IInv, TypeOK
<1>12. CASE WriteFile(v) \/ Fail(v) \/ Return(v)
  BY <1>4, <1>12 DEF WriteFile, AfterWrite, Fail, Return, Goto, Registering, Idle, IInv, TypeOK
<1>13. ASSUME NEW id \in Ids, NEW c \in Contents, NEW ps \in SUBSET Ids,
              MakeDirectory(v, id, c, ps)
       PROVE  Saw(v)'
  BY <1>4, <1>13 DEF MakeDirectory, Goto, Registering, IInv, TypeOK
<1>14. ASSUME NEW ids \in SUBSET Ids, NEW claim \in Claims, AttachEvidence(v, claim, ids)
       PROVE  Saw(v)'
  BY <1>2, <1>14 DEF AttachEvidence
<1> QED
  BY <1>2, <1>3, <1>6, <1>7, <1>8, <1>9, <1>10, <1>11, <1>12, <1>13, <1>14 DEF NextOf

LEMMA InvStep == IInv /\ [Next]_vars => IInv'
<1> SUFFICES ASSUME IInv, [Next]_vars PROVE IInv'
  OBVIOUS
<1>1. TypeOK'
  BY TypeStep DEF IInv
<1> QED
  BY <1>1, RowStep, OwnerStep, SawStep DEF IInv

\* What workers in the middle of a method can rely on, in every state.
THEOREM Invariance == Spec => []IInv
BY InitInv, InvStep, PTL DEF Spec

-----------------------------------------------------------------------------
(* The properties.                                                         *)

\* A registered artifact has its content, with the hash its row states.
THEOREM ContentIntegrity == Spec => []RowHasContent
<1>1. IInv => RowHasContent
  BY DEF IInv
<1> QED
  BY <1>1, Invariance, PTL

\* The lineage table and the rows' parent ids agree.
THEOREM LineageIntegrity == Spec => []LineageMatchesRows
<1>1. IInv => LineageMatchesRows
  BY DEF IInv
<1> QED
  BY <1>1, Invariance, PTL

\* A record is returned with its preview.
THEOREM WholeRecords == Spec => []RecordsAreWhole
<1>1. IInv => RecordsAreWhole
  BY DEF IInv, Saw, RecordsAreWhole
<1> QED
  BY <1>1, Invariance, PTL

\* Evidence that validate_evidence accepts is registered and stored.
THEOREM SoundEvidence == Spec => []EvidenceIsStored
<1>1. ASSUME IInv
      PROVE  EvidenceIsStored
  <2> SUFFICES ASSUME NEW w \in Workers, call[w].op = "validate", call[w].todo = {}, call[w].ok,
                      NEW id \in call[w].ids
               PROVE  Registered(id) /\ file[id] \in Contents
    BY DEF EvidenceIsStored
  <2>1. id \in Ids
    BY <1>1, CallType DEF IInv, ValidateCall
  <2>2. Registered(id)
    BY <1>1 DEF IInv, Saw
  <2>3. row[id] \in Row /\ file[id] = row[id].hash
    BY <1>1, <2>1, <2>2 DEF IInv, TypeOK, RowHasContent
  <2> QED
    BY <2>2, <2>3 DEF Row, NoRow, Registered
<1> QED
  BY <1>1, Invariance, PTL

\* The registry and the store implement the append-only log: registrations
\* take effect at once, and nothing a holder of an id can see ever changes.
THEOREM Refinement == Spec => LogSpec
<1> DEFINE seen == [id \in Ids |-> IF Registered(id) THEN file[id] ELSE Nothing]
<1>1. Init => Log!Init
  BY DEF Init, Log!Init, Registered, NoRow
<1>2. ASSUME IInv, [Next]_vars
      PROVE  [Log!Next]_seen
  <2>1. \A id \in Ids : Registered(id) => Registered(id)' /\ file'[id] = file[id]
    BY <1>2, RowsStay
  <2>2. CASE UNCHANGED row
    <3>1. \A id \in Ids : Registered(id)' <=> Registered(id)
      BY <2>2 DEF Registered
    <3>2. \A id \in Ids : (IF Registered(id)' THEN file'[id] ELSE Nothing)
                          = IF Registered(id) THEN file[id] ELSE Nothing
      BY <2>1, <3>1
    <3>3. seen' = seen
      BY <3>2
    <3> QED
      BY <3>3
  <2>3. ASSUME NEW w \in Workers, InsertRows(w)
        PROVE  Log!Next
    <3> DEFINE i == call[w].id
               c == call[w].content
    <3>1. i \in Ids /\ c \in Contents /\ ~Registered(i) /\ file[i] = c
      BY <1>2, <2>3, HolderFacts DEF InsertRows
    <3>2. /\ row' = [row EXCEPT ![i] = [hash |-> c, parents |-> call[w].parents]]
          /\ file' = file
      BY <2>3 DEF InsertRows
    <3>3. \A id \in Ids : row'[id] = IF id = i THEN [hash |-> c, parents |-> call[w].parents]
                                              ELSE row[id]
      BY <1>2, <3>2 DEF IInv, TypeOK
    <3>4. c # Nothing
      BY <3>1, ContentAssumption
    <3>5. \A id \in Ids : Registered(id)' <=> id = i \/ Registered(id)
      BY <3>3, <3>4 DEF Registered
    <3>6. seen[i] = Nothing
      BY <3>1
    <3>7. seen' = [seen EXCEPT ![i] = c]
      <4>1. \A id \in Ids : (IF Registered(id)' THEN file'[id] ELSE Nothing)
                            = IF id = i THEN c
                              ELSE IF Registered(id) THEN file[id] ELSE Nothing
        BY <3>1, <3>2, <3>5
      <4> QED
        BY <3>1, <4>1
    <3> QED
      BY <3>1, <3>6, <3>7 DEF Log!Next, Log!Append
  <2> QED
    BY <1>2, <2>2, <2>3, Effects DEF MakeDirectory, WriteFile, Fail, tables
<1> QED
  BY <1>1, <1>2, Invariance, PTL DEF Spec, LogSpec, Log!Spec


-----------------------------------------------------------------------------
(* Orphans.                                                                *)

\* A worker that steps outside register_artifact makes no orphan: it owns no
\* directory, before or after.
LEMMA OrphanApart ==
    ASSUME NEW w \in Workers, NEW id \in Ids, UNCHANGED <<file, row>>,
           \A u \in Workers : u # w => call'[u] = call[u],
           call[w].op # "register", Orphan(id)'
    PROVE  Orphan(id)
BY DEF Orphan, Registered

\* Every other step than a failure leaves the ids with content to a row or to
\* a registration.
LEMMA OrphanStep ==
    ASSUME TypeOK, NEW w \in Workers, NextOf(w), ~Fail(w), NEW id \in Ids, Orphan(id)'
    PROVE  Orphan(id)
<1>1. Idle.op # "register"
  BY DEF Idle
<1>2. ASSUME NEW c, call' = [call EXCEPT ![w] = c]
      PROVE  call'[w] = c /\ \A u \in Workers : u # w => call'[u] = call[u]
  BY <1>2 DEF TypeOK
<1>3. ASSUME NEW d \in Ids, NEW c \in Contents, NEW ps \in SUBSET Ids, MakeDirectory(w, d, c, ps)
      PROVE  Orphan(id)
  <2>1. PICK r : r = Registering("write", d, c, ps)
    OBVIOUS
  <2>2. /\ call[w] = Idle /\ file' = [file EXCEPT ![d] = Made] /\ row' = row
        /\ call'[w] = r /\ \A u \in Workers : u # w => call'[u] = call[u]
    BY <1>2, <1>3, <2>1 DEF MakeDirectory, Goto, tables
  <2>3. r.op = "register" /\ r.id = d
    BY <2>1 DEF Registering
  <2>4. id # d
    BY <2>2, <2>3 DEF Orphan
  <2>5. file'[id] = file[id]
    BY <2>2, <2>4 DEF TypeOK
  <2> QED
    BY <1>1, <2>2, <2>5 DEF Orphan, Registered
<1>4. CASE WriteFile(w)
  <2>1. PICK c : c = call[w]
    OBVIOUS
  <2>2. PICK r : r = Registering("insert", c.id, c.content, c.parents)
    OBVIOUS
  <2>3. /\ c.op = "register" /\ file' = [file EXCEPT ![c.id] = c.content] /\ row' = row
        /\ call'[w] = r /\ \A u \in Workers : u # w => call'[u] = call[u]
    BY <1>2, <1>4, <2>1, <2>2 DEF WriteFile, AfterWrite, Goto, tables
  <2>4. r.op = "register" /\ r.id = c.id
    BY <2>2 DEF Registering
  <2>5. id # c.id
    BY <2>3, <2>4 DEF Orphan
  <2>6. file'[id] = file[id]
    BY <2>3, <2>5 DEF TypeOK
  <2> QED
    BY <2>1, <2>3, <2>5, <2>6 DEF Orphan, Registered
<1>5. CASE InsertRows(w)
  <2>1. call[w] \in RegisterCall /\ call[w].op = "register"
    BY <1>5, CallType DEF InsertRows
  <2>2. PICK c : c = call[w]
    OBVIOUS
  <2>3. c.id \in Ids /\ c.content \in Contents
    BY <2>1, <2>2 DEF RegisterCall
  <2>4. /\ row' = [row EXCEPT ![c.id] = [hash |-> c.content, parents |-> c.parents]]
        /\ file' = file /\ \A u \in Workers : u # w => call'[u] = call[u]
    BY <1>2, <1>5, <2>2 DEF InsertRows, Goto
  <2>5. row'[c.id].hash = c.content /\ c.content # Nothing
    BY <2>3, <2>4, ContentAssumption DEF TypeOK
  <2>6. id # c.id
    BY <2>5 DEF Orphan, Registered
  <2>7. row'[id] = row[id]
    BY <2>4, <2>6 DEF TypeOK
  <2> QED
    BY <2>2, <2>4, <2>6, <2>7 DEF Orphan, Registered
<1>6. CASE GetRow(w)
  BY <1>2, <1>6, OrphanApart DEF GetRow, Goto, tables
<1>7. CASE GetPreview(w)
  BY <1>2, <1>7, OrphanApart DEF GetPreview, Goto, tables
<1>8. CASE ValidateOne(w)
  BY <1>2, <1>8, OrphanApart DEF ValidateOne, Goto, tables
<1>9. CASE Return(w)
  BY <1>2, <1>9, OrphanApart DEF Return, Goto, tables
<1>10. ASSUME NEW d \in Ids, BeginGet(w, d) PROVE Orphan(id)
  BY <1>1, <1>2, <1>10, OrphanApart DEF BeginGet, Goto, tables
<1>11. ASSUME NEW ids \in SUBSET Ids, BeginValidate(w, ids) PROVE Orphan(id)
  BY <1>1, <1>2, <1>11, OrphanApart DEF BeginValidate, Goto, tables
<1>12. ASSUME NEW ids \in SUBSET Ids, NEW claim \in Claims, AttachEvidence(w, claim, ids)
       PROVE  Orphan(id)
  BY <1>1, <1>12, OrphanApart DEF AttachEvidence
<1> QED
  BY <1>3, <1>4, <1>5, <1>6, <1>7, <1>8, <1>9, <1>10, <1>11, <1>12 DEF NextOf

\* A file without a row comes from a registration that failed on the way, and
\* from nothing else that register_artifact and its neighbours do.
THEOREM Orphans == Spec => OrphansComeFromFailures
<1>1. TypeOK /\ [Next]_vars =>
          [\A id \in Ids : ~Orphan(id) /\ Orphan(id)' => \E w \in Workers : Fail(w)]_vars
  BY OrphanStep DEF Next
<1> QED
  BY <1>1, TypeCorrect, PTL DEF Spec, OrphansComeFromFailures
=============================================================================
