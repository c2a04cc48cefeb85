-------------------------- MODULE Approvals_proofs --------------------------
(***************************************************************************)
(* Proofs about Approvals for any set of workers, requests, memories and   *)
(* exports.                                                                *)
(***************************************************************************)
EXTENDS Approvals, SequenceTheorems, TLAPS

(***************************************************************************)
(* The inductive invariant.  The first part is what a worker between two   *)
(* statements of its program can count on, although others have run in     *)
(* the meantime; the second is what keeps two of them from making the      *)
(* same row.                                                               *)
(***************************************************************************)

\* create_approval_request, alone or for a record that is not there yet.
Requesting(w) ==
    \E id \in Ids :
        \/ call[w] = Request(id)
        \/ call[w] = <<InsertEvent(id, "created")>> /\ approval[id] # None
        \/ \E m \in Mems :
             /\ memory[m] = NoMemory
             /\ \/ call[w] = Proposal(m, id)
                \/ /\ call[w] = <<InsertEvent(id, "created"), InsertMemory(m, id)>>
                   /\ approval[id] # None
                \/ /\ call[w] = <<InsertMemory(m, id)>>
                   /\ approval[id] # None /\ "created" \in events[id]

\* A decision by hand.
Resolving(w) ==
    \E id \in disturbed, d \in Decision :
        /\ id \in Ids \cup Strays
        /\ call[w] = Resolution(id, d) \/ call[w] = <<InsertEvent(id, d)>>

\* approve_memory and reject_memory: what each decides, and the status that
\* it leaves.
Marked == [approve |-> "active", reject |-> "rejected"]

Deciding(w) ==
    \E m \in Mems, d \in {"approve", "reject"} :
        /\ memory[m] # NoMemory
        /\ \/ call[w] = MemoryDecision(m, d, Marked[d])
           \/ call[w] = <<InsertEvent(memory[m].approval, d), UpdateMemory(m, Marked[d])>>
           \/ /\ call[w] = <<UpdateMemory(m, Marked[d])>>
              /\ d \in events[memory[m].approval]

Archiving(w) == \E m \in Mems : call[w] = <<UpdateMemory(m, "archived")>>

Exporting(w) ==
    \E x \in Exports, id \in Ids :
        \/ call[w] = Export(x, id)
        \/ call[w] = <<RegisterExport(x), InsertExport(x, id)>> /\ export[x].file
        \/ /\ call[w] = <<InsertExport(x, id)>>
           /\ export[x].file /\ export[x].artifact

Knows(w) ==
    call[w] = <<>> \/ Requesting(w) \/ Resolving(w) \/ Deciding(w) \/ Archiving(w) \/ Exporting(w)

\* A request is inserted once, and so is a record, which is the only one that
\* names its request.
OneInsert ==
    \A w \in Workers, id \in Ids :
        /\ InsertRequest(id) \in Pending(w) =>
               /\ approval[id] = None
               /\ \A v \in Workers : InsertRequest(id) \in Pending(v) => v = w
        /\ \A m \in Mems : InsertMemory(m, id) \in Pending(w) =>
               /\ \A n \in Mems : memory[n].approval # id
               /\ \A v \in Workers, n \in Mems, i \in Ids :
                      InsertMemory(n, i) \in Pending(v) /\ (n = m \/ i = id) => v = w

\* A record, the request it names, and the decisions taken on that.
Backed(m) ==
    LET id == memory[m].approval
    IN  /\ memory[m].status # None /\ id # None
        /\ approval[id] # None /\ "created" \in events[id]
        /\ memory[m].status = "active"   => "approve" \in events[id]
        /\ memory[m].status = "rejected" => "reject" \in events[id]
        /\ \A n \in Mems : memory[n].approval = id => n = m
        /\ id \notin disturbed =>
             /\ events[id] \subseteq {"created", "approve", "reject"}
             /\ memory[m].status = "pending" /\ events[id] # {"created"} =>
                  \E w \in Workers, d \in {"approve", "reject"} :
                      UpdateMemory(m, Marked[d]) \in Pending(w)

MemoryInv == \A m \in Mems : memory[m] # NoMemory => Backed(m)

\* On a request that no record names, only decisions by hand are taken.
Untouched ==
    \A id \in Ids \ disturbed :
        (\A m \in Mems : memory[m] # NoMemory => memory[m].approval # id)
            => events[id] \subseteq {"created"}

ExportInv == \A x \in Exports : export[x].row => export[x].file /\ export[x].artifact

IInv ==
    /\ TypeOK
    /\ \A w \in Workers : Knows(w)
    /\ OneInsert /\ MemoryInv /\ Untouched /\ ExportInv

-----------------------------------------------------------------------------
(* Programs are short, and statements are told apart by what they do.      *)

LEMMA Tuples ==
    ASSUME NEW a, NEW b, NEW c
    PROVE  /\ Head(<<a>>) = a /\ Tail(<<a>>) = <<>> /\ <<a>> # <<>>
           /\ Head(<<a, b>>) = a /\ Tail(<<a, b>>) = <<b>> /\ <<a, b>> # <<>>
           /\ Head(<<a, b, c>>) = a /\ Tail(<<a, b, c>>) = <<b, c>> /\ <<a, b, c>> # <<>>
           /\ ToSet(<<>>) = {} /\ ToSet(<<a>>) = {a} /\ ToSet(<<a, b>>) = {a, b}
           /\ ToSet(<<a, b, c>>) = {a, b, c}
           /\ \A S : /\ <<>> \in Seq(S)
                     /\ a \in S => <<a>> \in Seq(S)
                     /\ a \in S /\ b \in S => <<a, b>> \in Seq(S)
                     /\ a \in S /\ b \in S /\ c \in S => <<a, b, c>> \in Seq(S)
<1>1. /\ Head(<<a>>) = a /\ Tail(<<a>>) = <<>> /\ <<a>> # <<>>
      /\ Head(<<a, b>>) = a /\ Tail(<<a, b>>) = <<b>> /\ <<a, b>> # <<>>
      /\ Head(<<a, b, c>>) = a /\ Tail(<<a, b, c>>) = <<b, c>> /\ <<a, b, c>> # <<>>
  OBVIOUS
<1>2. ToSet(<<>>) = {} /\ ToSet(<<a>>) = {a}
  BY DEF ToSet
<1>3. ToSet(<<a, b>>) = {a, b}
  BY DEF ToSet
<1>4. ToSet(<<a, b, c>>) = {a, b, c}
  BY DEF ToSet
<1>5. ASSUME NEW S
      PROVE  /\ <<>> \in Seq(S)
             /\ a \in S => <<a>> \in Seq(S)
             /\ a \in S /\ b \in S => <<a, b>> \in Seq(S)
             /\ a \in S /\ b \in S /\ c \in S => <<a, b, c>> \in Seq(S)
  OBVIOUS
<1> QED
  BY <1>1, <1>2, <1>3, <1>4, <1>5

LEMMA Concatenated == \A a, b, c : <<a, b>> \o <<c>> = <<a, b, c>>
<1> TAKE a, b, c
<1>1. <<a, b>> \in Seq({a, b, c}) /\ <<c>> \in Seq({a, b, c}) /\ <<a, b, c>> \in Seq({a, b, c})
  OBVIOUS
<1>2. <<a, b>> \o <<c>> \in Seq({a, b, c}) /\ Len(<<a, b>> \o <<c>>) = 3
  BY <1>1, ConcatProperties
<1>3. \A i \in 1 .. 3 : (<<a, b>> \o <<c>>)[i] = <<a, b, c>>[i]
  BY <1>1, ConcatProperties
<1> QED
  BY <1>1, <1>2, <1>3, SeqEqual

LEMMA Distinct ==
    /\ \A i, j : InsertRequest(i) = InsertRequest(j) => i = j
    /\ \A i, j, t : InsertRequest(i) # InsertEvent(j, t)
    /\ \A i, j, t : InsertRequest(i) # UpdateRequest(j, t)
    /\ \A i, j, m : InsertRequest(i) # InsertMemory(m, j)
    /\ \A i, m, t : InsertRequest(i) # UpdateMemory(m, t)
    /\ \A i, x : InsertRequest(i) # CopyFile(x) /\ InsertRequest(i) # RegisterExport(x)
    /\ \A i, j, x : InsertRequest(i) # InsertExport(x, j)
    /\ \A i, j, m, n : InsertMemory(m, i) = InsertMemory(n, j) => m = n /\ i = j
    /\ \A i, j, m, t : InsertMemory(m, i) # InsertEvent(j, t)
    /\ \A i, j, m, t : InsertMemory(m, i) # UpdateRequest(j, t)
    /\ \A i, m, n, t : InsertMemory(m, i) # UpdateMemory(n, t)
    /\ \A i, m, x : InsertMemory(m, i) # CopyFile(x) /\ InsertMemory(m, i) # RegisterExport(x)
    /\ \A i, j, m, x : InsertMemory(m, i) # InsertExport(x, j)
    /\ \A m, n, s, t : UpdateMemory(m, s) = UpdateMemory(n, t) => m = n /\ s = t
    /\ \A i, m, s, t : UpdateMemory(m, s) # InsertEvent(i, t)
    /\ \A i, m, s, t : UpdateMemory(m, s) # UpdateRequest(i, t)
    /\ \A m, s, x : UpdateMemory(m, s) # CopyFile(x) /\ UpdateMemory(m, s) # RegisterExport(x)
    /\ \A j, m, s, x : UpdateMemory(m, s) # InsertExport(x, j)
    /\ \A i, j, s, t : InsertEvent(i, s) = InsertEvent(j, t) => i = j /\ s = t
    /\ \A i, j, s, t : InsertEvent(i, s) # UpdateRequest(j, t)
    /\ \A i, s, x : InsertEvent(i, s) # CopyFile(x) /\ InsertEvent(i, s) # RegisterExport(x)
    /\ \A i, j, s, x : InsertEvent(i, s) # InsertExport(x, j)
BY DEF InsertRequest, UpdateRequest, InsertEvent, InsertMemory, UpdateMemory, CopyFile,
   RegisterExport, InsertExport

LEMMA Statements ==
    /\ \A id \in Ids : InsertRequest(id) \in Statement
    /\ \A id \in Ids \cup Strays, d \in Decision : UpdateRequest(id, d) \in Statement
    /\ \A id \in Ids \cup Strays, t \in Decision \cup {"created"} : InsertEvent(id, t) \in Statement
    /\ \A m \in Mems, id \in Ids : InsertMemory(m, id) \in Statement
    /\ \A m \in Mems, s \in MemoryStatus : UpdateMemory(m, s) \in Statement
    /\ \A x \in Exports : CopyFile(x) \in Statement /\ RegisterExport(x) \in Statement
    /\ \A x \in Exports, id \in Ids : InsertExport(x, id) \in Statement
BY DEF Statement, InsertRequest, UpdateRequest, InsertEvent, InsertMemory, UpdateMemory, CopyFile,
   RegisterExport, InsertExport

\* The requests a worker that dies had to do with.
LEMMA ConcernedBy ==
    ASSUME NEW w \in Workers
    PROVE  /\ \A id, t : InsertEvent(id, t) \in Pending(w) => id \in Concerned(w)
           /\ \A m, s : UpdateMemory(m, s) \in Pending(w) => memory[m].approval \in Concerned(w)
<1>1. \A id, t : "id" \in DOMAIN InsertEvent(id, t)
  BY DEF InsertEvent
<1>2. ASSUME NEW id, NEW t, InsertEvent(id, t) \in Pending(w) PROVE id \in Concerned(w)
  <2>1. InsertEvent(id, t).id = id
    BY DEF InsertEvent
  <2> QED
    BY <1>1, <1>2, <2>1 DEF Concerned
<1>3. ASSUME NEW m, NEW s, UpdateMemory(m, s) \in Pending(w)
      PROVE  memory[m].approval \in Concerned(w)
  <2>1. UpdateMemory(m, s).mem = m /\ UpdateMemory(m, s).do = "update memory"
    BY DEF UpdateMemory
  <2> QED
    BY <1>3, <2>1 DEF Concerned
<1> QED
  BY <1>2, <1>3

LEMMA ConcernedType ==
    ASSUME TypeOK, NEW w \in Workers
    PROVE  Concerned(w) \subseteq Ids \cup Strays \cup {None}
<1>1. Pending(w) \subseteq Statement
  BY DEF TypeOK, Pending, ToSet
<1>2. \A s \in Statement : "id" \in DOMAIN s => s.id \in Ids \cup Strays
  BY DEF Statement
<1>3. \A s \in Statement : s.do = "update memory" => s.mem \in Mems
  BY DEF Statement
<1>4. \A s \in Pending(w) : s.do = "update memory" => memory[s.mem].approval \in Ids \cup {None}
  BY <1>1, <1>3 DEF TypeOK
<1> QED
  BY <1>1, <1>2, <1>4 DEF Concerned

-----------------------------------------------------------------------------
(* What a statement does, and what follows it in its program.              *)

LEMMA RequestInserted ==
    ASSUME NEW id, Execute(InsertRequest(id))
    PROVE  /\ approval' = [approval EXCEPT ![id] = "pending"]
           /\ UNCHANGED <<events, memory, export>>
BY DEF Execute, InsertRequest

LEMMA RequestUpdated ==
    ASSUME NEW id, NEW d, Execute(UpdateRequest(id, d))
    PROVE  /\ approval' = [i \in Ids |-> IF i = id /\ approval[i] # None
                                        THEN StatusOf[d] ELSE approval[i]]
           /\ UNCHANGED <<events, memory, export>>
BY DEF Execute, UpdateRequest

LEMMA EventInserted ==
    ASSUME NEW id, NEW t, Execute(InsertEvent(id, t))
    PROVE  /\ events' = [events EXCEPT ![id] = @ \cup {t}]
           /\ UNCHANGED <<approval, memory, export>>
BY DEF Execute, InsertEvent

LEMMA MemoryInserted ==
    ASSUME NEW m, NEW id, Execute(InsertMemory(m, id))
    PROVE  /\ memory' = [memory EXCEPT ![m] = [status |-> "pending", approval |-> id]]
           /\ UNCHANGED <<approval, events, export>>
BY DEF Execute, InsertMemory

LEMMA MemoryUpdated ==
    ASSUME NEW m, NEW s, Execute(UpdateMemory(m, s))
    PROVE  /\ memory' = [memory EXCEPT ![m].status = IF @ = None THEN None ELSE s]
           /\ UNCHANGED <<approval, events, export>>
BY DEF Execute, UpdateMemory

LEMMA FileCopied ==
    ASSUME NEW x, Execute(CopyFile(x))
    PROVE  /\ export' = [export EXCEPT ![x].file = TRUE]
           /\ UNCHANGED <<approval, events, memory>>
BY DEF Execute, CopyFile

LEMMA ExportRegistered ==
    ASSUME NEW x, Execute(RegisterExport(x))
    PROVE  /\ export' = [export EXCEPT ![x].artifact = TRUE]
           /\ UNCHANGED <<approval, events, memory>>
BY DEF Execute, RegisterExport

LEMMA ExportInserted ==
    ASSUME NEW x, NEW id, Execute(InsertExport(x, id))
    PROVE  /\ export' = [export EXCEPT ![x].row = TRUE, ![x].approval = id]
           /\ UNCHANGED <<approval, events, memory>>
BY DEF Execute, InsertExport

LEMMA Proposed ==
    ASSUME NEW m, NEW id
    PROVE  Proposal(m, id) =
               <<InsertRequest(id), InsertEvent(id, "created"), InsertMemory(m, id)>>
BY Concatenated, Zenon DEF Request, Proposal

LEMMA Decided ==
    ASSUME NEW m, NEW d, NEW s
    PROVE  MemoryDecision(m, d, s) =
               <<UpdateRequest(memory[m].approval, d), InsertEvent(memory[m].approval, d),
                 UpdateMemory(m, s)>>
BY Concatenated, Zenon DEF Resolution, MemoryDecision

\* The next statement of w, and what comes after it.
AtRequest(w, id) ==
    /\ Head(call[w]) = InsertRequest(id)
    /\ \/ Tail(call[w]) = <<InsertEvent(id, "created")>>
       \/ \E m \in Mems :
            /\ memory[m] = NoMemory
            /\ Tail(call[w]) = <<InsertEvent(id, "created"), InsertMemory(m, id)>>

AtCreated(w, id) ==
    /\ Head(call[w]) = InsertEvent(id, "created")
    /\ approval[id] # None
    /\ \/ Tail(call[w]) = <<>>
       \/ \E m \in Mems : memory[m] = NoMemory /\ Tail(call[w]) = <<InsertMemory(m, id)>>

AtMemory(w, m, id) ==
    /\ Head(call[w]) = InsertMemory(m, id)
    /\ Tail(call[w]) = <<>>
    /\ memory[m] = NoMemory /\ approval[id] # None /\ "created" \in events[id]

AtUpdate(w, id, d) ==
    /\ Head(call[w]) = UpdateRequest(id, d)
    /\ \/ id \in disturbed /\ Tail(call[w]) = <<InsertEvent(id, d)>>
       \/ \E m \in Mems :
            /\ memory[m] # NoMemory /\ id = memory[m].approval /\ d \in {"approve", "reject"}
            /\ Tail(call[w]) = <<InsertEvent(id, d), UpdateMemory(m, Marked[d])>>

AtDecided(w, id, d) ==
    /\ Head(call[w]) = InsertEvent(id, d)
    /\ \/ id \in disturbed /\ Tail(call[w]) = <<>>
       \/ \E m \in Mems :
            /\ memory[m] # NoMemory /\ id = memory[m].approval /\ d \in {"approve", "reject"}
            /\ Tail(call[w]) = <<UpdateMemory(m, Marked[d])>>

AtMark(w, m, s) ==
    /\ Head(call[w]) = UpdateMemory(m, s)
    /\ Tail(call[w]) = <<>>
    /\ \/ s = "archived"
       \/ \E d \in {"approve", "reject"} :
            s = Marked[d] /\ memory[m] # NoMemory /\ d \in events[memory[m].approval]

AtFile(w, x) ==
    /\ Head(call[w]) = CopyFile(x)
    /\ \E id \in Ids : Tail(call[w]) = <<RegisterExport(x), InsertExport(x, id)>>

AtArtifact(w, x) ==
    /\ Head(call[w]) = RegisterExport(x)
    /\ export[x].file
    /\ \E id \in Ids : Tail(call[w]) = <<InsertExport(x, id)>>

AtExport(w, x, id) ==
    /\ Head(call[w]) = InsertExport(x, id)
    /\ Tail(call[w]) = <<>>
    /\ export[x].file /\ export[x].artifact

LEMMA NextStatement ==
    ASSUME TypeOK, MemoryInv, NEW w \in Workers, Knows(w), call[w] # <<>>
    PROVE  \/ \E id \in Ids : AtRequest(w, id) \/ AtCreated(w, id)
           \/ \E id \in Ids, m \in Mems : AtMemory(w, m, id)
           \/ \E id \in Ids \cup Strays, d \in Decision : AtUpdate(w, id, d) \/ AtDecided(w, id, d)
           \/ \E m \in Mems, s \in {"active", "rejected", "archived"} : AtMark(w, m, s)
           \/ \E x \in Exports : AtFile(w, x) \/ AtArtifact(w, x)
           \/ \E x \in Exports, id \in Ids : AtExport(w, x, id)
<1>1. CASE Requesting(w)
  <2>1. PICK id \in Ids :
            \/ call[w] = Request(id)
            \/ call[w] = <<InsertEvent(id, "created")>> /\ approval[id] # None
            \/ \E m \in Mems :
                 /\ memory[m] = NoMemory
                 /\ \/ call[w] = Proposal(m, id)
                    \/ /\ call[w] = <<InsertEvent(id, "created"), InsertMemory(m, id)>>
                       /\ approval[id] # None
                    \/ /\ call[w] = <<InsertMemory(m, id)>>
                       /\ approval[id] # None /\ "created" \in events[id]
    BY <1>1 DEF Requesting
  <2>2. CASE call[w] = Request(id)
    BY <2>2 DEF AtRequest, Request
  <2>3. CASE call[w] = <<InsertEvent(id, "created")>> /\ approval[id] # None
    BY <2>3 DEF AtCreated
  <2>4. ASSUME NEW m \in Mems, memory[m] = NoMemory, call[w] = Proposal(m, id)
        PROVE  AtRequest(w, id)
    <3>1. call[w] = <<InsertRequest(id), InsertEvent(id, "created"), InsertMemory(m, id)>>
      BY <2>4, Proposed, Zenon
    <3> QED
      BY <2>4, <3>1 DEF AtRequest
  <2>5. ASSUME NEW m \in Mems, memory[m] = NoMemory, approval[id] # None,
               call[w] = <<InsertEvent(id, "created"), InsertMemory(m, id)>>
        PROVE  AtCreated(w, id)
    BY <2>5 DEF AtCreated
  <2>6. ASSUME NEW m \in Mems, memory[m] = NoMemory, approval[id] # None,
               "created" \in events[id], call[w] = <<InsertMemory(m, id)>>
        PROVE  AtMemory(w, m, id)
    BY <2>6 DEF AtMemory
  <2> QED
    BY <2>1, <2>2, <2>3, <2>4, <2>5, <2>6
<1>2. CASE Resolving(w)
  <2>1. PICK id \in disturbed, d \in Decision :
            /\ id \in Ids \cup Strays
            /\ call[w] = Resolution(id, d) \/ call[w] = <<InsertEvent(id, d)>>
    BY <1>2 DEF Resolving
  <2>2. call[w] = Resolution(id, d) => AtUpdate(w, id, d)
    BY <2>1 DEF AtUpdate, Resolution
  <2>3. call[w] = <<InsertEvent(id, d)>> => AtDecided(w, id, d)
    BY <2>1 DEF AtDecided
  <2> QED
    BY <2>1, <2>2, <2>3
<1>3. CASE Deciding(w)
  <2>1. PICK m \in Mems, d \in {"approve", "reject"} :
            /\ memory[m] # NoMemory
            /\ \/ call[w] = MemoryDecision(m, d, Marked[d])
               \/ call[w] = <<InsertEvent(memory[m].approval, d), UpdateMemory(m, Marked[d])>>
               \/ /\ call[w] = <<UpdateMemory(m, Marked[d])>>
                  /\ d \in events[memory[m].approval]
    BY <1>3 DEF Deciding
  <2>2. memory[m].approval \in Ids /\ d \in Decision /\ Marked[d] \in {"active", "rejected"}
    BY <2>1 DEF TypeOK, MemoryInv, Backed, Decision, Marked
  <2>3. ASSUME call[w] = MemoryDecision(m, d, Marked[d])
        PROVE  AtUpdate(w, memory[m].approval, d)
    <3>1. call[w] = <<UpdateRequest(memory[m].approval, d),
                      InsertEvent(memory[m].approval, d), UpdateMemory(m, Marked[d])>>
      BY <2>3, Decided, Zenon
    <3> QED
      BY <2>1, <3>1 DEF AtUpdate
  <2>4. call[w] = <<InsertEvent(memory[m].approval, d), UpdateMemory(m, Marked[d])>>
          => AtDecided(w, memory[m].approval, d)
    BY <2>1 DEF AtDecided
  <2>5. call[w] = <<UpdateMemory(m, Marked[d])>> /\ d \in events[memory[m].approval]
          => AtMark(w, m, Marked[d])
    BY <2>1 DEF AtMark
  <2> QED
    BY <2>1, <2>2, <2>3, <2>4, <2>5
<1>4. CASE Archiving(w)
  BY <1>4 DEF Archiving, AtMark
<1>5. CASE Exporting(w)
  <2>1. PICK x \in Exports, id \in Ids :
            \/ call[w] = Export(x, id)
            \/ call[w] = <<RegisterExport(x), InsertExport(x, id)>> /\ export[x].file
            \/ /\ call[w] = <<InsertExport(x, id)>>
               /\ export[x].file /\ export[x].artifact
    BY <1>5 DEF Exporting
  <2>2. call[w] = Export(x, id) => AtFile(w, x)
    BY DEF AtFile, Export
  <2>3. call[w] = <<RegisterExport(x), InsertExport(x, id)>> /\ export[x].file => AtArtifact(w, x)
    BY DEF AtArtifact
  <2>4. call[w] = <<InsertExport(x, id)>> /\ export[x].file /\ export[x].artifact
          => AtExport(w, x, id)
    BY DEF AtExport
  <2> QED
    BY <2>1, <2>2, <2>3, <2>4
<1> QED
  BY <1>1, <1>2, <1>3, <1>4, <1>5 DEF Knows

-----------------------------------------------------------------------------
(* What no step takes back, and what a worker that does not move keeps.    *)

Grows ==
    /\ \A id \in Ids : approval[id] # None => approval'[id] # None
    /\ \A id \in Ids \cup Strays : events[id] \subseteq events'[id]
    /\ disturbed \subseteq disturbed'
    /\ \A m \in Mems : memory[m] # NoMemory =>
           memory'[m] # NoMemory /\ memory'[m].approval = memory[m].approval
    /\ \A x \in Exports : /\ export[x].file => export'[x].file
                          /\ export[x].artifact => export'[x].artifact

LEMMA OthersKnow ==
    ASSUME TypeOK, MemoryInv, Grows, NEW v \in Workers, Knows(v), call'[v] = call[v],
           \A m \in Mems, id \in Ids : InsertMemory(m, id) \in Pending(v) => memory'[m] = NoMemory
    PROVE  Knows(v)'
<1>1. CASE call[v] = <<>>
  BY <1>1 DEF Knows
<1>2. CASE Requesting(v)
  <2>1. PICK id \in Ids :
            \/ call[v] = Request(id)
            \/ call[v] = <<InsertEvent(id, "created")>> /\ approval[id] # None
            \/ \E m \in Mems :
                 /\ memory[m] = NoMemory
                 /\ \/ call[v] = Proposal(m, id)
                    \/ /\ call[v] = <<InsertEvent(id, "created"), InsertMemory(m, id)>>
                       /\ approval[id] # None
                    \/ /\ call[v] = <<InsertMemory(m, id)>>
                       /\ approval[id] # None /\ "created" \in events[id]
    BY <1>2 DEF Requesting
  <2>2. approval[id] # None => approval'[id] # None
    BY DEF Grows
  <2>3. "created" \in events[id] => "created" \in events'[id]
    BY DEF Grows
  <2>4. ASSUME NEW m \in Mems,
               \/ call[v] = Proposal(m, id)
               \/ call[v] = <<InsertEvent(id, "created"), InsertMemory(m, id)>>
               \/ call[v] = <<InsertMemory(m, id)>>
        PROVE  memory'[m] = NoMemory
    <3>1. call[v] = Proposal(m, id)
            => call[v] = <<InsertRequest(id), InsertEvent(id, "created"), InsertMemory(m, id)>>
      BY Proposed, Zenon
    <3>2. InsertMemory(m, id) \in ToSet(call[v])
      BY <2>4, <3>1 DEF ToSet
    <3> QED
      BY <3>2 DEF Pending
  <2>5. CASE call[v] = Request(id)
    BY <2>5 DEF Knows, Requesting, Request
  <2>6. CASE call[v] = <<InsertEvent(id, "created")>> /\ approval[id] # None
    BY <2>2, <2>6 DEF Knows, Requesting
  <2>7. ASSUME NEW m \in Mems,
               \/ call[v] = Proposal(m, id)
               \/ /\ call[v] = <<InsertEvent(id, "created"), InsertMemory(m, id)>>
                  /\ approval[id] # None
               \/ /\ call[v] = <<InsertMemory(m, id)>>
                  /\ approval[id] # None /\ "created" \in events[id]
        PROVE  Requesting(v)'
    BY <2>2, <2>3, <2>4, <2>7 DEF Requesting
  <2> QED
    BY <2>1, <2>5, <2>6, <2>7 DEF Knows
<1>3. CASE Resolving(v)
  BY <1>3 DEF Knows, Resolving, Grows
<1>4. CASE Deciding(v)
  <2>1. PICK m \in Mems, d \in {"approve", "reject"} :
            /\ memory[m] # NoMemory
            /\ \/ call[v] = MemoryDecision(m, d, Marked[d])
               \/ call[v] = <<InsertEvent(memory[m].approval, d), UpdateMemory(m, Marked[d])>>
               \/ /\ call[v] = <<UpdateMemory(m, Marked[d])>>
                  /\ d \in events[memory[m].approval]
    BY <1>4 DEF Deciding
  <2>2. memory'[m] # NoMemory /\ memory'[m].approval = memory[m].approval
    BY <2>1 DEF Grows
  <2>3. d \in events[memory[m].approval] => d \in events'[memory[m].approval]
    BY <2>1 DEF Grows, TypeOK, MemoryInv, Backed
  <2>4. MemoryDecision(m, d, Marked[d])' = MemoryDecision(m, d, Marked[d])
    BY <2>2 DEF MemoryDecision
  <2> QED
    BY <2>1, <2>2, <2>3, <2>4 DEF Knows, Deciding
<1>5. CASE Archiving(v)
  BY <1>5 DEF Knows, Archiving
<1>6. CASE Exporting(v)
  BY <1>6 DEF Knows, Exporting, Grows
<1> QED
  BY <1>1, <1>2, <1>3, <1>4, <1>5, <1>6 DEF Knows

LEMMA OneInsertKept ==
    ASSUME OneInsert,
           \A v \in Workers : Pending(v)' \subseteq Pending(v),
           \A v \in Workers, id \in Ids : InsertRequest(id) \in Pending(v)' => approval'[id] = None,
           \A v \in Workers, m \in Mems, id \in Ids :
               InsertMemory(m, id) \in Pending(v)' => \A n \in Mems : memory'[n].approval # id
    PROVE  OneInsert'
BY DEF OneInsert

\* The records are not touched, and of those left alone neither is the trail.
LEMMA MemoryKept ==
    ASSUME TypeOK, MemoryInv, Grows, memory' = memory,
           \A m \in Mems : memory[m] # NoMemory /\ memory[m].approval \notin disturbed' =>
               LET id == memory[m].approval
               IN  /\ events'[id] \subseteq {"created", "approve", "reject"}
                   /\ memory[m].status = "pending" /\ events'[id] # {"created"} =>
                        \E w \in Workers, d \in {"approve", "reject"} :
                            UpdateMemory(m, Marked[d]) \in Pending(w)'
    PROVE  MemoryInv'
<1> SUFFICES ASSUME NEW m \in Mems, memory'[m] # NoMemory PROVE Backed(m)'
  BY DEF MemoryInv
<1>1. memory[m] # NoMemory /\ Backed(m)
  BY DEF MemoryInv
<1>2. memory[m].approval \in Ids
  BY <1>1 DEF Backed, TypeOK
<1>3. events[memory[m].approval] \subseteq events'[memory[m].approval]
  BY <1>2 DEF Grows
<1>4. approval'[memory[m].approval] # None
  BY <1>1, <1>2 DEF Grows, Backed
<1> QED
  BY <1>1, <1>3, <1>4 DEF Backed

-----------------------------------------------------------------------------
(* A worker that performs a statement.                                     *)

LEMMA Shrinks ==
    ASSUME TypeOK, NEW w \in Workers, Step(w)
    PROVE  /\ call[w] # <<>>
           /\ call' \in [Workers -> Seq(Statement)]
           /\ call'[w] = Tail(call[w])
           /\ Pending(w) = {Head(call[w])} \cup Pending(w)'
           /\ \A v \in Workers : v # w => call'[v] = call[v] /\ Pending(v)' = Pending(v)
           /\ \A v \in Workers : Pending(v)' \subseteq Pending(v)
           /\ Execute(Head(call[w]))
           /\ disturbed' = disturbed
<1>1. call[w] # <<>> /\ call[w] \in Seq(Statement) /\ call' = [call EXCEPT ![w] = Tail(@)]
      /\ Execute(Head(call[w])) /\ disturbed' = disturbed
  BY DEF Step, Idle, TypeOK
<1>2. /\ Tail(call[w]) \in Seq(Statement)
      /\ Len(Tail(call[w])) = Len(call[w]) - 1
      /\ \A i \in 1 .. Len(Tail(call[w])) : Tail(call[w])[i] = call[w][i + 1]
      /\ Head(call[w]) = call[w][1] /\ Len(call[w]) >= 1
  BY <1>1, HeadTailProperties, EmptySeq
<1>3. call' \in [Workers -> Seq(Statement)] /\ call'[w] = Tail(call[w])
      /\ \A v \in Workers : v # w => call'[v] = call[v]
  BY <1>1, <1>2 DEF TypeOK
<1>4. ToSet(call[w]) = {Head(call[w])} \cup ToSet(Tail(call[w]))
  <2>1. ASSUME NEW s \in ToSet(call[w]), s # Head(call[w]) PROVE s \in ToSet(Tail(call[w]))
    <3>1. PICK i \in 1 .. Len(call[w]) : s = call[w][i]
      BY <1>1, <2>1 DEF ToSet
    <3>2. i - 1 \in 1 .. Len(Tail(call[w])) /\ s = Tail(call[w])[i - 1]
      BY <1>2, <2>1, <3>1
    <3>3. DOMAIN Tail(call[w]) = 1 .. Len(Tail(call[w]))
      BY <1>2, LenProperties
    <3> QED
      BY <3>2, <3>3, Zenon DEF ToSet
  <2>2. ASSUME NEW s \in ToSet(Tail(call[w])) PROVE s \in ToSet(call[w])
    BY <1>1, <1>2, <2>2 DEF ToSet
  <2>3. Head(call[w]) \in ToSet(call[w])
    BY <1>1, <1>2 DEF ToSet
  <2> QED
    BY <2>1, <2>2, <2>3
<1> QED
  BY <1>1, <1>3, <1>4 DEF Pending

\* Of a worker that knows its program: which inserts it has still to do.
LEMMA ProposedAreNew ==
    ASSUME TypeOK, NEW v \in Workers, Knows(v), NEW m \in Mems, NEW id \in Ids,
           InsertMemory(m, id) \in Pending(v)
    PROVE  /\ memory[m] = NoMemory
           /\ \/ InsertRequest(id) \in Pending(v)
              \/ approval[id] # None
<1>1. CASE call[v] = <<>>
  BY <1>1, Tuples DEF Pending
<1>2. CASE Requesting(v)
  <2>1. PICK i \in Ids :
            \/ call[v] = Request(i)
            \/ call[v] = <<InsertEvent(i, "created")>> /\ approval[i] # None
            \/ \E n \in Mems :
                 /\ memory[n] = NoMemory
                 /\ \/ call[v] = Proposal(n, i)
                    \/ /\ call[v] = <<InsertEvent(i, "created"), InsertMemory(n, i)>>
                       /\ approval[i] # None
                    \/ /\ call[v] = <<InsertMemory(n, i)>>
                       /\ approval[i] # None /\ "created" \in events[i]
    BY <1>2 DEF Requesting
  <2>2. CASE call[v] = Request(i) \/ call[v] = <<InsertEvent(i, "created")>>
    <3>1. ToSet(call[v]) \subseteq {InsertRequest(i), InsertEvent(i, "created")}
      BY <2>2 DEF ToSet, Request
    <3> QED
      BY <3>1, Distinct DEF Pending
  <2>3. ASSUME NEW n \in Mems, memory[n] = NoMemory, call[v] = Proposal(n, i)
        PROVE  m = n /\ i = id /\ InsertRequest(i) \in Pending(v)
    <3>1. call[v] = <<InsertRequest(i), InsertEvent(i, "created"), InsertMemory(n, i)>>
      BY <2>3, Proposed, Zenon
    <3>2. ToSet(call[v]) = {InsertRequest(i), InsertEvent(i, "created"), InsertMemory(n, i)}
      BY <3>1 DEF ToSet
    <3> QED
      BY <3>2, Distinct DEF Pending
  <2>4. ASSUME NEW n \in Mems, memory[n] = NoMemory,
               \/ call[v] = <<InsertEvent(i, "created"), InsertMemory(n, i)>>
               \/ call[v] = <<InsertMemory(n, i)>>
        PROVE  m = n /\ i = id
    <3>1. ToSet(call[v]) \subseteq {InsertEvent(i, "created"), InsertMemory(n, i)}
      BY <2>4 DEF ToSet
    <3> QED
      BY <3>1, Distinct DEF Pending
  <2> QED
    BY <2>1, <2>2, <2>3, <2>4
<1>3. CASE Resolving(v)
  <2>1. PICK i \in disturbed, d \in Decision : 
            call[v] = Resolution(i, d) \/ call[v] = <<InsertEvent(i, d)>>
    BY <1>3 DEF Resolving
  <2>2. ToSet(call[v]) \subseteq {UpdateRequest(i, d), InsertEvent(i, d)}
    BY <2>1 DEF ToSet, Resolution
  <2> QED
    BY <2>2, Distinct DEF Pending
<1>4. CASE Deciding(v)
  <2>1. PICK n \in Mems, d \in {"approve", "reject"} :
            \/ call[v] = MemoryDecision(n, d, Marked[d])
            \/ call[v] = <<InsertEvent(memory[n].approval, d), UpdateMemory(n, Marked[d])>>
            \/ call[v] = <<UpdateMemory(n, Marked[d])>>
    BY <1>4 DEF Deciding
  <2>2. call[v] = MemoryDecision(n, d, Marked[d]) =>
            call[v] = <<UpdateRequest(memory[n].approval, d),
                        InsertEvent(memory[n].approval, d), UpdateMemory(n, Marked[d])>>
    BY Decided, Zenon
  <2>3. ToSet(call[v]) \subseteq {UpdateRequest(memory[n].approval, d),
                                  InsertEvent(memory[n].approval, d), UpdateMemory(n, Marked[d])}
    BY <2>1, <2>2 DEF ToSet
  <2> QED
    BY <2>3, Distinct DEF Pending
<1>5. CASE Archiving(v)
  <2>1. PICK n \in Mems : call[v] = <<UpdateMemory(n, "archived")>>
    BY <1>5 DEF Archiving
  <2>2. ToSet(call[v]) \subseteq {UpdateMemory(n, "archived")}
    BY <2>1 DEF ToSet
  <2> QED
    BY <2>2, Distinct DEF Pending
<1>6. CASE Exporting(v)
  <2>1. PICK x \in Exports, i \in Ids :
            \/ call[v] = Export(x, i)
            \/ call[v] = <<RegisterExport(x), InsertExport(x, i)>>
            \/ call[v] = <<InsertExport(x, i)>>
    BY <1>6 DEF Exporting
  <2>2. ToSet(call[v]) \subseteq {CopyFile(x), RegisterExport(x), InsertExport(x, i)}
    BY <2>1 DEF ToSet, Export
  <2> QED
    BY <2>2, Distinct DEF Pending
<1> QED
  BY <1>1, <1>2, <1>3, <1>4, <1>5, <1>6 DEF Knows

\* What is left to show of a step, for IInv to hold after it.
LEMMA StepKeeps ==
    ASSUME IInv, NEW w \in Workers, Step(w), TypeOK', Grows, Knows(w)',
           \A v \in Workers, m \in Mems, id \in Ids :
               v # w /\ InsertMemory(m, id) \in Pending(v) => memory'[m] = memory[m],
           \A v \in Workers, id \in Ids : InsertRequest(id) \in Pending(v)' => approval'[id] = None,
           \A v \in Workers, m \in Mems, id \in Ids :
               InsertMemory(m, id) \in Pending(v)' => \A n \in Mems : memory'[n].approval # id,
           MemoryInv', Untouched', ExportInv'
    PROVE  IInv'
<1>1. ASSUME NEW v \in Workers, v # w PROVE Knows(v)'
  <2>1. Knows(v) /\ TypeOK /\ MemoryInv /\ call'[v] = call[v]
    BY <1>1, Shrinks DEF IInv
  <2>2. ASSUME NEW m \in Mems, NEW id \in Ids, InsertMemory(m, id) \in Pending(v)
        PROVE  memory'[m] = NoMemory
    <3>1. memory'[m] = memory[m]
      BY <1>1, <2>2
    <3>2. memory[m] = NoMemory
      BY <2>1, <2>2, ProposedAreNew DEF IInv
    <3> QED
      BY <3>1, <3>2
  <2> QED
    BY <2>1, <2>2, OthersKnow
<1>2. \A v \in Workers : Pending(v)' \subseteq Pending(v)
  BY Shrinks DEF IInv
<1>3. OneInsert'
  BY <1>2, OneInsertKept DEF IInv
<1> QED
  BY <1>1, <1>3 DEF IInv

\* Only its own statement takes a mark off the list.
LEMMA MarksStay ==
    ASSUME TypeOK, NEW w \in Workers, Step(w), NEW m \in Mems,
           \A s : Head(call[w]) # UpdateMemory(m, s)
    PROVE  \A v \in Workers : \A s : UpdateMemory(m, s) \in Pending(v) => UpdateMemory(m, s) \in Pending(v)'
BY Shrinks

\* The records, the trail and the requests decided by hand stay as they are.
LEMMA TrailKept ==
    ASSUME IInv, Grows, UNCHANGED <<events, memory, disturbed>>,
           \A m \in Mems, v \in Workers : \A s :
               UpdateMemory(m, s) \in Pending(v) => UpdateMemory(m, s) \in Pending(v)'
    PROVE  MemoryInv' /\ Untouched'
<1>1. TypeOK /\ MemoryInv /\ Untouched
  BY DEF IInv
<1>2. ASSUME NEW m \in Mems, memory[m] # NoMemory, memory[m].approval \notin disturbed'
      PROVE  LET id == memory[m].approval
             IN  /\ events'[id] \subseteq {"created", "approve", "reject"}
                 /\ memory[m].status = "pending" /\ events'[id] # {"created"} =>
                      \E w \in Workers, d \in {"approve", "reject"} :
                          UpdateMemory(m, Marked[d]) \in Pending(w)'
  BY <1>1, <1>2 DEF MemoryInv, Backed
<1>3. MemoryInv'
  BY <1>1, <1>2, MemoryKept
<1>4. Untouched'
  BY <1>1 DEF Untouched
<1> QED
  BY <1>3, <1>4

LEMMA DoRequest ==
    ASSUME IInv, NEW w \in Workers, Step(w), NEW id \in Ids, AtRequest(w, id)
    PROVE  IInv'
<1>1. TypeOK /\ OneInsert /\ MemoryInv /\ Untouched /\ ExportInv
  BY DEF IInv
<1>2. Head(call[w]) = InsertRequest(id)
  BY DEF AtRequest
<1>3. Execute(InsertRequest(id)) /\ disturbed' = disturbed /\ call'[w] = Tail(call[w])
      /\ InsertRequest(id) \in Pending(w)
  BY <1>1, <1>2, Shrinks
<1>4. approval' = [approval EXCEPT ![id] = "pending"] /\ UNCHANGED <<events, memory, export>>
  BY <1>3, RequestInserted
<1>5. TypeOK'
  BY <1>1, <1>3, <1>4, Shrinks DEF TypeOK, ApprovalStatus
<1>6. Grows
  BY <1>1, <1>3, <1>4 DEF Grows, TypeOK, None
<1>7. Knows(w)'
  <2>1. approval'[id] # None
    BY <1>1, <1>4 DEF TypeOK, None
  <2> QED
    BY <1>3, <1>4, <2>1 DEF AtRequest, Knows, Requesting
<1>8. ASSUME NEW v \in Workers, NEW i \in Ids, InsertRequest(i) \in Pending(v)'
      PROVE  approval'[i] = None
  <2>1. InsertRequest(i) \in Pending(v) /\ approval[i] = None
    BY <1>1, <1>8, Shrinks DEF OneInsert
  <2>2. i # id
    <3>1. ASSUME i = id PROVE FALSE
      <4>1. v = w
        BY <1>1, <1>3, <2>1, <3>1 DEF OneInsert
      <4>2. InsertRequest(id) \in ToSet(Tail(call[w]))
        BY <1>3, <1>8, <3>1, <4>1 DEF Pending
      <4>3. CASE Tail(call[w]) = <<InsertEvent(id, "created")>>
        <5>1. ToSet(<<InsertEvent(id, "created")>>) \subseteq {InsertEvent(id, "created")}
          BY DEF ToSet
        <5>2. InsertRequest(id) \in {InsertEvent(id, "created")}
          BY <4>2, <4>3, <5>1, Zenon
        <5> QED
          BY <5>2, Distinct
      <4>4. ASSUME NEW m \in Mems,
                   Tail(call[w]) = <<InsertEvent(id, "created"), InsertMemory(m, id)>>
            PROVE  FALSE
        <5>1. ToSet(<<InsertEvent(id, "created"), InsertMemory(m, id)>>)
                \subseteq {InsertEvent(id, "created"), InsertMemory(m, id)}
          BY DEF ToSet
        <5>2. InsertRequest(id) \in {InsertEvent(id, "created"), InsertMemory(m, id)}
          BY <4>2, <4>4, <5>1, Zenon
        <5> QED
          BY <5>2, Distinct
      <4> QED
        BY <4>3, <4>4 DEF AtRequest
    <3> QED
      BY <3>1
  <2> QED
    BY <1>1, <1>4, <2>1, <2>2 DEF TypeOK
<1>9. ASSUME NEW v \in Workers, NEW m \in Mems, NEW i \in Ids, InsertMemory(m, i) \in Pending(v)'
      PROVE  \A n \in Mems : memory'[n].approval # i
  BY <1>1, <1>4, <1>9, Shrinks DEF OneInsert
<1>10. MemoryInv' /\ Untouched'
  <2>1. \A m \in Mems, v \in Workers : \A s :
            UpdateMemory(m, s) \in Pending(v) => UpdateMemory(m, s) \in Pending(v)'
    BY <1>1, <1>2, MarksStay, Distinct
  <2> QED
    BY <1>3, <1>4, <1>6, <2>1, TrailKept
<1>11. ExportInv'
  BY <1>1, <1>4 DEF ExportInv
<1> QED
  BY <1>4, <1>5, <1>6, <1>7, <1>8, <1>9, <1>10, <1>11, StepKeeps

\* A statement that inserts neither a request nor a record leaves the two
\* conditions on those that do.
LEMMA InsertsStay ==
    ASSUME IInv, NEW w \in Workers, Step(w),
           \A i \in Ids : approval[i] = None => approval'[i] = None,
           \A m \in Mems : memory'[m].approval = memory[m].approval
    PROVE  /\ \A v \in Workers, i \in Ids : InsertRequest(i) \in Pending(v)' => approval'[i] = None
           /\ \A v \in Workers, m \in Mems, i \in Ids :
                  InsertMemory(m, i) \in Pending(v)' => \A n \in Mems : memory'[n].approval # i
<1>1. TypeOK /\ OneInsert
  BY DEF IInv
<1>2. \A v \in Workers : Pending(v)' \subseteq Pending(v)
  BY <1>1, Shrinks
<1> QED
  BY <1>1, <1>2 DEF OneInsert

LEMMA DoUpdate ==
    ASSUME IInv, NEW w \in Workers, Step(w), NEW id \in Ids \cup Strays, NEW d \in Decision,
           AtUpdate(w, id, d)
    PROVE  IInv'
<1>1. TypeOK /\ MemoryInv /\ ExportInv
  BY DEF IInv
<1>2. Head(call[w]) = UpdateRequest(id, d)
  BY DEF AtUpdate
<1>3. Execute(UpdateRequest(id, d)) /\ disturbed' = disturbed /\ call'[w] = Tail(call[w])
  BY <1>1, <1>2, Shrinks
<1>4. /\ approval' = [i \in Ids |-> IF i = id /\ approval[i] # None
                                    THEN StatusOf[d] ELSE approval[i]]
      /\ UNCHANGED <<events, memory, export>>
  BY <1>3, RequestUpdated
<1>5. StatusOf[d] \in ApprovalStatus /\ StatusOf[d] # None
  BY DEF StatusOf, Decision, ApprovalStatus, None
<1>6. TypeOK'
  BY <1>1, <1>3, <1>4, <1>5, Shrinks DEF TypeOK
<1>7. Grows
  BY <1>3, <1>4, <1>5 DEF Grows
<1>8. Knows(w)'
  BY <1>3, <1>4 DEF AtUpdate, Knows, Resolving, Deciding
<1>9. \A m \in Mems, v \in Workers : \A s :
          UpdateMemory(m, s) \in Pending(v) => UpdateMemory(m, s) \in Pending(v)'
  BY <1>1, <1>2, MarksStay, Distinct
<1>10. MemoryInv' /\ Untouched'
  BY <1>3, <1>4, <1>7, <1>9, TrailKept
<1>11. /\ \A i \in Ids : approval[i] = None => approval'[i] = None
       /\ \A m \in Mems : memory'[m].approval = memory[m].approval
  BY <1>4
<1>12. ExportInv'
  BY <1>1, <1>4 DEF ExportInv
<1> QED
  BY <1>4, <1>6, <1>7, <1>8, <1>10, <1>11, <1>12, InsertsStay, StepKeeps

\* The first event of a request: its record, if there is one, has it already.
LEMMA DoCreated ==
    ASSUME IInv, NEW w \in Workers, Step(w), NEW id \in Ids, AtCreated(w, id)
    PROVE  IInv'
<1>1. TypeOK /\ MemoryInv /\ Untouched /\ ExportInv
  BY DEF IInv
<1>2. Head(call[w]) = InsertEvent(id, "created")
  BY DEF AtCreated
<1>3. Execute(InsertEvent(id, "created")) /\ disturbed' = disturbed /\ call'[w] = Tail(call[w])
  BY <1>1, <1>2, Shrinks
<1>4. /\ events' = [events EXCEPT ![id] = @ \cup {"created"}]
      /\ UNCHANGED <<approval, memory, export>>
  BY <1>3, EventInserted
<1>5. TypeOK'
  BY <1>1, <1>3, <1>4, Shrinks DEF TypeOK
<1>6. Grows
  BY <1>1, <1>3, <1>4 DEF Grows, TypeOK
<1>7. Knows(w)'
  <2>1. "created" \in events'[id]
    BY <1>1, <1>4 DEF TypeOK
  <2> QED
    BY <1>3, <1>4, <2>1 DEF AtCreated, Knows, Requesting
<1>8. \A m \in Mems, v \in Workers : \A s :
          UpdateMemory(m, s) \in Pending(v) => UpdateMemory(m, s) \in Pending(v)'
  BY <1>1, <1>2, MarksStay, Distinct
<1>9. ASSUME NEW m \in Mems, memory[m] # NoMemory PROVE events'[memory[m].approval] = events[memory[m].approval]
  <2>1. memory[m].approval \in Ids /\ "created" \in events[memory[m].approval]
    BY <1>1, <1>9 DEF MemoryInv, Backed, TypeOK
  <2> QED
    BY <1>1, <1>4, <2>1 DEF TypeOK
<1>10. MemoryInv'
  <2>1. ASSUME NEW m \in Mems, memory[m] # NoMemory, memory[m].approval \notin disturbed'
        PROVE  LET i == memory[m].approval
               IN  /\ events'[i] \subseteq {"created", "approve", "reject"}
                   /\ memory[m].status = "pending" /\ events'[i] # {"created"} =>
                        \E v \in Workers, d \in {"approve", "reject"} :
                            UpdateMemory(m, Marked[d]) \in Pending(v)'
    BY <1>1, <1>3, <1>8, <1>9, <2>1 DEF MemoryInv, Backed
  <2> QED
    BY <1>1, <1>4, <1>6, <2>1, MemoryKept
<1>11. Untouched'
  BY <1>1, <1>3, <1>4 DEF Untouched, TypeOK
<1>12. /\ \A i \in Ids : approval[i] = None => approval'[i] = None
       /\ \A m \in Mems : memory'[m].approval = memory[m].approval
  BY <1>4
<1>13. ExportInv'
  BY <1>1, <1>4 DEF ExportInv
<1> QED
  BY <1>4, <1>5, <1>6, <1>7, <1>10, <1>11, <1>12, <1>13, InsertsStay, StepKeeps

\* The event of a decision: by hand, or before the record is marked.
LEMMA DoDecided ==
    ASSUME IInv, NEW w \in Workers, Step(w), NEW id \in Ids \cup Strays, NEW d \in Decision,
           AtDecided(w, id, d)
    PROVE  IInv'
<1>1. TypeOK /\ MemoryInv /\ Untouched /\ ExportInv
  BY DEF IInv
<1>2. Head(call[w]) = InsertEvent(id, d)
  BY DEF AtDecided
<1>3. Execute(InsertEvent(id, d)) /\ disturbed' = disturbed /\ call'[w] = Tail(call[w])
  BY <1>1, <1>2, Shrinks
<1>4. /\ events' = [events EXCEPT ![id] = @ \cup {d}]
      /\ UNCHANGED <<approval, memory, export>>
  BY <1>3, EventInserted
<1>5. TypeOK'
  BY <1>1, <1>3, <1>4, Shrinks DEF TypeOK
<1>6. Grows
  BY <1>1, <1>3, <1>4 DEF Grows, TypeOK
<1>7. d \in events'[id]
  BY <1>1, <1>4 DEF TypeOK
<1>8. Knows(w)'
  BY <1>3, <1>4, <1>7 DEF AtDecided, Knows, Deciding
<1>9. \A m \in Mems, v \in Workers : \A s :
          UpdateMemory(m, s) \in Pending(v) => UpdateMemory(m, s) \in Pending(v)'
  BY <1>1, <1>2, MarksStay, Distinct
<1>10. MemoryInv'
  <2>1. ASSUME NEW m \in Mems, memory[m] # NoMemory, memory[m].approval \notin disturbed'
        PROVE  LET i == memory[m].approval
               IN  /\ events'[i] \subseteq {"created", "approve", "reject"}
                   /\ memory[m].status = "pending" /\ events'[i] # {"created"} =>
                        \E v \in Workers, c \in {"approve", "reject"} :
                            UpdateMemory(m, Marked[c]) \in Pending(v)'
    <3>1. Backed(m) /\ memory[m].approval \in Ids
      BY <1>1, <2>1 DEF MemoryInv, Backed, TypeOK
    <3>2. CASE memory[m].approval # id
      <4>1. events'[memory[m].approval] = events[memory[m].approval]
        BY <1>1, <1>4, <3>1, <3>2 DEF TypeOK
      <4> QED
        BY <1>3, <1>9, <2>1, <3>1, <4>1 DEF Backed
    <3>3. CASE memory[m].approval = id
      <4>1. PICK n \in Mems :
                /\ memory[n] # NoMemory /\ id = memory[n].approval /\ d \in {"approve", "reject"}
                /\ Tail(call[w]) = <<UpdateMemory(n, Marked[d])>>
        BY <1>3, <2>1, <3>3 DEF AtDecided
      <4>2. n = m
        BY <3>1, <3>3, <4>1 DEF Backed
      <4>3. UpdateMemory(m, Marked[d]) \in Pending(w)'
        <5>1. UpdateMemory(m, Marked[d]) \in ToSet(Tail(call[w]))
          BY <4>1, <4>2, Tuples
        <5> QED
          BY <1>3, <5>1 DEF Pending
      <4>4. events'[id] \subseteq {"created", "approve", "reject"}
        BY <1>1, <1>3, <1>4, <2>1, <3>1, <3>3, <4>1 DEF Backed, TypeOK
      <4> QED
        BY <3>3, <4>1, <4>3, <4>4
    <3> QED
      BY <3>2, <3>3
  <2> QED
    BY <1>1, <1>4, <1>6, <2>1, MemoryKept
<1>11. Untouched'
  <2>1. id \in disturbed \/ \E m \in Mems : memory[m] # NoMemory /\ memory[m].approval = id
    BY DEF AtDecided
  <2> QED
    BY <1>1, <1>3, <1>4, <2>1 DEF Untouched, TypeOK
<1>12. /\ \A i \in Ids : approval[i] = None => approval'[i] = None
       /\ \A m \in Mems : memory'[m].approval = memory[m].approval
  BY <1>4
<1>13. ExportInv'
  BY <1>1, <1>4 DEF ExportInv
<1> QED
  BY <1>4, <1>5, <1>6, <1>8, <1>10, <1>11, <1>12, <1>13, InsertsStay, StepKeeps

\* The record: nobody else inserts it, or one with its request, and nothing
\* was decided on that.
LEMMA DoMemory ==
    ASSUME IInv, NEW w \in Workers, Step(w), NEW m \in Mems, NEW id \in Ids, AtMemory(w, m, id)
    PROVE  IInv'
<1>1. TypeOK /\ OneInsert /\ MemoryInv /\ Untouched /\ ExportInv
  BY DEF IInv
<1>2. Head(call[w]) = InsertMemory(m, id) /\ Tail(call[w]) = <<>> /\ memory[m] = NoMemory
      /\ approval[id] # None /\ "created" \in events[id]
  BY DEF AtMemory
<1>3. Execute(InsertMemory(m, id)) /\ disturbed' = disturbed /\ call'[w] = <<>>
      /\ InsertMemory(m, id) \in Pending(w)
  BY <1>1, <1>2, Shrinks
<1>4. /\ memory' = [memory EXCEPT ![m] = [status |-> "pending", approval |-> id]]
      /\ UNCHANGED <<approval, events, export>>
  BY <1>3, MemoryInserted
<1>5. memory'[m] = [status |-> "pending", approval |-> id]
      /\ \A n \in Mems : n # m => memory'[n] = memory[n]
  BY <1>1, <1>4 DEF TypeOK
<1>6. TypeOK'
  BY <1>1, <1>3, <1>4, Shrinks DEF TypeOK, MemoryStatus
<1>7. Grows
  BY <1>2, <1>3, <1>4, <1>5 DEF Grows
<1>8. Knows(w)' /\ Pending(w)' = {}
  BY <1>3, Tuples DEF Knows, Pending
<1>9. \A n \in Mems : memory[n].approval # id
  BY <1>1, <1>3 DEF OneInsert
<1>10. ASSUME NEW v \in Workers, NEW n \in Mems, NEW i \in Ids, v # w,
              InsertMemory(n, i) \in Pending(v)
       PROVE  n # m /\ i # id
  BY <1>1, <1>3, <1>10 DEF OneInsert
<1>11. ASSUME NEW v \in Workers, NEW n \in Mems, NEW i \in Ids, InsertMemory(n, i) \in Pending(v)'
       PROVE  \A k \in Mems : memory'[k].approval # i
  <2>1. v # w /\ InsertMemory(n, i) \in Pending(v)
    BY <1>1, <1>8, <1>11, Shrinks
  <2> QED
    BY <1>1, <1>5, <1>10, <2>1 DEF OneInsert
<1>12. ASSUME NEW v \in Workers, NEW i \in Ids, InsertRequest(i) \in Pending(v)'
       PROVE  approval'[i] = None
  BY <1>1, <1>4, <1>12, Shrinks DEF OneInsert
<1>13. MemoryInv'
  <2>1. ASSUME NEW n \in Mems, n # m, memory[n] # NoMemory PROVE Backed(n)'
    <3>1. Backed(n) /\ memory'[n] = memory[n] /\ memory[n].approval # id
      BY <1>1, <1>5, <1>9, <2>1 DEF MemoryInv
    <3>2. \A k \in Mems : memory'[k].approval = memory[n].approval => k = n
      BY <1>5, <3>1 DEF Backed
    <3>3. \A v \in Workers : \A s : UpdateMemory(n, s) \in Pending(v) => UpdateMemory(n, s) \in Pending(v)'
      BY <1>1, <1>2, MarksStay, Distinct
    <3> QED
      BY <1>3, <1>4, <3>1, <3>2, <3>3 DEF Backed
  <2>2. Backed(m)'
    <3>1. id \notin disturbed => events[id] = {"created"}
      BY <1>1, <1>2, <1>9 DEF Untouched
    <3>2. \A k \in Mems : memory'[k].approval = id => k = m
      BY <1>5, <1>9
    <3>3. id # None
      BY <1>1, <1>2, <1>9 DEF NoMemory
    <3> QED
      BY <1>2, <1>3, <1>4, <1>5, <3>1, <3>2, <3>3 DEF Backed, None
  <2> QED
    BY <1>5, <2>1, <2>2 DEF MemoryInv
<1>14. Untouched'
  <2>1. memory'[m] # NoMemory
    BY <1>5 DEF NoMemory, None
  <2> QED
    BY <1>1, <1>2, <1>3, <1>4, <1>5, <2>1 DEF Untouched
<1>15. ExportInv'
  BY <1>1, <1>4 DEF ExportInv
<1>16. ASSUME NEW v \in Workers, NEW n \in Mems, NEW i \in Ids,
              v # w /\ InsertMemory(n, i) \in Pending(v)
       PROVE  memory'[n] = memory[n]
  BY <1>5, <1>10, <1>16
<1> QED
  BY <1>6, <1>7, <1>8, <1>11, <1>12, <1>13, <1>14, <1>15, <1>16, StepKeeps

\* The mark: only of a record that is there, and after its decision.
LEMMA DoMark ==
    ASSUME IInv, NEW w \in Workers, Step(w), NEW m \in Mems,
           NEW s \in {"active", "rejected", "archived"}, AtMark(w, m, s)
    PROVE  IInv'
<1>1. TypeOK /\ OneInsert /\ MemoryInv /\ Untouched /\ ExportInv
  BY DEF IInv
<1>2. /\ Head(call[w]) = UpdateMemory(m, s) /\ Tail(call[w]) = <<>>
      /\ s = "active" => "approve" \in events[memory[m].approval]
      /\ s = "rejected" => "reject" \in events[memory[m].approval]
  BY DEF AtMark, Marked
<1>3. Execute(UpdateMemory(m, s)) /\ disturbed' = disturbed /\ call'[w] = <<>>
  BY <1>1, <1>2, Shrinks
<1>4. /\ memory' = [memory EXCEPT ![m].status = IF @ = None THEN None ELSE s]
      /\ UNCHANGED <<approval, events, export>>
  BY <1>3, MemoryUpdated
<1>5. memory[m] = NoMemory => memory'[m] = NoMemory
  BY <1>1, <1>4 DEF TypeOK, NoMemory
<1>6. ASSUME memory[m] # NoMemory
      PROVE  memory'[m] = [status |-> s, approval |-> memory[m].approval]
  <2>1. memory[m].status # None
    BY <1>1, <1>6 DEF MemoryInv, Backed
  <2> QED
    BY <1>1, <1>4, <2>1 DEF TypeOK
<1>7. \A n \in Mems : n # m => memory'[n] = memory[n]
  BY <1>1, <1>4 DEF TypeOK
<1>8. \A n \in Mems : memory'[n].approval = memory[n].approval
  BY <1>5, <1>6, <1>7
<1>9. TypeOK'
  <2>1. memory' \in [Mems -> [status : MemoryStatus \cup {None}, approval : Ids \cup {None}]]
    <3>1. memory'[m] \in [status : MemoryStatus \cup {None}, approval : Ids \cup {None}]
      BY <1>1, <1>5, <1>6 DEF TypeOK, MemoryStatus
    <3>2. memory' = [memory EXCEPT ![m] = memory'[m]]
      BY <1>1, <1>4 DEF TypeOK
    <3> QED
      BY <1>1, <3>1, <3>2 DEF TypeOK
  <2> QED
    BY <1>1, <1>3, <1>4, <2>1, Shrinks DEF TypeOK
<1>10. Grows
  <2>1. \A n \in Mems : memory[n] # NoMemory => memory'[n] # NoMemory
    BY <1>6, <1>7 DEF NoMemory, None
  <2> QED
    BY <1>3, <1>4, <1>8, <2>1 DEF Grows
<1>11. Knows(w)'
  BY <1>3 DEF Knows
<1>12. MemoryInv'
  <2>1. ASSUME NEW n \in Mems, n # m, memory[n] # NoMemory PROVE Backed(n)'
    <3>1. Backed(n) /\ memory'[n] = memory[n]
      BY <1>1, <1>7, <2>1 DEF MemoryInv
    <3>2. \A v \in Workers : \A t : UpdateMemory(n, t) \in Pending(v) => UpdateMemory(n, t) \in Pending(v)'
      BY <1>1, <1>2, <2>1, MarksStay, Distinct
    <3>3. \A k \in Mems : memory'[k].approval = memory[n].approval => k = n
      BY <1>8, <3>1 DEF Backed
    <3>4. UNCHANGED <<approval, events>>
      BY <1>4
    <3> QED
      BY <1>3, <3>1, <3>2, <3>3, <3>4 DEF Backed
  <2>2. ASSUME memory[m] # NoMemory PROVE Backed(m)'
    <3>1. Backed(m)
      BY <1>1, <2>2 DEF MemoryInv
    <3> QED
      BY <1>2, <1>3, <1>4, <1>6, <1>8, <2>2, <3>1 DEF Backed, None
  <2> QED
    BY <1>5, <1>7, <2>1, <2>2 DEF MemoryInv
<1>13. Untouched'
  <2>1. \A n \in Mems : memory'[n] = NoMemory <=> memory[n] = NoMemory
    BY <1>5, <1>6, <1>7 DEF NoMemory, None
  <2> QED
    BY <1>1, <1>3, <1>4, <1>8, <2>1 DEF Untouched
<1>14. ExportInv'
  BY <1>1, <1>4 DEF ExportInv
<1>15. ASSUME NEW v \in Workers, NEW n \in Mems, NEW i \in Ids,
              v # w /\ InsertMemory(n, i) \in Pending(v)
       PROVE  memory'[n] = memory[n]
  <2>1. memory[n] = NoMemory
    BY <1>1, <1>15, ProposedAreNew DEF IInv
  <2> QED
    BY <1>5, <1>7, <2>1
<1> QED
  BY <1>4, <1>8, <1>9, <1>10, <1>11, <1>12, <1>13, <1>14, <1>15, InsertsStay, StepKeeps

\* The statements of an export.
LEMMA DoExport ==
    ASSUME IInv, NEW w \in Workers, Step(w), NEW x \in Exports, NEW id \in Ids,
           AtFile(w, x) \/ AtArtifact(w, x) \/ AtExport(w, x, id)
    PROVE  IInv'
<1>1. TypeOK /\ ExportInv
  BY DEF IInv
<1>2. /\ disturbed' = disturbed /\ call'[w] = Tail(call[w])
      /\ UNCHANGED <<approval, events, memory>>
      /\ \/ AtFile(w, x) /\ export' = [export EXCEPT ![x].file = TRUE]
         \/ AtArtifact(w, x) /\ export' = [export EXCEPT ![x].artifact = TRUE]
         \/ /\ AtExport(w, x, id)
            /\ export' = [export EXCEPT ![x].row = TRUE, ![x].approval = id]
  <2>1. Execute(Head(call[w])) /\ disturbed' = disturbed /\ call'[w] = Tail(call[w])
    BY <1>1, Shrinks
  <2>2. CASE AtFile(w, x)
    BY <2>1, <2>2, FileCopied DEF AtFile
  <2>3. CASE AtArtifact(w, x)
    BY <2>1, <2>3, ExportRegistered DEF AtArtifact
  <2>4. CASE AtExport(w, x, id)
    BY <2>1, <2>4, ExportInserted DEF AtExport
  <2> QED
    BY <2>1, <2>2, <2>3, <2>4
<1>3. /\ export' \in [Exports -> [file : BOOLEAN, artifact : BOOLEAN, row : BOOLEAN,
                                  approval : Ids \cup {None}]]
      /\ ExportInv'
  <2>1. CASE AtFile(w, x) /\ export' = [export EXCEPT ![x].file = TRUE]
    <3>1. export' = [export EXCEPT ![x] = [export[x] EXCEPT !.file = TRUE]]
      BY <2>1
    <3>2. /\ [export[x] EXCEPT !.file = TRUE] \in
                [file : BOOLEAN, artifact : BOOLEAN, row : BOOLEAN, approval : Ids \cup {None}]
          /\ export[x].row => [export[x] EXCEPT !.file = TRUE].artifact
      BY <1>1 DEF TypeOK, ExportInv
    <3> QED
      BY <1>1, <3>1, <3>2 DEF TypeOK, ExportInv
  <2>2. CASE AtArtifact(w, x) /\ export' = [export EXCEPT ![x].artifact = TRUE]
    <3>1. export' = [export EXCEPT ![x] = [export[x] EXCEPT !.artifact = TRUE]]
      BY <2>2
    <3>2. /\ [export[x] EXCEPT !.artifact = TRUE] \in
                [file : BOOLEAN, artifact : BOOLEAN, row : BOOLEAN, approval : Ids \cup {None}]
          /\ export[x].row => [export[x] EXCEPT !.artifact = TRUE].file
      BY <1>1 DEF TypeOK, ExportInv
    <3> QED
      BY <1>1, <3>1, <3>2 DEF TypeOK, ExportInv
  <2>3. CASE AtExport(w, x, id) /\ export' = [export EXCEPT ![x].row = TRUE, ![x].approval = id]
    <3> DEFINE r == [export[x] EXCEPT !.row = TRUE, !.approval = id]
    <3>1. export' = [export EXCEPT ![x] = r]
      BY <2>3
    <3>2. /\ r \in [file : BOOLEAN, artifact : BOOLEAN, row : BOOLEAN, approval : Ids \cup {None}]
          /\ r.file /\ r.artifact
      BY <1>1, <2>3 DEF TypeOK, AtExport
    <3> HIDE DEF r
    <3> QED
      BY <1>1, <3>1, <3>2 DEF TypeOK, ExportInv
  <2> QED
    BY <1>2, <2>1, <2>2, <2>3
<1>4. TypeOK'
  BY <1>1, <1>2, <1>3, Shrinks DEF TypeOK
<1>5. Grows
  BY <1>1, <1>2 DEF Grows, TypeOK
<1>6. Knows(w)'
  BY <1>1, <1>2 DEF AtFile, AtArtifact, AtExport, Knows, Exporting, TypeOK
<1>7. \A m \in Mems, v \in Workers : \A s :
          UpdateMemory(m, s) \in Pending(v) => UpdateMemory(m, s) \in Pending(v)'
  BY <1>1, MarksStay, Distinct DEF AtFile, AtArtifact, AtExport
<1>8. MemoryInv' /\ Untouched'
  BY <1>2, <1>5, <1>7, TrailKept
<1> QED
  BY <1>2, <1>3, <1>4, <1>5, <1>6, <1>8, InsertsStay, StepKeeps

LEMMA StepInv == ASSUME IInv, NEW w \in Workers, Step(w) PROVE IInv'
<1>1. TypeOK /\ MemoryInv /\ Knows(w)
  BY DEF IInv
<1>2. call[w] # <<>>
  BY <1>1, Shrinks
<1>3. ASSUME NEW x \in Exports, AtFile(w, x) \/ AtArtifact(w, x) PROVE IInv'
  <2>1. PICK id \in Ids : TRUE
    BY <1>3 DEF AtFile, AtArtifact
  <2> QED
    BY <1>3, DoExport
<1>4. ASSUME NEW x \in Exports, NEW id \in Ids, AtExport(w, x, id) PROVE IInv'
  BY <1>4, DoExport
<1>5. ASSUME NEW id \in Ids, AtRequest(w, id) \/ AtCreated(w, id) PROVE IInv'
  BY <1>5, DoRequest, DoCreated
<1>6. ASSUME NEW id \in Ids \cup Strays, NEW d \in Decision, AtUpdate(w, id, d) \/ AtDecided(w, id, d)
      PROVE  IInv'
  BY <1>6, DoUpdate, DoDecided
<1>7. ASSUME NEW id \in Ids, NEW m \in Mems, AtMemory(w, m, id) PROVE IInv'
  BY <1>7, DoMemory
<1>8. ASSUME NEW m \in Mems, NEW s \in {"active", "rejected", "archived"}, AtMark(w, m, s)
      PROVE  IInv'
  BY <1>8, DoMark
<1> QED
  BY <1>1, <1>2, <1>3, <1>4, <1>5, <1>6, <1>7, <1>8, NextStatement

-----------------------------------------------------------------------------
(* A worker that begins a program, or dies.                                *)

\* What is left to show of the beginning of a program.
LEMMA BeginKeeps ==
    ASSUME IInv, NEW w \in Workers, NEW program \in Seq(Statement),
           call' = [call EXCEPT ![w] = program], UNCHANGED <<approval, events, memory, export>>,
           disturbed \subseteq disturbed', disturbed' \subseteq Ids \cup Strays \cup {None},
           Knows(w)',
           \A m \in Mems, d \in {"approve", "reject"} :
               UpdateMemory(m, Marked[d]) \in Pending(w) => memory[m].approval \in disturbed',
           \A id \in Ids : InsertRequest(id) \in ToSet(program) =>
               approval[id] = None /\ \A v \in Workers : InsertRequest(id) \notin Pending(v),
           \A m \in Mems, id \in Ids : InsertMemory(m, id) \in ToSet(program) =>
               /\ \A n \in Mems : memory[n].approval # id
               /\ \A v \in Workers, n \in Mems, i \in Ids :
                      InsertMemory(n, i) \in Pending(v) => n # m /\ i # id
    PROVE  IInv'
<1>1. TypeOK /\ OneInsert /\ MemoryInv /\ Untouched /\ ExportInv
  BY DEF IInv
<1>2. /\ Pending(w)' = ToSet(program)
      /\ \A v \in Workers : v # w => call'[v] = call[v] /\ Pending(v)' = Pending(v)
  BY <1>1 DEF TypeOK, Pending
<1>3. TypeOK'
  BY <1>1 DEF TypeOK
<1>4. Grows
  BY DEF Grows
<1>5. ASSUME NEW v \in Workers, v # w PROVE Knows(v)'
  <2>1. \A m \in Mems, id \in Ids : InsertMemory(m, id) \in Pending(v) => memory'[m] = NoMemory
    BY <1>1, ProposedAreNew DEF IInv
  <2> QED
    BY <1>1, <1>2, <1>4, <1>5, <2>1, OthersKnow DEF IInv
<1>6. OneInsert'
  BY <1>1, <1>2 DEF OneInsert
<1>7. MemoryInv'
  <2>1. ASSUME NEW m \in Mems, memory[m] # NoMemory, memory[m].approval \notin disturbed'
        PROVE  LET i == memory[m].approval
               IN  /\ events'[i] \subseteq {"created", "approve", "reject"}
                   /\ memory[m].status = "pending" /\ events'[i] # {"created"} =>
                        \E v \in Workers, d \in {"approve", "reject"} :
                            UpdateMemory(m, Marked[d]) \in Pending(v)'
    BY <1>1, <1>2, <2>1 DEF MemoryInv, Backed
  <2> QED
    BY <1>1, <1>4, <2>1, MemoryKept
<1>8. Untouched' /\ ExportInv'
  BY <1>1 DEF Untouched, ExportInv
<1> QED
  BY <1>3, <1>5, <1>6, <1>7, <1>8 DEF IInv

\* The programs that insert neither a request nor a record.
LEMMA BeginPlain ==
    ASSUME IInv, NEW w \in Workers, NEW program \in Seq(Statement), Idle(w),
           call' = [call EXCEPT ![w] = program], UNCHANGED <<approval, events, memory, export>>,
           disturbed \subseteq disturbed', disturbed' \subseteq Ids \cup Strays \cup {None},
           Knows(w)',
           \A i : InsertRequest(i) \notin ToSet(program),
           \A m, i : InsertMemory(m, i) \notin ToSet(program)
    PROVE  IInv'
<1>1. Pending(w) = {}
  BY Tuples DEF Idle, Pending
<1> QED
  BY <1>1, BeginKeeps

LEMMA FreshIds ==
    ASSUME IInv, NEW id \in Ids, FreshId(id)
    PROVE  /\ \A n \in Mems : memory[n].approval # id \/ memory[n] = NoMemory
           /\ \A v \in Workers, n \in Mems : InsertMemory(n, id) \notin Pending(v)
           /\ approval[id] = None /\ \A v \in Workers : InsertRequest(id) \notin Pending(v)
<1>1. \A n \in Mems : memory[n] # NoMemory => approval[memory[n].approval] # None
  BY DEF IInv, MemoryInv, Backed
<1>2. \A v \in Workers, n \in Mems : InsertMemory(n, id) \notin Pending(v)
  BY ProposedAreNew DEF IInv, FreshId
<1> QED
  BY <1>1, <1>2 DEF FreshId

LEMMA BeginPropose ==
    ASSUME IInv, NEW w \in Workers, NEW m \in Mems, NEW id \in Ids, Propose(w, m, id)
    PROVE  IInv'
<1>1. /\ Idle(w) /\ FreshId(id) /\ memory[m] = NoMemory
      /\ \A v \in Workers, i \in Ids : InsertMemory(m, i) \notin Pending(v)
      /\ call' = [call EXCEPT ![w] = Proposal(m, id)]
      /\ UNCHANGED <<approval, events, memory, export, disturbed>>
  BY DEF Propose, Begin, Prepare
<1>2. Proposal(m, id) = <<InsertRequest(id), InsertEvent(id, "created"), InsertMemory(m, id)>>
  BY Proposed, Zenon
<1>3. Proposal(m, id) \in Seq(Statement)
  BY <1>2, Statements
<1>4. ToSet(Proposal(m, id)) \subseteq {InsertRequest(id), InsertEvent(id, "created"), InsertMemory(m, id)}
  BY <1>2 DEF ToSet
<1>5. Knows(w)'
  BY <1>1 DEF IInv, TypeOK, Knows, Requesting
<1>6. ASSUME NEW i \in Ids, InsertRequest(i) \in ToSet(Proposal(m, id)) PROVE i = id
  BY <1>4, <1>6, Distinct
<1>7. ASSUME NEW n \in Mems, NEW i \in Ids, InsertMemory(n, i) \in ToSet(Proposal(m, id))
      PROVE  n = m /\ i = id
  BY <1>4, <1>7, Distinct
<1>8. Pending(w) = {}
  BY <1>1, Tuples DEF Idle, Pending
<1>9. \A n \in Mems : memory[n].approval # id
  BY <1>1, FreshIds, NoneAssumption DEF NoMemory
<1> QED
  BY <1>1, <1>3, <1>5, <1>6, <1>7, <1>8, <1>9, FreshIds, BeginKeeps DEF IInv, TypeOK

LEMMA BeginRequest ==
    ASSUME IInv, NEW w \in Workers, NEW id \in Ids, AskForExport(w, id)
    PROVE  IInv'
<1>1. /\ Idle(w) /\ FreshId(id)
      /\ call' = [call EXCEPT ![w] = Request(id)]
      /\ UNCHANGED <<approval, events, memory, export, disturbed>>
  BY DEF AskForExport, Begin, Prepare
<1>2. Request(id) \in Seq(Statement)
  BY Statements DEF Request
<1>3. ToSet(Request(id)) \subseteq {InsertRequest(id), InsertEvent(id, "created")}
  BY DEF ToSet, Request
<1>4. Knows(w)'
  BY <1>1 DEF IInv, TypeOK, Knows, Requesting
<1>5. ASSUME NEW i \in Ids, InsertRequest(i) \in ToSet(Request(id)) PROVE i = id
  BY <1>3, <1>5, Distinct
<1>6. ASSUME NEW n \in Mems, NEW i \in Ids, InsertMemory(n, i) \in ToSet(Request(id)) PROVE FALSE
  BY <1>3, <1>6, Distinct
<1>7. Pending(w) = {}
  BY <1>1, Tuples DEF Idle, Pending
<1> QED
  BY <1>1, <1>2, <1>4, <1>5, <1>6, <1>7, FreshIds, BeginKeeps DEF IInv, TypeOK

LEMMA BeginDecision ==
    ASSUME IInv, NEW w \in Workers, NEW m \in Mems, ApproveMemory(w, m) \/ RejectMemory(w, m)
    PROVE  IInv'
<1>1. PICK d \in {"approve", "reject"} :
          /\ Idle(w) /\ memory[m] # NoMemory
          /\ call' = [call EXCEPT ![w] = MemoryDecision(m, d, Marked[d])]
          /\ UNCHANGED <<approval, events, memory, export, disturbed>>
  BY DEF ApproveMemory, RejectMemory, Begin, Prepare, Marked
<1>2. MemoryDecision(m, d, Marked[d]) =
          <<UpdateRequest(memory[m].approval, d), InsertEvent(memory[m].approval, d),
            UpdateMemory(m, Marked[d])>>
  BY Decided, Zenon
<1>3. memory[m].approval \in Ids /\ d \in Decision /\ Marked[d] \in MemoryStatus
  BY <1>1 DEF IInv, TypeOK, MemoryInv, Backed, Decision, Marked, MemoryStatus
<1>4. MemoryDecision(m, d, Marked[d]) \in Seq(Statement)
  BY <1>2, <1>3, Statements
<1>5. ToSet(MemoryDecision(m, d, Marked[d])) \subseteq
          {UpdateRequest(memory[m].approval, d), InsertEvent(memory[m].approval, d),
           UpdateMemory(m, Marked[d])}
  BY <1>2 DEF ToSet
<1>6. Knows(w)'
  <2>1. MemoryDecision(m, d, Marked[d])' = MemoryDecision(m, d, Marked[d])
    BY <1>1 DEF MemoryDecision
  <2> QED
    BY <1>1, <2>1 DEF IInv, TypeOK, Knows, Deciding
<1>7. /\ \A i : InsertRequest(i) \notin ToSet(MemoryDecision(m, d, Marked[d]))
      /\ \A n, i : InsertMemory(n, i) \notin ToSet(MemoryDecision(m, d, Marked[d]))
  BY <1>5, Distinct
<1> QED
  BY <1>1, <1>4, <1>6, <1>7, BeginPlain DEF IInv, TypeOK

LEMMA BeginArchive ==
    ASSUME IInv, NEW w \in Workers, NEW m \in Mems, ArchiveMemory(w, m)
    PROVE  IInv'
<1>1. /\ Idle(w)
      /\ call' = [call EXCEPT ![w] = <<UpdateMemory(m, "archived")>>]
      /\ UNCHANGED <<approval, events, memory, export, disturbed>>
  BY DEF ArchiveMemory, Begin, Prepare
<1>2. <<UpdateMemory(m, "archived")>> \in Seq(Statement)
  BY Statements DEF MemoryStatus
<1>3. ToSet(<<UpdateMemory(m, "archived")>>) = {UpdateMemory(m, "archived")}
  BY DEF ToSet
<1>4. Knows(w)'
  BY <1>1 DEF IInv, TypeOK, Knows, Archiving
<1>5. /\ \A i : InsertRequest(i) \notin ToSet(<<UpdateMemory(m, "archived")>>)
      /\ \A n, i : InsertMemory(n, i) \notin ToSet(<<UpdateMemory(m, "archived")>>)
  BY <1>3, Distinct
<1> QED
  BY <1>1, <1>2, <1>4, <1>5, BeginPlain DEF IInv, TypeOK

LEMMA BeginResolution ==
    ASSUME IInv, NEW w \in Workers, NEW id \in Ids \cup Strays, NEW d \in Decision, Resolve(w, id, d)
    PROVE  IInv'
<1>1. /\ Idle(w)
      /\ call' = [call EXCEPT ![w] = Resolution(id, d)]
      /\ UNCHANGED <<approval, events, memory, export>>
      /\ disturbed' = disturbed \cup {id}
  BY DEF Resolve, Prepare
<1>2. Resolution(id, d) \in Seq(Statement)
  BY Statements DEF Resolution
<1>3. ToSet(Resolution(id, d)) \subseteq {UpdateRequest(id, d), InsertEvent(id, d)}
  BY DEF ToSet, Resolution
<1>4. Knows(w)'
  BY <1>1 DEF IInv, TypeOK, Knows, Resolving
<1>5. /\ \A i : InsertRequest(i) \notin ToSet(Resolution(id, d))
      /\ \A n, i : InsertMemory(n, i) \notin ToSet(Resolution(id, d))
  BY <1>3, Distinct
<1> QED
  BY <1>1, <1>2, <1>4, <1>5, BeginPlain DEF IInv, TypeOK

LEMMA BeginExport ==
    ASSUME IInv, NEW w \in Workers, NEW x \in Exports, NEW id \in Ids, CreateExport(w, x, id)
    PROVE  IInv'
<1>1. /\ Idle(w)
      /\ call' = [call EXCEPT ![w] = Export(x, id)]
      /\ UNCHANGED <<approval, events, memory, export, disturbed>>
  BY DEF CreateExport, Begin, Prepare
<1>2. Export(x, id) \in Seq(Statement)
  BY Statements DEF Export
<1>3. ToSet(Export(x, id)) \subseteq {CopyFile(x), RegisterExport(x), InsertExport(x, id)}
  BY DEF ToSet, Export
<1>4. Knows(w)'
  BY <1>1 DEF IInv, TypeOK, Knows, Exporting
<1>5. /\ \A i : InsertRequest(i) \notin ToSet(Export(x, id))
      /\ \A n, i : InsertMemory(n, i) \notin ToSet(Export(x, id))
  BY <1>3, Distinct
<1> QED
  BY <1>1, <1>2, <1>4, <1>5, BeginPlain DEF IInv, TypeOK

\* Whoever dies leaves no mark outstanding on a request that is undisturbed.
LEMMA AfterCrash ==
    ASSUME IInv, NEW w \in Workers, Crash(w)
    PROVE  IInv'
<1>1. /\ call' = [call EXCEPT ![w] = <<>>]
      /\ UNCHANGED <<approval, events, memory, export>>
      /\ disturbed' = disturbed \cup Concerned(w)
  BY DEF Crash, Prepare
<1>2. Concerned(w) \subseteq Ids \cup Strays \cup {None}
  BY ConcernedType DEF IInv
<1>3. <<>> \in Seq(Statement) /\ ToSet(<<>>) = {}
  BY DEF ToSet
<1>4. Knows(w)'
  BY <1>1 DEF IInv, TypeOK, Knows
<1>5. \A m \in Mems, d \in {"approve", "reject"} :
          UpdateMemory(m, Marked[d]) \in Pending(w) => memory[m].approval \in disturbed'
  BY <1>1, ConcernedBy
<1> QED
  BY <1>1, <1>2, <1>3, <1>4, <1>5, BeginKeeps DEF IInv, TypeOK

-----------------------------------------------------------------------------
(* Theorems.                                                               *)

LEMMA InitInv == Init => IInv
<1> SUFFICES ASSUME Init PROVE IInv
  OBVIOUS
<1>1. TypeOK
  BY DEF Init, TypeOK, NoMemory, NoExport
<1>2. \A w \in Workers : Knows(w) /\ Pending(w) = {}
  BY Tuples DEF Init, Knows, Pending
<1>3. OneInsert /\ MemoryInv /\ Untouched /\ ExportInv
  BY <1>2 DEF Init, OneInsert, MemoryInv, Untouched, ExportInv, NoExport
<1> QED
  BY <1>1, <1>2, <1>3 DEF IInv

LEMMA NextInv == IInv /\ [Next]_vars => IInv'
<1> SUFFICES ASSUME IInv, [Next]_vars PROVE IInv'
  OBVIOUS
<1>1. CASE UNCHANGED vars
  <2>1. /\ \A w \in Workers : Knows(w)' <=> Knows(w)
        /\ \A w \in Workers : Pending(w)' = Pending(w)
    BY <1>1 DEF vars, Knows, Requesting, Resolving, Deciding, Archiving, Exporting,
       MemoryDecision, Pending
  <2>2. \A m \in Mems : Backed(m) => Backed(m)'
    BY <1>1, <2>1 DEF vars, Backed
  <2> QED
    BY <1>1, <2>1, <2>2 DEF vars, IInv, TypeOK, OneInsert, MemoryInv, Untouched, ExportInv
<1>2. ASSUME NEW w \in Workers, NextOf(w) PROVE IInv'
  BY <1>2, StepInv, AfterCrash, BeginDecision, BeginArchive, BeginPropose, BeginRequest,
     BeginExport, BeginResolution DEF NextOf
<1> QED
  BY <1>1, <1>2 DEF Next

LEMMA Invariance == Spec => []IInv
BY InitInv, NextInv, PTL DEF Spec

\* The tables and the programs under way are well formed.
THEOREM TypeCorrect == Spec => []TypeOK
<1>1. IInv => TypeOK
  BY DEF IInv
<1> QED
  BY <1>1, Invariance, PTL

\* A record is active only after a recorded decision to approve it, for any
\* number of workers, decisions and deaths (memory_store.py:98-101).
THEOREM ApprovedBeforeActive == Spec => []ActiveMemoryWasApproved
<1>1. IInv => ActiveMemoryWasApproved
  BY DEF IInv, MemoryInv, Backed, ActiveMemoryWasApproved, NoMemory, None
<1> QED
  BY <1>1, Invariance, PTL

\* A record's request and its first event, an export's file and artifact are
\* there before the row (memory_store.py:48-78, export_service.py:63-90).
THEOREM BackedRows == Spec => []RowsAreBacked
<1>1. IInv => RowsAreBacked
  BY DEF IInv, MemoryInv, Backed, ExportInv, RowsAreBacked
<1> QED
  BY <1>1, Invariance, PTL

\* Once the workers are done, a record stands as the decisions on its request
\* say, however they interleaved (memory_store.py:98-122).
THEOREM QuietAgreement == Spec => []QuietMemoryAgrees
<1>1. ASSUME IInv PROVE QuietMemoryAgrees
  <2> SUFFICES ASSUME Quiet, NEW m \in Mems, memory[m] # NoMemory,
                      memory[m].approval \notin disturbed
               PROVE  LET taken == events[memory[m].approval] \ {"created"}
                      IN  /\ taken = {} => memory[m].status \in {"pending", "archived"}
                          /\ taken = {"approve"} => memory[m].status \in {"active", "archived"}
                          /\ taken = {"reject"} => memory[m].status \in {"rejected", "archived"}
    BY DEF QuietMemoryAgrees
  <2>1. Backed(m) /\ memory[m].status \in MemoryStatus
    BY <1>1 DEF IInv, MemoryInv, Backed, TypeOK
  <2>2. \A w \in Workers : Pending(w) = {}
    BY Tuples DEF Quiet, Idle, Pending
  <2>3. memory[m].status = "pending" => events[memory[m].approval] = {"created"}
    BY <2>1, <2>2 DEF Backed
  <2> QED
    BY <2>1, <2>3 DEF Backed, MemoryStatus
<1> QED
  BY <1>1, Invariance, PTL

-----------------------------------------------------------------------------
(* The trail.                                                              *)

\* No statement takes an event back.
LEMMA EventsStay ==
    ASSUME TypeOK, NEW s, Execute(s), NEW id \in Ids \cup Strays
    PROVE  events[id] \subseteq events'[id]
<1>1. CASE s.do = "insert event"
  <2>1. events' = [events EXCEPT ![s.id] = @ \cup {s.type}]
    BY <1>1 DEF Execute
  <2> QED
    BY <2>1 DEF TypeOK
<1>2. CASE s.do # "insert event"
  <2>1. events' = events
    BY <1>2 DEF Execute
  <2> QED
    BY <2>1
<1> QED
  BY <1>1, <1>2

\* A step that is not a death leaves no decision behind without its event:
\* the event comes after the decision in the same program.
LEMMA StepTells ==
    ASSUME IInv, NEW w \in Workers, Step(w), NEW id \in Ids, Untold(id)'
    PROVE  Untold(id)
<1>1. TypeOK /\ MemoryInv /\ Knows(w)
  BY DEF IInv
<1>2. PICK d \in Decision :
          /\ approval'[id] = StatusOf[d]
          /\ d \notin events'[id]
          /\ \A v \in Workers : InsertEvent(id, d) \notin Pending(v)'
  BY DEF Untold
<1>3. Execute(Head(call[w])) /\ call[w] # <<>> /\ call'[w] = Tail(call[w])
  BY <1>1, Shrinks
<1>4. approval'[id] = approval[id]
  <2>1. ASSUME NEW i \in Ids, AtRequest(w, i) PROVE approval'[id] = approval[id]
    <3>1. approval' = [approval EXCEPT ![i] = "pending"]
      BY <1>3, <2>1, RequestInserted DEF AtRequest
    <3>2. StatusOf[d] # "pending"
      BY DEF StatusOf, Decision
    <3> QED
      BY <1>1, <1>2, <3>1, <3>2 DEF TypeOK
  <2>2. ASSUME NEW i \in Ids \cup Strays, NEW e \in Decision, AtUpdate(w, i, e)
        PROVE  approval'[id] = approval[id]
    <3>1. approval' = [j \in Ids |-> IF j = i /\ approval[j] # None THEN StatusOf[e] ELSE approval[j]]
      BY <1>3, <2>2, RequestUpdated DEF AtUpdate
    <3>2. InsertEvent(i, e) \in Pending(w)'
      <4>1. PICK m : \/ Tail(call[w]) = <<InsertEvent(i, e)>>
                     \/ Tail(call[w]) = <<InsertEvent(i, e), UpdateMemory(m, Marked[e])>>
        BY <2>2 DEF AtUpdate
      <4>2. /\ InsertEvent(i, e) \in ToSet(<<InsertEvent(i, e)>>)
            /\ InsertEvent(i, e) \in ToSet(<<InsertEvent(i, e), UpdateMemory(m, Marked[e])>>)
        BY DEF ToSet
      <4>3. InsertEvent(i, e) \in ToSet(Tail(call[w]))
        BY <4>1, <4>2, Zenon
      <4> QED
        BY <1>1, <1>3, <4>3 DEF Pending, TypeOK
    <3>3. i = id => e # d
      BY <1>2, <3>2
    <3>4. e # d => StatusOf[e] # StatusOf[d]
      BY DEF StatusOf, Decision
    <3> QED
      BY <1>2, <3>1, <3>3, <3>4
  <2>3. ASSUME NEW i \in Ids \cup Strays, NEW e \in Decision,
               (i \in Ids /\ AtCreated(w, i)) \/ AtDecided(w, i, e)
        PROVE  approval' = approval
    BY <1>3, <2>3, EventInserted DEF AtCreated, AtDecided
  <2>4. ASSUME NEW m \in Mems, NEW i \in Ids, AtMemory(w, m, i) PROVE approval' = approval
    BY <1>3, <2>4, MemoryInserted DEF AtMemory
  <2>5. ASSUME NEW m \in Mems, NEW s, AtMark(w, m, s) PROVE approval' = approval
    BY <1>3, <2>5, MemoryUpdated DEF AtMark
  <2>6. ASSUME NEW x \in Exports, AtFile(w, x) \/ AtArtifact(w, x) PROVE approval' = approval
    BY <1>3, <2>6, FileCopied, ExportRegistered DEF AtFile, AtArtifact
  <2>7. ASSUME NEW x \in Exports, NEW i \in Ids, AtExport(w, x, i) PROVE approval' = approval
    BY <1>3, <2>7, ExportInserted DEF AtExport
  <2> QED
    BY <1>1, <1>3, <2>1, <2>2, <2>3, <2>4, <2>5, <2>6, <2>7, NextStatement DEF Decision
<1>5. d \notin events[id]
  BY <1>1, <1>2, <1>3, EventsStay
<1>6. ASSUME NEW v \in Workers PROVE InsertEvent(id, d) \notin Pending(v)
  <2>1. ASSUME InsertEvent(id, d) = Head(call[w]) PROVE FALSE
    <3>1. events' = [events EXCEPT ![id] = @ \cup {d}]
      BY <1>3, <2>1, EventInserted
    <3> QED
      BY <1>1, <1>2, <3>1 DEF TypeOK
  <2> QED
    BY <1>1, <1>2, <2>1, Shrinks
<1> QED
  BY <1>2, <1>4, <1>5, <1>6 DEF Untold

\* Beginning a program writes nothing.
LEMMA BeginTells ==
    ASSUME IInv, NEW w \in Workers, NEW program, Idle(w), NEW id \in Ids, Untold(id)',
           Prepare(w, program)
    PROVE  Untold(id)
<1>1. Pending(w) = {} /\ \A v \in Workers : v # w => Pending(v)' = Pending(v)
  BY Tuples DEF Prepare, Idle, Pending, IInv, TypeOK
<1> QED
  BY <1>1 DEF Prepare, Untold

\* The event of a decision is lost only with the process that took it
\* (approval_store.py:80-95).
THEOREM TrailIsKept == Spec => TrailLostInCrash
<1>1. IInv /\ [Next]_vars =>
          [\A id \in Ids : ~Untold(id) /\ Untold(id)' => \E w \in Workers : Crash(w)]_vars
  <2> SUFFICES ASSUME IInv, Next, NEW id \in Ids, ~Untold(id), Untold(id)'
               PROVE  \E w \in Workers : Crash(w)
    OBVIOUS
  <2>1. PICK w \in Workers : NextOf(w)
    BY DEF Next
  <2>2. ASSUME ~Crash(w), ~Step(w) PROVE FALSE
    <3>1. PICK program : Idle(w) /\ Prepare(w, program)
      BY <2>1, <2>2 DEF NextOf, ApproveMemory, RejectMemory, ArchiveMemory, Propose,
         AskForExport, CreateExport, Resolve, Begin
    <3> QED
      BY <3>1, BeginTells
  <2> QED
    BY <2>1, <2>2, StepTells
<1> QED
  BY <1>1, Invariance, PTL DEF Spec, TrailLostInCrash
=============================================================================
