------------------------- MODULE ProfileStore_proofs --------------------------
(***************************************************************************)
(* For any number of workers, schemas and values: what is labelled manual  *)
(* was supplied, and only a worker that did not see it takes it away.      *)
(***************************************************************************)
EXTENDS ProfileStore, TLAPS

(* A record, stored or on its way, whose manual value a client supplied.   *)
Sound(rec) == rec.label = "manual" => rec.value \in Supplied

(* What a worker inside an upsert brings along, and, when the mart is all  *)
(* that is left of a refresh, that the profile is there already.           *)
Brings(w) ==
    call[w] # Idle =>
        /\ Sound(call[w].new)
        /\ call[w].op = "write" => Sound(call[w].found)
        /\ call[w].todo = <<"mart">> /\ call[w].new.value \in Inferred
              => Known(record["profile"])

IInv ==
    /\ TypeOK
    /\ ManualMeansSupplied
    /\ MartsHaveProfiles
    /\ \A w \in Workers : Brings(w)

-----------------------------------------------------------------------------
(* Facts about calls and merges.                                           *)

LEMMA TodoFacts ==
    ASSUME NEW todo \in Todo
    PROVE  /\ Head(todo) \in Kind
           /\ todo = <<"mart">> \/ Head(todo) = "profile"
           /\ Len(todo) # 1 => todo = RefreshOrder /\ Tail(todo) = <<"mart">>
           /\ <<"mart">> # RefreshOrder /\ Head(<<"mart">>) = "mart"
<1>1. CASE todo = <<"profile", "mart">>
  BY <1>1 DEF RefreshOrder, Kind
<1>2. CASE todo = <<"profile">>
  BY <1>2 DEF RefreshOrder, Kind
<1>3. CASE todo = <<"mart">>
  BY <1>3 DEF RefreshOrder, Kind
<1> QED
  BY <1>1, <1>2, <1>3 DEF Todo, RefreshOrder

LEMMA CallFacts ==
    ASSUME TypeOK, NEW w \in Workers, call[w] # Idle
    PROVE  /\ call[w] \in ReadCall \cup WriteCall
           /\ call[w].new \in Record /\ call[w].todo \in Todo
           /\ call[w].op \in {"read", "write"}
           /\ call[w].op = "write" => call[w].found \in Record \cup {Absent}
<1>1. call[w] \in ReadCall \cup WriteCall
  BY DEF TypeOK
<1>2. CASE call[w] \in ReadCall
  BY <1>2 DEF ReadCall
<1>3. CASE call[w] \in WriteCall
  BY <1>3 DEF WriteCall
<1> QED
  BY <1>1, <1>2, <1>3

LEMMA MergedType ==
    ASSUME NEW rec \in Record, NEW new \in Record
    PROVE  Merged(rec, new) \in Record
BY DEF Merged, Record, Label

LEMMA FittedFacts ==
    ASSUME NEW k \in Kind, NEW new \in Record
    PROVE  /\ Fitted(k, new) \in Record
           /\ Fitted(k, new).value = new.value
           /\ Fitted(k, new).label = new.label
BY DEF Fitted, Record, Label

LEMMA RecordFacts ==
    ASSUME NEW rec \in Record \cup {Absent}
    PROVE  /\ Known(rec) <=> rec \in Record
           /\ rec \in Record => rec.value \in Supplied \cup Inferred /\ rec.label \in Label
           /\ ~Known(rec) => rec.label = "none" /\ rec.value \notin Inferred
           /\ Sound(Absent)
BY ValueAssumption DEF Record, Absent, Known, Sound

LEMMA UpsertedFacts ==
    ASSUME NEW k \in Kind, NEW rec \in Record \cup {Absent}, NEW new \in Record
    PROVE  /\ Upserted(k, rec, new) \in Record
           /\ Sound(rec) /\ Sound(new) => Sound(Upserted(k, rec, new))
           /\ Upserted(k, rec, new).value \in Inferred /\ Sound(rec)
                 => new.value \in Inferred
           /\ Known(Upserted(k, rec, new))
<1>1. CASE ~Known(rec) \/ Hidden(k, rec, new)
  BY <1>1, RecordFacts DEF Upserted
<1>2. CASE Known(rec) /\ ~Hidden(k, rec, new)
  <2>1. Upserted(k, rec, new) = Merged(rec, new) /\ rec \in Record
    BY <1>2, RecordFacts DEF Upserted
  <2>2. Merged(rec, new) \in Record
    BY <2>1, MergedType
  <2>3. Sound(rec) /\ Sound(new) => Sound(Merged(rec, new))
    BY <2>1, ValueAssumption DEF Sound, Merged, Record
  <2>4. Merged(rec, new).value \in Inferred /\ Sound(rec) => new.value \in Inferred
    BY <2>1, ValueAssumption DEF Sound, Merged, Record
  <2> QED
    BY <2>1, <2>2, <2>3, <2>4, RecordFacts
<1> QED
  BY <1>1, <1>2

-----------------------------------------------------------------------------
(* The invariant.                                                          *)

LEMMA InitInv == Init => IInv
<1> SUFFICES ASSUME Init PROVE IInv
  OBVIOUS
<1>1. TypeOK
  BY DEF Init, TypeOK
<1>2. ManualMeansSupplied /\ MartsHaveProfiles
  BY ValueAssumption DEF Init, ManualMeansSupplied, MartsHaveProfiles, IsManual,
                         Absent, Kind, Known
<1>3. \A w \in Workers : Brings(w)
  BY DEF Init, Brings
<1> QED
  BY <1>1, <1>2, <1>3 DEF IInv

\* A worker takes a step that leaves the records alone.
LEMMA CallStep ==
    ASSUME IInv, NEW w \in Workers, UNCHANGED record,
           NEW c \in {Idle} \cup ReadCall \cup WriteCall, Goto(w, c),
           Brings(w)'
    PROVE  IInv'
<1>1. TypeOK'
  BY DEF IInv, TypeOK, Goto
<1>2. ManualMeansSupplied' /\ MartsHaveProfiles'
  BY DEF IInv, ManualMeansSupplied, MartsHaveProfiles, IsManual, Known
<1>3. ASSUME NEW u \in Workers
      PROVE  Brings(u)'
  <2>1. CASE u = w
    BY <2>1
  <2>2. CASE u # w
    <3>1. call'[u] = call[u]
      BY <2>2 DEF IInv, TypeOK, Goto
    <3> QED
      BY <3>1 DEF IInv, Brings
  <2> QED
    BY <2>1, <2>2
<1> QED
  BY <1>1, <1>2, <1>3 DEF IInv

\* What the beginning of an upsert puts into call.
LEMMA BeginStep ==
    ASSUME IInv, NEW w \in Workers, UNCHANGED record,
           NEW new \in Record, Sound(new), NEW todo \in Todo,
           todo = <<"mart">> => new.value \in Supplied,
           Goto(w, Reading(new, todo))
    PROVE  IInv'
<1> DEFINE fitted == Fitted(Head(todo), new)
<1>1. fitted \in Record /\ Sound(fitted) /\ fitted.value = new.value
  BY TodoFacts, FittedFacts DEF Sound
<1>2. /\ Reading(new, todo) \in ReadCall
      /\ Reading(new, todo).new = fitted /\ Reading(new, todo).todo = todo
      /\ Reading(new, todo).op = "read"
  BY <1>1 DEF Reading, ReadCall
<1> HIDE DEF fitted
<1>3. call'[w] = Reading(new, todo)
  BY DEF IInv, TypeOK, Goto
<1>4. Brings(w)'
  BY <1>1, <1>2, <1>3, ValueAssumption DEF Brings
<1> QED
  BY <1>2, <1>4, CallStep

LEMMA ReadStep ==
    ASSUME IInv, NEW w \in Workers, Read(w)
    PROVE  IInv'
<1> DEFINE c == call[w]
           d == Writing(c.new, c.todo, record[Head(c.todo)])
<1>1. c # Idle /\ c.op = "read" /\ TypeOK
  BY DEF Read, Idle, IInv
<1>2. /\ c.new \in Record /\ c.todo \in Todo
      /\ Head(c.todo) \in Kind
  BY <1>1, CallFacts, TodoFacts
<1>3. record[Head(c.todo)] \in Record \cup {Absent} /\ Sound(record[Head(c.todo)])
  BY <1>1, <1>2 DEF TypeOK, IInv, ManualMeansSupplied, IsManual, Sound
<1>4. d \in WriteCall
  BY <1>2, <1>3 DEF Writing, WriteCall
<1>5. Goto(w, d) /\ UNCHANGED record
  BY DEF Read
<1>6. call'[w] = d
  BY <1>1, <1>5 DEF TypeOK, Goto
<1>7. Brings(w)
  BY DEF IInv
<1>8. d.new = c.new /\ d.todo = c.todo /\ d.op = "write" /\ d.found = record[Head(c.todo)]
  BY DEF Writing
<1> HIDE DEF d
<1>9. Brings(w)'
  BY <1>1, <1>3, <1>5, <1>6, <1>7, <1>8 DEF Brings
<1> QED
  BY <1>4, <1>5, <1>9, CallStep

LEMMA WriteStep ==
    ASSUME IInv, NEW w \in Workers, Write(w)
    PROVE  IInv'
<1> DEFINE c    == call[w]
           k    == Head(c.todo)
           done == Upserted(k, c.found, c.new)
           d    == IF Len(c.todo) = 1 THEN Idle ELSE Reading(c.new, Tail(c.todo))
<1>1. c # Idle /\ c.op = "write" /\ TypeOK
  BY DEF Write, Idle, IInv
<1>2. /\ c.new \in Record /\ c.todo \in Todo /\ k \in Kind
      /\ c.found \in Record \cup {Absent}
  BY <1>1, CallFacts, TodoFacts
<1>3. Sound(c.new) /\ Sound(c.found)
  BY <1>1 DEF IInv, Brings
<1>5. /\ done \in Record /\ Sound(done) /\ Known(done)
      /\ done.value \in Inferred => c.new.value \in Inferred
  BY <1>2, <1>3, UpsertedFacts
<1> HIDE DEF done
<1>6. /\ record' = [record EXCEPT ![k] = done]
      /\ Goto(w, d)
  BY DEF Write, done
<1>7. /\ record' \in [Kind -> Record \cup {Absent}]
      /\ record'[k] = done /\ \A j \in Kind : j # k => record'[j] = record[j]
  BY <1>1, <1>2, <1>5, <1>6 DEF TypeOK
<1>8. Known(record["profile"]) => Known(record'["profile"])
  BY <1>5, <1>7 DEF Kind
<1>9. k = "profile" => Known(record'["profile"])
  BY <1>5, <1>7
<1>10. d \in {Idle} \cup ReadCall
  <2>1. CASE Len(c.todo) = 1
    BY <2>1
  <2>2. CASE Len(c.todo) # 1
    <3>1. Tail(c.todo) \in Todo
      BY <2>2, <1>2, TodoFacts DEF Todo
    <3> QED
      BY <2>2, <3>1, <1>2, TodoFacts, FittedFacts DEF Reading, ReadCall
  <2> QED
    BY <2>1, <2>2
<1>11. call' \in [Workers -> {Idle} \cup ReadCall \cup WriteCall] /\ call'[w] = d
  BY <1>1, <1>6, <1>10 DEF TypeOK, Goto
<1>12. TypeOK'
  BY <1>7, <1>11 DEF TypeOK
<1>13. ManualMeansSupplied'
  BY <1>5, <1>7 DEF IInv, ManualMeansSupplied, IsManual, Sound
<1>14. MartsHaveProfiles'
  <2>1. CASE k = "profile"
    BY <2>1, <1>9 DEF MartsHaveProfiles
  <2>2. CASE k = "mart"
    <3>1. c.todo = <<"mart">>
      BY <1>2, <2>2, TodoFacts
    <3>2. record'["mart"].value \in Inferred => Known(record["profile"])
      BY <1>1, <1>5, <1>7, <2>2, <3>1 DEF IInv, Brings
    <3> QED
      BY <3>2, <1>8 DEF MartsHaveProfiles
  <2> QED
    BY <1>2, <2>1, <2>2 DEF Kind
<1>15. ASSUME NEW u \in Workers
       PROVE  Brings(u)'
  <2>1. CASE u = w
    <3>1. CASE Len(c.todo) = 1
      BY <2>1, <3>1, <1>11 DEF Brings
    <3>2. CASE Len(c.todo) # 1
      <4>1. k = "profile"
        BY <3>2, <1>2, TodoFacts
      <4>2. /\ d.op = "read" /\ d.new = Fitted("mart", c.new)
        BY <3>2, <1>2, TodoFacts DEF Reading
      <4>3. Sound(d.new)
        BY <4>2, <1>2, <1>3, FittedFacts DEF Sound, Kind
      <4> HIDE DEF d
      <4> QED
        BY <4>1, <4>2, <4>3, <2>1, <1>9, <1>11 DEF Brings
    <3> QED
      BY <3>1, <3>2
  <2>2. CASE u # w
    <3>1. call'[u] = call[u]
      BY <2>2, <1>1, <1>6 DEF TypeOK, Goto
    <3> QED
      BY <3>1, <1>8 DEF IInv, Brings
  <2> QED
    BY <2>1, <2>2
<1> QED
  BY <1>12, <1>13, <1>14, <1>15 DEF IInv

LEMMA NextInv == IInv /\ [Next]_vars => IInv'
<1> SUFFICES ASSUME IInv, [Next]_vars PROVE IInv'
  OBVIOUS
<1>1. CASE UNCHANGED vars
  BY <1>1 DEF vars, IInv, TypeOK, ManualMeansSupplied, MartsHaveProfiles,
              IsManual, Brings
<1>2. CASE Next
  <2> PICK w \in Workers : NextOf(w)
    BY <1>2 DEF Next
  <2>1. CASE Read(w)
    BY <2>1, ReadStep
  <2>2. CASE Write(w)
    BY <2>2, WriteStep
  <2>3. CASE Fail(w)
    <3>1. Goto(w, Idle) /\ UNCHANGED record
      BY <2>3 DEF Fail
    <3>2. call'[w] = Idle
      BY <3>1 DEF IInv, TypeOK, Goto
    <3> QED
      BY <3>1, <3>2, CallStep DEF Brings
  <2>4. ASSUME NEW schema \in Schemas \cup {NoSchema}, NEW k \in Kind,
               NEW v \in Supplied, NEW label \in {"manual", "none"},
               Supply(w, k, v, label, schema)
        PROVE  IInv'
    <3> DEFINE new == [value |-> v, label |-> label, schema |-> schema]
    <3>1. new \in Record /\ Sound(new) /\ new.value = v
      BY DEF Record, Label, Sound
    <3>2. <<k>> \in Todo
      BY DEF Todo, Kind
    <3> HIDE DEF new
    <3>3. Goto(w, Reading(new, <<k>>)) /\ UNCHANGED record
      BY <2>4 DEF Supply, new
    <3> QED
      BY <3>1, <3>2, <3>3, BeginStep
  <2>5. ASSUME NEW schema \in Schemas \cup {NoSchema},
               NEW v \in Inferred, NEW label \in {"inferred", "none"},
               NEW todo \in {RefreshOrder, <<"profile">>},
               Refresh(w, v, label, schema, todo)
        PROVE  IInv'
    <3> DEFINE new == [value |-> v, label |-> label, schema |-> schema]
    <3>1. new \in Record /\ Sound(new)
      BY DEF Record, Label, Sound
    <3>2. todo \in Todo /\ todo # <<"mart">>
      BY TodoFacts DEF Todo, RefreshOrder
    <3> HIDE DEF new
    <3>3. Goto(w, Reading(new, todo)) /\ UNCHANGED record
      BY <2>5 DEF Refresh, new
    <3> QED
      BY <3>1, <3>2, <3>3, BeginStep
  <2> QED
    BY <2>1, <2>2, <2>3, <2>4, <2>5 DEF NextOf
<1> QED
  BY <1>1, <1>2

THEOREM Invariance == Spec => []IInv
BY InitInv, NextInv, PTL DEF Spec

-----------------------------------------------------------------------------
(* What follows.                                                           *)

\* Every record and every call in progress is one that the code produces.
THEOREM TypeCorrect == Spec => []TypeOK
<1>1. IInv => TypeOK
  BY DEF IInv
<1> QED
  BY <1>1, Invariance, PTL

\* A field labelled manual holds what a client supplied, not what a refresh
\* has inferred (analysis_profile_store.py:162-205).
THEOREM ManualValues == Spec => []ManualMeansSupplied
<1>1. IInv => ManualMeansSupplied
  BY DEF IInv
<1> QED
  BY <1>1, Invariance, PTL

\* An inferred mart is about a table whose profile is stored, though the
\* refresh that inferred them may have died (datasource_service.py:171-180).
THEOREM MartsAreProfiled == Spec => []MartsHaveProfiles
<1>1. IInv => MartsHaveProfiles
  BY DEF IInv
<1> QED
  BY <1>1, Invariance, PTL

\* A manual field is lost only to a worker that did not see the record as it
\* is (analysis_profile_store.py:13-15 and 56-57).
THEOREM ManualLoss == Spec => ManualLostBySight
<1>1. ASSUME IInv, [Next]_vars, NEW k \in Kind,
             IsManual(k), record'[k].value # record[k].value \/ ~IsManual(k)'
      PROVE  \E w \in Workers :
               /\ InFlight(w, k)
               /\ call[w].found # record[k] \/ Hidden(k, record[k], call[w].new)
  <2>1. record' # record
    BY <1>1 DEF IsManual
  <2>2. PICK w \in Workers : Write(w)
    BY <1>1, <2>1 DEF Next, NextOf, Read, Fail, Supply, Refresh, vars
  <2> DEFINE c == call[w]
             j == Head(c.todo)
  <2>3. TypeOK /\ c # Idle /\ c.op = "write"
    BY <1>1, <2>2 DEF IInv, Write, Idle
  <2>4. c.new \in Record /\ j \in Kind
    BY <2>3, CallFacts, TodoFacts
  <2>5. record' = [record EXCEPT ![j] = Upserted(j, c.found, c.new)]
    BY <2>2 DEF Write
  <2>6. j = k
    BY <1>1, <2>3, <2>4, <2>5 DEF TypeOK, IsManual
  <2>7. record'[k] = Upserted(k, c.found, c.new)
    BY <2>3, <2>5, <2>6 DEF TypeOK
  <2>8. ASSUME c.found = record[k], ~Hidden(k, record[k], c.new)
        PROVE  FALSE
    <3>1. Known(c.found)
      BY <1>1, <2>3, <2>8, RecordFacts DEF TypeOK, IsManual
    <3>2. record'[k] = Merged(record[k], c.new)
      BY <2>7, <2>8, <3>1 DEF Upserted
    <3> QED
      BY <1>1, <3>2 DEF Merged, IsManual
  <2> QED
    BY <2>3, <2>6, <2>8 DEF InFlight
<1>2. IInv /\ [Next]_vars =>
         [\A k \in Kind :
            IsManual(k) /\ (record'[k].value # record[k].value \/ ~IsManual(k)') =>
               \E w \in Workers :
                  /\ InFlight(w, k)
                  /\ call[w].found # record[k] \/ Hidden(k, record[k], call[w].new)]_vars
  BY <1>1
<1> QED
  BY <1>2, Invariance, PTL DEF Spec, ManualLostBySight
===============================================================================
