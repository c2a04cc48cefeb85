----------------------------- MODULE ProfileStore -----------------------------
(***************************************************************************)
(* AnalysisProfileStore and SemanticRegistry: what is known of a table of  *)
(* a datasource, supplied by clients and inferred by profile_datasource.   *)
(*                                                                         *)
(* An upsert reads the stored record, merges it with the new one in Python *)
(* and writes the result: two transactions, which those of other threads   *)
(* and processes may come between.  Column profiles go the way of table    *)
(* profiles, and join paths that of marts.  The fields of a record are     *)
(* merged one by one; a record here has one field, with its value and its  *)
(* entry in metadata.field_sources.  Metrics and business terms are        *)
(* written by a single statement and are left out.                         *)
(*                                                                         *)
(* A profile is kept under the name of its table: schema_name is a column  *)
(* like any other, though the read looks at it.                            *)
(***************************************************************************)

EXTENDS Naturals, Sequences

CONSTANTS
    Workers,    \* threads and processes
    Schemas,    \* schema names
    NoSchema,   \* schema_name is NULL
    Supplied,   \* values that clients supply
    Inferred,   \* values that profile_datasource infers
    Nothing     \* the value of a record that is not there

ASSUME SchemaAssumption == NoSchema \notin Schemas
ASSUME ValueAssumption == Supplied \cap Inferred = {} /\ Nothing \notin Supplied \cup Inferred

VARIABLES
    record,     \* record[k] : the stored record of kind k
    call        \* call[w]   : the upsert worker w is inside

vars == <<record, call>>

Kind == {"profile", "mart"}

\* "inferred" stands for the labels of a refresh: inferred, sample, catalog.
Label == {"manual", "inferred", "none"}

Record == [value : Supplied \cup Inferred, label : Label, schema : Schemas \cup {NoSchema}]
Absent == [value |-> Nothing, label |-> "none", schema |-> NoSchema]
Known(rec) == rec.value # Nothing

-------------------------------------------------------------------------------
(* Reading and merging.                                                    *)

\* get_table_profile hides a record of another schema; _get_mart does not.
Hidden(k, rec, new) ==
    /\ k = "profile"
    /\ new.schema # NoSchema
    /\ rec.schema \notin {NoSchema, new.schema}

\* Mutants: the new value always wins; so does its label.
ValueAlwaysNew(rec, new) ==
    [value  |-> new.value,
     label  |-> IF rec.label = "manual" THEN "manual" ELSE new.label,
     schema |-> new.schema]
LabelAlwaysNew(rec, new) ==
    [value  |-> IF rec.label = "manual" THEN rec.value ELSE new.value,
     label  |-> IF new.label = "none" THEN rec.label ELSE new.label,
     schema |-> new.schema]

\* _merge_table_profile and the like, with _merge_metadata: a manual field
\* stays, another takes the new value; a label stays when there is no new one.
Merged(rec, new) ==
    [value  |-> IF rec.label = "manual" THEN rec.value ELSE new.value,
     label  |-> IF rec.label = "manual" \/ new.label = "none" THEN rec.label ELSE new.label,
     schema |-> new.schema]

\* What an upsert of new writes when it has found rec.
Upserted(k, rec, new) ==
    IF ~Known(rec) \/ Hidden(k, rec, new) THEN new ELSE Merged(rec, new)

-------------------------------------------------------------------------------
(* Workers.  todo holds the kinds of the records an operation has still to *)
(* upsert, the one it is at first.                                         *)

\* Mutant: marts before the profiles of their tables.
MartsFirst == <<"mart", "profile">>

\* profile_datasource, once its connector has returned.
RefreshOrder == <<"profile", "mart">>

Todo == {RefreshOrder, <<"profile">>, <<"mart">>}

Idle == [op |-> "idle"]

\* A mart has no schema.
Fitted(k, new) == IF k = "mart" THEN [new EXCEPT !.schema = NoSchema] ELSE new

Reading(new, todo) == [op |-> "read", new |-> Fitted(Head(todo), new), todo |-> todo]

\* found is the record that the upsert has read.
Writing(new, todo, found) ==
    [op |-> "write", new |-> new, todo |-> todo, found |-> found]

ReadCall  == [op : {"read"}, new : Record, todo : Todo]
WriteCall == [op : {"write"}, new : Record, todo : Todo, found : Record \cup {Absent}]

TypeOK ==
    /\ record \in [Kind -> Record \cup {Absent}]
    /\ call \in [Workers -> {Idle} \cup ReadCall \cup WriteCall]

Init ==
    /\ record = [k \in Kind |-> Absent]
    /\ call = [w \in Workers |-> Idle]

Goto(w, c) == call' = [call EXCEPT ![w] = c]

-------------------------------------------------------------------------------
(* Actions.                                                                *)

\* An upsert by a client, which says that its value is manual or says
\* nothing: the metadata of the tools is optional.
Supply(w, k, v, label, schema) ==
    /\ call[w] = Idle
    /\ Goto(w, Reading([value |-> v, label |-> label, schema |-> schema], <<k>>))
    /\ UNCHANGED record

\* profile_datasource.  A connector that samples rows labels the fields that
\* it infers and finds marts among the tables; what is known from the catalog
\* alone has no label, and no mart.
Refresh(w, v, label, schema, todo) ==
    /\ call[w] = Idle
    /\ Goto(w, Reading([value |-> v, label |-> label, schema |-> schema], todo))
    /\ UNCHANGED record

Read(w) ==
    LET c == call[w]
    IN  /\ c.op = "read"
        /\ Goto(w, Writing(c.new, c.todo, record[Head(c.todo)]))
        /\ UNCHANGED record

\* INSERT ... ON CONFLICT DO UPDATE: whatever is stored by now gives way.
Write(w) ==
    LET c == call[w]
        k == Head(c.todo)
    IN  /\ c.op = "write"
        /\ record' = [record EXCEPT ![k] = Upserted(k, c.found, c.new)]
        /\ Goto(w, IF Len(c.todo) = 1 THEN Idle ELSE Reading(c.new, Tail(c.todo)))

\* The process dies, or the database stays locked.
Fail(w) ==
    /\ call[w] # Idle
    /\ Goto(w, Idle)
    /\ UNCHANGED record

NextOf(w) ==
    \/ Read(w) \/ Write(w) \/ Fail(w)
    \/ \E schema \in Schemas \cup {NoSchema} :
         \/ \E k \in Kind, v \in Supplied, label \in {"manual", "none"} :
              Supply(w, k, v, label, schema)
         \/ \E v \in Inferred, label \in {"inferred", "none"},
               todo \in {RefreshOrder, <<"profile">>} :
              Refresh(w, v, label, schema, todo)

Next == \E w \in Workers : NextOf(w)

Spec == Init /\ [][Next]_vars

-------------------------------------------------------------------------------
(* Properties.                                                             *)

\* Worker w is about to write the record of kind k.
InFlight(w, k) == call[w].op = "write" /\ Head(call[w].todo) = k

IsManual(k) == record[k].label = "manual"

\* A manual field loses its value or its label only to a worker that did not
\* see it: one that had read the record before it was what it is now, or that
\* asked for the table in another schema (analysis_profile_store.py:13-15 and
\* 56-57).
ManualLostBySight ==
    [][\A k \in Kind :
         IsManual(k) /\ (record'[k].value # record[k].value \/ ~IsManual(k)') =>
            \E w \in Workers :
               /\ InFlight(w, k)
               /\ call[w].found # record[k] \/ Hidden(k, record[k], call[w].new)]_vars

\* A field that is labelled manual holds what a client supplied, never an
\* inferred value, however refreshes and clients interleave
\* (analysis_profile_store.py:162-205, semantic_registry.py:83-94).
ManualMeansSupplied == \A k \in Kind : IsManual(k) => record[k].value \in Supplied

\* A mart that a refresh has inferred is about a table whose profile is
\* stored, though a refresh may die half way (datasource_service.py:171-180).
MartsHaveProfiles == record["mart"].value \in Inferred => Known(record["profile"])

\* "`manual`: user/API/seed supplied value. Auto refresh must preserve it."
\* (docs/superpowers/specs/2026-05-19-sample-profile-inference-design.md:111)
ManualIsPreserved ==
    [][\A w \in Workers, k \in Kind :
         IsManual(k) /\ InFlight(w, k) /\ call[w].new.value \in Inferred
            => record'[k].value = record[k].value]_vars
===============================================================================
