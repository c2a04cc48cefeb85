---------------------------- MODULE AnalysisContext ---------------------------
(***************************************************************************)
(* AnalysisContextService.build_analysis_context: the tables, the columns  *)
(* and the joins that an agent is advised to use for a question, beside    *)
(* the other calls of Datasources.                                         *)
(*                                                                         *)
(* The call reads the catalog again and again: all of it to search it,     *)
(* then table by table, for what the semantic registry adds to the result, *)
(* for the columns to recommend and for the joins to infer.  Each read is  *)
(* a transaction of its own.  A call in progress is the list of the        *)
(* schemas its reads have found; the context is computed from that.        *)
(*                                                                         *)
(* All tables here are in one schema of the database; a match that is not  *)
(* from the catalog has none.  The registry and the profiles are read      *)
(* once, and their answers are part of the question here; the notes,       *)
(* roles, warnings and guidance that come with a context are left out.     *)
(***************************************************************************)
EXTENDS Datasources, FiniteSetsExt

CONSTANTS
    Contents,   \* Contents[v] : the columns of each table in schema v, in order
    MaxColumns, \* how many columns a match shows of a table without a hit: 5
    Important,  \* the columns that _important_column picks out
    Keys,       \* the columns whose name ends with _id
    MaxTables,  \* how many tables a context may name
    Questions   \* see Question

VARIABLES
    question,  \* question[w] : what w's call is about
    seen       \* seen[w]     : the schemas that it has read, in order

context == <<question, seen>>

\* The tables are numbered in the order of their names.
Table == DOMAIN Contents[1]
ColumnNames == UNION {Range(Contents[v][t]) : v \in DOMAIN Contents, t \in Table}

\* The tables and columns with a word of the question in their name, and
\* those that the semantic registry relates to it, its tables in order and
\* each once.
Question == [tables : SUBSET Table, names : SUBSET ColumnNames,
             hinted : {h \in Seq(Table) : IsInjective(h)}, columns : SUBSET ColumnNames]

ContextStep == {"context", "advised"}

NoQuestion == [tables |-> {}, names |-> {}, hinted |-> <<>>, columns |-> {}]

ASSUME ContentsAssumption ==
    /\ DOMAIN Contents = 1 .. MaxVersion
    /\ Table \subseteq Int /\ IsFiniteSet(Table)
    /\ \A v \in DOMAIN Contents : \A t \in Table :
           Contents[v][t] \in Seq(Range(Contents[v][t]))
    /\ MaxColumns \in Nat /\ MaxTables \in Nat /\ Questions \subseteq Question

\* get_catalog of a table, when the catalog is schema v.
Of(v, t) == IF v = 0 THEN {} ELSE Range(Contents[v][t])

\* table_columns[:5]: the rest of a wide table is not shown.
Leading(v, t) ==
    IF v = 0 THEN {} ELSE {Contents[v][t][i] : i \in DOMAIN Contents[v][t] \cap (1 .. MaxColumns)}

ContextTypeOK ==
    /\ question \in [Workers -> Questions \cup {NoQuestion}]
    /\ seen \in [Workers -> Seq(Version)]

ContextInit ==
    /\ question = [w \in Workers |-> NoQuestion]
    /\ seen = [w \in Workers |-> <<>>]

-------------------------------------------------------------------------------
(* What is made of the schemas that were read.                             *)

\* key=(-confidence, table_name)
Before(a, b) ==
    \/ a.confidence > b.confidence
    \/ a.confidence = b.confidence /\ a.table < b.table

\* sorted(matches)[:limit]: as many matches go before one as its place says.
Ranked(matches) ==
    [i \in 1 .. Min({MaxTables, Cardinality(matches)}) |->
        CHOOSE m \in matches : Cardinality({n \in matches : Before(n, m)}) = i - 1]

\* _catalog_matches
Search(q, v) ==
    LET Hits(t) == Of(v, t) \cap q.names
        Confidence(t) == (IF t \in q.tables THEN 80 ELSE 65) + Min({15, 5 * Cardinality(Hits(t))})
    IN  Ranked({[table |-> t, known |-> TRUE, confidence |-> Min({95, Confidence(t)}),
                 columns |-> IF Hits(t) = {} THEN Leading(v, t) ELSE Hits(t)]
                : t \in {t \in Table : Hits(t) # {} \/ (t \in q.tables /\ Of(v, t) # {})}})

TablesOf(matches) == {matches[i].table : i \in DOMAIN matches}

\* The places of the tables that the registry adds to the matches.
Added(q, matches) == {i \in DOMAIN q.hinted : q.hinted[i] \notin TablesOf(matches)}

\* _merge_catalog_matches: a table that is not in the catalog is added too.
Hinted(t, v) ==
    [table |-> t, known |-> Of(v, t) # {}, columns |-> Leading(v, t),
     confidence |-> IF Of(v, t) # {} THEN 75 ELSE 70]

\* Mutant: only the columns that matched are recommended, of those that matter.
OnlyImportant(q, m, n) == n \in Important \/ n \in q.columns

\* Whether a column of a matched table is recommended.
Recommends(q, m, n) ==
    m.columns = {} \/ n \in m.columns \/ n \in Important \/ n \in q.columns

\* _recommended_columns
Recommended(q, m, v) == IF m.known THEN {n \in Of(v, m.table) : Recommends(q, m, n)} ELSE {}

\* _join_hints, those that are inferred; m and v are from the same place.
Joins(ms, vs) ==
    LET Columns(i) == IF ms[i].known THEN Of(vs[i], ms[i].table) ELSE {}
    IN  {join \in (DOMAIN ms) \X (DOMAIN ms) \X Keys :
            /\ join[1] < join[2]
            /\ join[3] \in Columns(join[1]) \cap Columns(join[2])}

\* The call, from its question and the schemas s that its reads have found:
\* the search, a read for each added table, and for each match two more.
Found(q, s) == Search(q, s[1])
Additions(q, s) == Added(q, Found(q, s))
ReadFor(new, i) == 1 + Cardinality({j \in new : j <= i})
Matches(q, s) ==
    LET new == Additions(q, s)
    IN  Ranked(Range(Found(q, s)) \cup {Hinted(q.hinted[i], s[ReadFor(new, i)]) : i \in new})

\* Whether there is nothing left to read.
Complete(q, s) ==
    /\ s # <<>>
    /\ Len(s) > Cardinality(Additions(q, s))
    /\ Len(s) = 1 + Cardinality(Additions(q, s)) + 2 * Len(Matches(q, s))

ColumnsAt(q, s, i) == s[1 + Cardinality(Additions(q, s)) + i]
JoinsAt(q, s, i) == s[1 + Cardinality(Additions(q, s)) + Len(Matches(q, s)) + i]

-------------------------------------------------------------------------------
(* Actions.                                                                *)

\* The registry finds the datasource.
BuildContext(w, d, q) ==
    /\ at[w] = "idle"
    /\ d \in rows
    /\ Goto(w, "context")
    /\ on' = [on EXCEPT ![w] = d]
    /\ question' = [question EXCEPT ![w] = q]
    /\ UNCHANGED <<store, given, since, held, seen>>

\* get_catalog
ReadCatalog(w) ==
    /\ at[w] = "context"
    /\ LET s == Append(seen[w], catalog[on[w]])
       IN  /\ seen' = [seen EXCEPT ![w] = s]
           /\ Goto(w, IF Complete(question[w], s) THEN "advised" ELSE "context")
    /\ UNCHANGED <<store, local, question>>

\* The context is returned, or the process dies.
LeaveContext(w) ==
    /\ at[w] \in ContextStep
    /\ Leave(w)
    /\ question' = [question EXCEPT ![w] = NoQuestion]
    /\ seen' = [seen EXCEPT ![w] = <<>>]
    /\ UNCHANGED store

ContextNext(w) ==
    \/ \E d \in Ids, q \in Questions : BuildContext(w, d, q)
    \/ ReadCatalog(w) \/ LeaveContext(w)

-------------------------------------------------------------------------------
(* Properties.                                                             *)

\* Advice that comes from one state of the catalog hangs together: each column
\* that was matched is recommended, each column recommended and each join is
\* of tables that the context names, and no more tables are named than were
\* asked for.  Only a refresh that commits between the reads of a call can
\* have it say of a table what another part of it denies; even then no column
\* is made up: each was in the catalog when its table was read.
ContextHangsTogether ==
    \A w \in Workers :
        LET q == question[w]
            s == seen[w]
            ms == Matches(q, s)
            vs == [i \in DOMAIN ms |-> JoinsAt(q, s, i)]
        IN  at[w] = "advised" =>
                /\ Len(ms) <= MaxTables
                /\ \A i \in DOMAIN ms :
                       Recommended(q, ms[i], ColumnsAt(q, s, i)) \subseteq
                           UNION {Of(v, ms[i].table) : v \in ToSet(s)}
                /\ Cardinality(ToSet(s)) = 1 =>
                       /\ \A i \in DOMAIN ms :
                              ms[i].columns \subseteq Recommended(q, ms[i], ColumnsAt(q, s, i))
                       /\ \A join \in Joins(ms, vs) :
                              join[3] \in Important =>
                                  \A i \in {join[1], join[2]} :
                                      join[3] \in Recommended(q, ms[i], ColumnsAt(q, s, i))
===============================================================================
